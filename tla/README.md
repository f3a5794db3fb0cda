# Verification of paymentfc

`paymentfc` is the payment service of an online shop. It turns a reserved order
into a Xendit invoice, learns from Xendit how the invoice ended, tells the other
services on Kafka, and records the outcome in PostgreSQL. This directory holds
TLA+ models of that service, the TLC configurations that check them on small
instances, and proofs, checked by TLAPS, that the main results hold for every
value of the constants.

Three kinds of things are claimed here, and they are not the same: what is
*proved* (any number of orders, handlers and attempts), what is *model-checked*
(the instances listed below, exhaustively), and where the code *disagrees* with
what its documentation or comments say (seven counterexamples).

## 1. The system

Everything runs in one Go process (`main.go`). It is stateless: what it keeps is
in PostgreSQL, in Kafka, in MongoDB (the audit log) and at Xendit.

| Component | Code | State it changes | Operations |
|---|---|---|---|
| Webhook handling | `handler.go`, `usecase.go` | `payment_anomalies`, and through the settlement service | `HandleXenditWebhook` → `ProcessPaymentWebhook` (PAID, FAILED; others are ignored) |
| Settlement service | `service.go`, `repository/kafka.go` | topic `payment.success`, `payments.status`, `failed_events`, audit log | `ProcessPaymentSuccess`, `ProcessPaymentFailed`, `retryPublishPayment` |
| Invoice reconciler | `scheduler_service.go:111` | through `ProcessPaymentSuccess` | every 10 min: ask Xendit about PENDING rows younger than a day |
| Expiry sweeper | `scheduler_service.go:25` | `payments.status`, topic, audit log | every minute: expire PENDING rows whose `expired_time` passed |
| stock.reserved consumer | `order_consumer.go:40`, `main.go:105` | consumer offset, `payment_requests` or an invoice | one message at a time; a toggle selects batch or direct flow |
| Invoice creation | `xendit_service.go:34`, `repository/xendit.go` | invoices at Xendit, `payments` | `CreateInvoice`, for `POST /api/v1/payment/invoice` and the direct flow |
| Pending processor | `scheduler_service.go:140` | `payment_requests`, invoices, `payments`, audit log | every 5 s: five oldest PENDING requests |
| Failed processor | `scheduler_service.go:71` | `payment_requests`, audit log | every minute: five oldest FAILED requests within the retry limit |
| Audit log | `repository/audit_log.go` | MongoDB | insert, list by cursor, daily report, change stream (SSE) |
| Database monitor | `dbmonitor/monitor.go` | two capped lists, counters | GORM callbacks around each statement, `GET /debug/queries` |
| Invoice PDF | `pdf/invoice_generator.go`, `handler.go`, `usecase.go` | one file per order | `GET /api/v1/invoice/:order_id/pdf`: read the row, write the file, serve it |
| Middleware and routes | `routes.go`, `middleware/`, `tracing/` | a request's context: user, time-out, span, status | metrics, tracing, two-second time-out and log line, JWT |
| Start-up | `main.go`, `config/`, `resource/`, `grpc/user_client.go` | the process: connections, goroutines, deferred calls | `main()` |
| The rest | business metrics, Kafka helpers and other code without a caller, generated code, mocks | none that matters here | – |

How they interact: the consumer writes `payment_requests`; the two processors
move its rows between PENDING, FAILED and PAID; the pending processor, the
consumer (direct flow) and HTTP clients create invoices and insert `payments`
rows; webhooks, reconciler and sweeper race on each `payments` row. There are no
locks and no transactions across statements: actors meet only in the databases,
with check-then-act sequences of separate statements.

What is hard: the ends of those sequences. A Kafka publish can fail for its
caller and be delivered all the same; a database write can be applied although
its answer is lost; webhooks are lost, late, repeated, and arrive in any order;
batches grow stale while a loop sleeps in a back-off; the process dies between
any two calls. `PROJECT.json` lists the hazards line by line, with the property
that covers each, or why none does yet.

What makes each part correct:

* settlement: an outcome is announced only with a cause, and recorded only after
  it is announced; a settled payment is not overwritten; the audit trail does
  not lie; expired and paid orders do not hang;
* requests: a request is worked off or runs out of its bounded retries; nothing
  is called invoiced without an invoice; old batches do not resurrect requests;
  no event is lost and no order is invoiced twice (these two the code does not
  keep, see section 5).

## 2. Modules

| Module | Models |
|---|---|
| `PaymentStatus` | the statuses of `constant/payment.go` and how a remote write can end |
| `Settlement` | webhook handlers, reconciler, sweeper, the settlement service, around one table `payments` and one topic |
| `Announcement` | what settlement promises: evidence, then announcement, then record |
| `PaymentRequests` | consumer, invoice creation, the two processors, around `payment_requests`, `payments` and Xendit's invoices |
| `RequestLifecycle` | what the processors mean the life of a request to be |
| `AuditStream` | one request for the audit stream: handler, watcher goroutine, their channels, the context |
| `AuditPaging` | the audit log read page by page with a cursor, and its daily report, under inserts and the TTL index |
| `PublishRetry` | one announcement in seconds: three attempts, the back-off, the context of the caller |
| `DbMonitor` | the GORM callbacks, the critical section they share, and the answer of `/debug/queries` |
| `InvoicePdf` | concurrent downloads of one order's invoice through one file |
| `Startup` | `main()`: what is opened, what may be missing, what is deferred, who panics |
| `HttpService` | gin's middleware around every route, and the five modules above with `AuditStream` behind their routes |
| `MCSettlement`, `MCPaymentRequests` | instances for TLC (`HttpService`, `Startup`, `PublishRetry` and `AuditStream` are checked as they are) |
| `SettlementProofs`, `PaymentRequestsProofs`, `AuditStreamProofs`, `AuditPagingProofs`, `PublishRetryProofs`, `DbMonitorProofs`, `HttpServiceProofs` | the proofs about the module each is named after; those of `HttpServiceProofs` also cover `Startup` and `InvoicePdf` |
| `Recursion` | induction over the natural numbers and recursive functions, for the proofs |

**Granularity.** Every actor is sequential Go code in which only remote calls
can be observed or interrupted by others. `pc[p]` names the call that actor `p`
makes next; an action is that call together with the local code up to the next
one. An HTTP handler is a member of `Webhooks` or `Clients` that takes up one
message and returns to `"idle"`; a loop is a process with a `batch`, the rows of
its last query that it has not come to.

**How a call can end.** `CallOutcomes`: `"ok"`, `"err"` (nothing happened) and
`"lost"` (it was applied, its caller sees an error). A publish is the same, with
the event added or not (`PublishFails`). A dead request context (the middleware
gives webhooks two seconds) is one more reason for a call to fail. An audit
entry is written beside a call and its error is ignored, so it is part of the
call's action; the outcome `FALSE` of `AuditOutcomes` stands for a failed write,
for MongoDB being absent (the no-op repository) and for a crash in between.

**Data.** Of a webhook we keep the order, the status, and how its amount relates
to the row: equal, wrong, or absent (`payload.Amount > 0` fails). Times are
replaced by what the queries ask of them: `due` (`expired_time < now()`) and
`stale` (`create_time` older than a day). Events on Kafka are a set: how often
and in which order they are delivered is not modelled. Messages stay in `sent`
and requests can be made any number of times, so loss, delay, duplication and
reordering need no actions of their own. Invoices are counted up to two
(`ManyInvoices`). `ReadMessage` of kafka-go commits before it returns, so the
event leaves `backlog` first.

**Correspondence.** `PROJECT.json`, `map`, gives the lines of each definition.
The names are those of the code: `CheckWebhookPaid`, `CompareAmount`,
`SavePaymentAnomaly` are the PAID branch of `ProcessPaymentWebhook`; `CheckPaid`,
`PublishAcked`/`PublishFails` at `"ok_publish"`, `SaveFailedPublishEvent` and
`MarkPaid` are `ProcessPaymentSuccess`; `GetPaymentOfFailed`, the publish at
`"ko_publish"` and `MarkFailed` are `ProcessPaymentFailed`; `SweeperTick`,
`SweepStillPending`/`SweepSkipped`, the publish at `"sw_publish"` and
`MarkExpired` are the sweeper; `PayerEmail`, `LookupPayment`,
`PendingCreatesInvoice`, `PendingUpdatesSuccess`, `PendingSavesPayment` and
`UpdatesFailed` are the pending processor.

**Goroutines and channels.** `AuditStream` is about one request inside the
process, so its actions are the steps of two goroutines between channel
operations. `events` and `errCh` are the buffers of the two channels. A `select`
takes any ready branch; a `select` with none ready sleeps, and what wakes it
decides the branch (`HandlerSleeps`, `WatcherSleeps`): the end of the context
sends a sleeping handler to `"done"`, a document is handed to it directly, and a
receive from the full buffer serves the sleeping sender. `ctxDone` is the end of
the two-second context that `RequestLogger` puts in place of the request's own
(derived from `context.Background()`, so a client that leaves does not end it),
or its deferred `cancel()`. MongoDB's driver is external: `Next` delivers inserts
in order, may still deliver what it fetched before the context ended, and has an
error when it is false.

**The process and its requests.** `HttpService` is the composition of the parts
that are reached over HTTP. It takes each component as an `INSTANCE`, with its own
variables. A request is the record `c`, gin's context: it goes through `Chain`,
the middleware of its route (which depends on `config.tracing` of `Startup`),
comes to the action of its handler, and goes back. What follows `c.Next()` in
the code is skipped while `panicking`, what is deferred is not. `LeaveRecovery`
turns a panic into a 500 unless the response has begun, as gin does. Where a
handler makes one call, its action chooses the status; where it makes several,
its steps are those of its component: `HandleAuditLogStream` takes any step of
`AuditStream`, and the step in which that handler ends sends the request back;
`AnnounceOutcome` does the same with `PublishRetry`, and `HandleQueries` with
`GetDebugInfo`. Which handlers panic, and what they answer, depends on what
`main()` could open (`resources`, `auditLog`). The components do not write each
other's variables, so a behaviour is about one `activity` and the others stay as
they are at the start. That is a bound, by name. Only one request is in hand at
a time: requests share nothing in the middleware but counters. The requests of
a cursor walk and of PDF downloads are several and are modelled from their
handlers on.

**Details worth knowing.** `RequestLogger` replaces the request's context by one
that descends from `context.Background()`: the span of the tracing middleware is
not visible to handlers below it. In `Startup`, `ClientMissing` is `FALSE`
because Go's comparison of an interface with `nil` is false for an interface that
holds a nil pointer. In `AuditPaging`, ids may arrive out of order, since a
replica's driver makes the id before it sends the document; `steady` is the set
of documents a walk owes its client. In `InvoicePdf` a write over the end of
another write may leave the tail of the longer one (`Torn`). In `DbMonitor`,
`history` records what the lock has ordered. In `PublishRetry` a second is the
unit of time. Every call may take some: the ones that are handed the context until
it ends, the others (all calls of the loops, and the mark of a webhook, since
`MarkPaid` and `MarkFailed` take no context) until `MaxElapsed`, a bound. A write
of a PDF may fail half-way, and what it has written stays in the file.

**External.** Xendit (`Pay`, `AttemptFails`), the clock (`InvoiceExpires`,
`RowAges`), the topic stock.reserved (`StockReserved`) and process death
(`Crash`) are modelled from how the code uses them. Xendit settles an invoice
only before it expires and sends no FAILED webhook after it is paid (one sent
before may still arrive after). `due` is one time for both sides: the row's
`expired_time` is the expiry date of Xendit's answer, stored as it came.
`Settlement!SavePayment` stands for the whole of
`PaymentRequests` until the two are composed; it may come after the payment.

## 3. What is checked

| Run | Instance | Shows |
|---|---|---|
| `settlement_safety` | 1 order, 2 webhooks at once, reconciler, sweeper, 2 attempts, every outcome, a wrong or no amount | `TypeOK`, `AnnouncedBeforeRecorded`, `AnnouncementsJustified`, `AuditTruthful`, `SettledStays`, refinement of `Announcement` |
| `settlement_liveness` | the same with 1 webhook and honest answers, fair | `DueDecided`, `PaidAnnounced` |
| `requests_competing` | 2 requests, batches of 1, retry limit 1, writes that work, fair | `TypeOK`, `RetryBounded`, refinement of `RequestLifecycle`, `PendingSettles` under competition for the batch |
| `requests_lost_answers` | 1 order, one HTTP client, retry limit 3, every outcome, fair | `RetryBounded`, `InvoicedFirst`, `AuditTruthful`, `PendingSettles` |
| `http_service` | one process and its requests; each activity with its own instance, listed below; fair | `TypeOK`, `PrivateNeedsUser`, `RequestAccounted`, `RequestReleased` of the middleware; `StreamFaithful`, `BothEnd`; `WalkComplete`, `WalkDescends`, `ReportMatchesList`; `ResponseIsDigest`, `StatsCoherent`; `WebhookBounded`, `BackoffKept`; `OnlyClientMissed`, `ReleasedOnReturn`; `PdfAlone` |
| `paid_swept_as_expired`, `duplicate_invoice`, `invoice_without_payment`, `reservation_lost` | 1 order | the counterexamples of section 5 |
| `failure_unrecorded` | one announcement, the code's attempts and time-out, a database that never fails | counterexample 7 |
| `audit_stream_panics` | 3 documents, a channel of 2 | counterexample 5 |
| `user_client_missing` | `main()` with every setting and every tolerated error | counterexample 6 |

**Why these bounds.** Orders meet nowhere in settlement except in the batch of a
loop, which handles its rows one at a time: one order shows every race on a row,
and the proofs cover the rest. Two webhooks and two loops are the fewest actors
that show webhook against webhook (PAID against FAILED, PAID against PAID)
together with both loops. Two attempts show a first attempt that is retried and
a last one that is not; the code's three add nothing but another equal attempt.
In `requests_competing` two requests make the order of `create_time` matter, and a
row grows old between the query and its turn. Competition needs a batch smaller
than the queue, and one place for two requests is the smallest. Its writes to
PostgreSQL succeed, to keep the fair instance small: writes that fail are in
`requests_lost_answers`, and the theorem `LifecycleImplemented` holds for
failing writes and for batches of every size. The limit of the code, 3, is used
where one order keeps the state space small. Symmetry is used only in the safety
run of settlement, which also leaves out the amount `"exact"`: it takes the same
branches as `"absent"`.

All runs of requests have the toggle on, the batch flow. With it off (the direct
flow) the processors find nothing to do, and the consumer takes the three steps of
an HTTP client, `InvoicerStep`, which `requests_lost_answers` has; no instance is
checked with the consumer as the invoicer. The proofs hold for both positions.

In `http_service`, by activity:

* stream: five documents against a channel of two fill it, block the watcher, and
  leave documents on both sides of the undecodable one;
* walk: three entries of two events, a page of two, ids in any order: a page
  boundary with inserts above it, below it and at it. The page is asked for as 1
  or as 3, which is over the limit and gives the default. Days of two moments
  put a day across the border of a range, and a TTL of 0 deletes under a reader;
* queries: two statements at once and lists of two and one, so three statements
  overflow both; one duration below the threshold, one on it, one above;
* webhook and background: the code's three attempts and two seconds; calls take
  time until the sixth second, one beyond the five that `WebhookBounded` allows,
  so that the mark is seen to outlast them. All four callers;
* pdf: two downloads, the fewest that disturb each other, and a status that may
  change between them;
* boot: all sixteen settings and every error that `main()` survives;
* rest: every other route with every token, for every subset of the optional
  resources, and with tracing enabled although `InitTracer` has failed.

No activity reads a variable of another component except `config`, `resources`
and `auditLog`, which a serving process does not change. So nothing is lost by
keeping activities apart.

**RetryBounded with lost answers.** `retry_count <= 3` selects a row once more
after the third failure, so four failures are normal. If the answer to
`UpdatePending` is lost, the failed processor counts a failure of a row that the
pending processor already works on, and each may do so from an old batch: the
count can go two beyond that, which is what the `+ 3` says. With honest answers
it is `+ 1`.

**Fairness.** Weak fairness of each loop: Go runs its goroutines and their
timers and tickers fire. Strong fairness of the *success* of each remote call
for each order: an order for which a call is made again and again is served at
last, that is, no outage lasts for ever, though any finite number of failures is
allowed. `<>[][~ Crash]_vars`: the process stops crashing at some time. Nothing
is assumed of webhooks and HTTP clients. In `AuditStream` the timer fires,
MongoDB notices a dead context and both goroutines run on, with no fairness
between the ready branches of a `select`, since Go promises none. `HttpService`
adds that gin runs on with the request it has (`GinStep`). Both take it that a
write to the client ends, by success or by an error: the server sets no
`WriteTimeout` (`main.go:137`), so for a client that stops reading without closing
its connection `BothEnd` rests on TCP giving up. Clients, MongoDB's
inserts and statements of other goroutines owe nothing.
`FairConsumerSpec` also assumes that messages are read without error and that
the insert of an order's request succeeds if it is tried again and again: the
event is lost even then.

**Mutants.** For each property of a passing run, `PROJECT.json` names a small
change of a modelled definition (a dropped guard, an off-by-one, a reversed
comparison, an error that is ignored) under which TLC finds the property
violated.

## 4. What is proved

Seven modules hold proofs about the model, each about the module it is named
after, and `Recursion` holds lemmas that they share. Every invariant that a
passing run checks is proved, and so are the action property and the two
refinements; liveness is left to TLC.

### Settlement

`SettlementProofs`, about `Settlement`, from the assumptions the module states
on its constants: the actors are distinct and no order is `NoOrder`, there is at
least one attempt to publish, and outcomes come from the sets above. The number
of orders, webhooks and attempts is arbitrary.

| Theorem | Statement |
|---|---|
| `TypeCorrect` | `Spec => []TypeOK` |
| `InductiveInvariant` | `Spec => []IInv` |
| `RecordedOutcomesAnnounced` | `Spec => []AnnouncedBeforeRecorded` |
| `OutcomesHaveCauses` | `Spec => []AnnouncementsJustified` |
| `AuditTrailTruthful` | `Spec => []AuditTruthful` |
| `SettledOrdersStay` | `Spec => SettledStays` |
| `Implementation` | `Spec => ImplementsAnnouncement` |

**The argument.** None of the invariants is inductive: each speaks of tables and
events, while the danger is in what an actor, which read something earlier, is
about to do. `IInv` adds that:

* `Justified` – each actor has a cause for what it is doing, the sweeper's batch
  holds expired orders only, and PAID messages come from payments. Causes
  (`sent`, `paid`, `due`) only grow, so they cannot go stale, unlike `status`;
* `MarksAnnounced` – an actor at a marking call has its event on Kafka;
* `RowsSeen` – an actor past its first read, and every row of a batch, has its
  row in `payments` (needed because `Announcement` announces only opened orders,
  and an `UPDATE` of no row would record nothing).

The footprint lemmas (`Footprint`, `Monotone`, `NewEvent`, `NewStatus`,
`LocalStep`, `BatchStep`, `NewRecord`) say once which steps change a variable and
how; the preservation lemmas, one per conjunct, follow from them. `SettledStep`
combines them: a recorded payment has its event, hence its payment, hence no
further failure; so only the sweeper could overwrite it, and only past its
second read. `AbstractStep` maps a publish to `Announce`, a mark to `Record`, an
insert to `Open`, Xendit and the clock to `Discover`.

`IInv` was model-checked on the instance of `settlement_safety` before it was
proved.

### Payment requests

`PaymentRequestsProofs`, about `PaymentRequests`, from the assumptions the module
states: distinct actors, `NoOrder` no order, a batch of at least one, a natural
retry limit, outcomes from the sets above. Any finite number of orders, any HTTP
clients, any batch size and retry limit.

| Theorem | Statement |
|---|---|
| `TypeCorrect` | `Spec => []TypeOK` |
| `InductiveInvariant` | `Spec => []IInv` |
| `InvoicesComeFirst` | `Spec => []InvoicedFirst` |
| `AuditTrailTruthful` | `Spec => []AuditTruthful` |
| `RetriesBounded` | `Spec => []RetryBounded` |
| `LifecycleImplemented` | `Spec => ImplementsLifecycle`, if `"lost" \notin DbOutcomes` |

`IInv` adds to the properties which calls each actor can be at (`Roles`), that the
rows in a batch and at hand exist (`RowsKnown`), that an actor past
`CreateInvoice`, or one that has found a row in `payments`, has an invoice
(`InvoiceHeld`; invoices are never withdrawn, so this does not go stale), and that
a request that is FAILED, or is in the failed processor's batch, has at least one
counted failure (`FailuresCounted`), which is what `PAYMENT_REQUEST_RETRY` claims. `AuditTruthful` ties INVOICE_CREATED to the row and
to the invoice; INVOICE_CREATION_FAILED only says that the processor got no
invoice, since the answer may have been lost.

`RetriesBounded` needs more: the count is raised by whoever still *believes* in a
status. `CountsBounded` states, for each order, how far its count can be given
which processor may still raise it: from an old batch, from an order at hand, or
not at all. With lost answers both can hold an order at the same time, each with
one failure to add after the request was put back once too often: that is the
`+ 3`. With honest answers (`CountsHonest`) what a processor takes to be PENDING,
or FAILED and retryable, is so, however old the batch, because each takes its
requests out of the other's reach. The second invariant also carries the
refinement: a write by id happens in the status the lifecycle demands. Both were
model-checked before they were proved (on the instance of `requests_lost_answers`
with a limit of 1, and with two requests, batches of two and writes that may fail).

### The process and its components

`HttpServiceProofs` is about the process composed of seven parts, from
`HttpAssumption`: what the components assume of their constants (capacities,
limits and page sizes are positive, times and durations are numbers). Its
theorems are about the `Spec` of the process, the one TLC runs.

| Theorem | Statement | Holds for |
|---|---|---|
| `TypeCorrect` | `Spec => []TypeOK` | all of the below together |
| `Authenticated` | `Spec => []PrivateNeedsUser` | any configuration, with or without tracing |
| `Accounted` | `Spec => []RequestAccounted` | the same |
| `Released` | `Spec => []RequestReleased` | the same |
| `StreamKeepsOrder` | `Spec => []StreamFaithful` | any number of inserts, any capacity of the channel, any documents undecodable |
| `NothingSkipped` | `Spec => []WalkComplete` | any number of ids, any page sizes, inserts and deletions in any order |
| `NothingRepeated` | `Spec => []WalkDescends` | the same |
| `ReportCountsTheList` | `Spec => []ReportMatchesList` | any log, any ends of the range, days of any length |
| `MonitorCoherent` | `Spec => []StatsCoherent` | any number of sessions and statements, any capacities, durations, threshold |
| `MonitorDigests` | `Spec => []ResponseIsDigest` | the same |
| `WebhookInTime` | `Spec => []WebhookBounded` | any number of attempts, any time-out, any length of a call before the mark |
| `BackoffDoubles` | `Spec => []BackoffKept` | the same |
| `ClientAloneMissed` | `Spec => []OnlyClientMissed` | any settings, any errors survived |
| `AllReleased` | `Spec => []ReleasedOnReturn` | the same |
| `AloneIsWhole` | `Spec => []PdfAlone` | any number of downloads |

*Composition.* `OneComponent` splits the steps of the process: each is a step of
one component, with the variables of the others unchanged, or of the middleware
alone. So each step is, for each component, one of its own or a stutter
(`ComponentSteps`), and the component's inductive invariant is one of the process
(`StreamKept`, `PagingKept`, `MonitorKept`, `RetryKept`, `BootKept`, `PdfKept`).
The modules with the components' proofs come in as instances beside those of
`HttpService`; `SameStream`, `SamePaging`, `SameMonitor` and `SameRetry` say that
what the two define is the same. The proofs about the middleware, `Startup` and
`InvoicePdf` are in `HttpServiceProofs` itself.

*Middleware* (`GinInv`). What a request has behind it depends on how deep it is
in its chain and whether it goes in or out. `In` says what is still missing on the
way in, `Within` that a handler has everything, `Out` what has been undone or
recorded at each depth on the way out, with and without a panic. `ChainShape`
gives the place of each middleware, which depends on tracing and on the route.
`StreamAlong` ties the request to the component that serves it: a handler of the
stream has returned if and only if its request is on the way out. The properties
are about the end of a request, where `Out` at depth 0 says all they say.

*Stream* (`AuditStreamProofs`). `StreamFaithful` is inductive once `Positions`
excludes what no order of steps reaches: it says that the documents written to
the client, at hand, in the channel and with the watcher are, in this order, an
enumeration of the decodable ones that were read. A step moves one document from
one place to the next (`Moves`) or adds one that is newer than all
(`EnumeratesAppend`).

*Queries* (`AuditPagingProofs`). The core is `PageFacts`, about one request: what
`limit + 1` entries sorted by id give is either all that is left or a full page,
with everything at or above the next cursor on it. It rests on `LargestExists` (a
function on a finite set takes a largest value). `Progress` then says that the
pages read so far are full and end at the cursor. The report is a sum over groups:
`SumOfParts` says that the sizes of the parts of a finite set add up to its size,
whatever the parts are, and `DayBounds` which moments are in a day.

*Publishing* (`PublishRetryProofs`). A clock is the state, so the invariant relates
it to the number of attempts begun: with `i` of them begun the sleeps alone took
`2^(i-1) - 1` seconds (`Attempts`), and a webhook is at most that much beyond its
time-out (`Deadline`), because a call with a dead context ends at once, so that
beyond the time-out only sleeps take time. The mark is where that ends: it has no
context, so `WebhookBounded` speaks of a handler up to its mark, or to its return
without one. `Endings` says that nothing follows the mark.

*Monitor* (`DbMonitorProofs`). Type correctness and `StatsCoherent` are inductive
together (`CutOfAppend`, `AverageBelowMax`). `Digested` says that counters and lists
are at any time the digest of the whole history: the total a sum
(`TotalsOfAppend`), the slow ones a selection (`SlowsOfAppend`), and a list that is
cut at every append the one that is cut once (`LastOfAppend`). A response is a copy
of that, and later statements do not change the prefix it is the digest of
(`BeginningKept`).

*Start-up* (`BootInv`). The calls deferred are those that close what is open and
can be closed, each once (`Covers`); what `main` has not come to is not open
(`Unopened`); nothing is closed before it unwinds. PostgreSQL and MongoDB have no closing call in
`main()` and are left to the end of the process. What loops do with a Kafka writer
that is closed before the process ends, and its exit status, are not checked.

*PDF* (`PdfInv`). `Undisturbed` says what a download may rely on between two of its
calls.

*Induction.* TLAPS cannot use a theorem that takes a predicate as a parameter.
`Recursion` gives the predicate as a set instead: `NatInSet` (a set with 0 and all
successors has all numbers) follows from the well-foundedness of `<`, and
`RecursiveFunction` (a function defined by recursion exists, and satisfies its
definition) from that. For this, powers of two (`Pow2` in `PublishRetry`) and the
sums and selections of a history (`Totals`, `Slows` in `DbMonitor`) are recursive
functions.

All seven inductive invariants (`GinInv`, `BootInv`, `PdfInv` and the `IInv` of the
four components) were model-checked on the instance of `http_service`.

### What is only model-checked

Liveness: `DueDecided`, `PaidAnnounced`, `PendingSettles` and `BothEnd`. Their
proofs would need fairness and `ENABLED`, which the prover does not handle.

## 5. Where the code disagrees with what is said of it

1. `PaidIsRecorded` – the reconciler is there in case a webhook does not arrive
   (`docs/CURRENT_PAYMENT_FLOW.md:23`). The sweeper runs ten times as often and
   expires a PENDING row without asking Xendit: pay just before the deadline,
   lose the webhook, and the payment is announced and recorded as EXPIRED. The
   reconciler does not look at it any more. What does hold is the weaker
   `PaidAnnounced`.
2. `NoDuplicateInvoice` – the lookup of `scheduler_service.go:181` is there to
   prevent duplicate invoices. It looks for a row that is written two calls
   after the invoice; a crash in between gives the order a second invoice.
3. `InvoiceGetsPayment` – a row in `payments` belongs to every created invoice
   (`docs/CURRENT_PAYMENT_FLOW.md:27`). The request is finished first, and the
   error of `SavePayment` is only logged: an invoice the service does not know.
4. `ReservedIsRequested` – the batch flow keeps events without loss
   (`docs/CURRENT_PAYMENT_FLOW.md:36`). The offset is committed before the
   insert, whose error is only logged.

5. `NeverPanics` – in the branch of `errCh` the error is passed on as an event
   (comment at `handler.go:295`). A watcher whose context ends while it is about
   to send returns nil; the handler, back from writing to the client, has both
   branches ready, and if it takes `errCh`, `err.Error()` panics. gin recovers, so
   what is lost is the orderly end of the response.
6. `ContinuesWithoutUserService` – `main.go:59` logs that the service continues
   without the user service. `NewUserClient` returns a nil pointer with its error,
   `main.go:84` and `:97` put it into an interface, and the guards that should skip
   the request compare that interface with `nil`. The first pending request
   dereferences the pointer, outside of gin, and the process ends.
   `OnlyClientMissed` is the other half: nothing else that may be missing does so.
7. `FailureRecorded` – a PAID outcome that could not be published leaves a row in
   `failed_events` (`payment_service_test.go:53`), to be looked at
   (`models/failed_event.go:5`). For a webhook it never does: the sleeps between
   three attempts take three seconds, its context lives two, and `service.go:76`
   writes the row with that context. The test's mock does not look at it. The
   reconciler, whose context has no deadline, does leave the row.

Some properties also show, by what their premises exclude, things the code does
without contradicting its documents. `SettledStays`: a late FAILED webhook
overwrites PAID, and so does a sweep that is past its second read.
`WebhookBounded`: the mark may take any time, long after the request's time-out.
`PdfAlone`: two downloads of an order at the same time may get a torn file.
`ResponseIsDigest`: the number of slow queries stops at the capacity of its list.
`RequestAccounted`: a request that panics is neither counted nor logged.

## 6. What is not modelled, and the plan

Not modelled: what spans and metrics contain, the business metrics (counters
nobody reads), what is printed in a PDF, Swagger, the pool statistics of
`sql.DB`, generated code and mocks, and code without a caller (`StartOrderConsumer`,
`CreateInvoiceFromPaymentRequest`, `service.SaveFailedPublishEvent`, `InitRedis`,
`ValidateToken`, the helpers in `kafka/consumer.go` and `writer.go`).

Known limits of what is modelled: events on Kafka are a set, so a second
`payment.success` of a webhook and a reconciler that both passed
`IsAlreadyPaid`, and the order in which partitions deliver, are not visible; an
order with two invoices lives in `PaymentRequests` only, so
`CheckInvoiceStatus`, which takes the first of them (`xendit.go:97`), is modelled
for one.

The plan, in order:

1. Compose `Settlement` and `PaymentRequests` into one service, so that an order
   with two invoices meets the reconciler. The product of the two state spaces is
   beyond TLC as they stand; it takes a `PaymentRequests` reduced to invoice
   creation.
2. The topic as a sequence with partitions, for duplicate and reordered events.
