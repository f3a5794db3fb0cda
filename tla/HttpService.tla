---------------------------- MODULE HttpService ----------------------------
(***************************************************************************)
(* The process as its HTTP clients meet it: main() starts it, gin takes a  *)
(* request through the middleware to its handler and back, and a handler   *)
(* that does more than one call is the module of its component.            *)
(*                                                                         *)
(* Bound: a behaviour is about one activity.  Requests of one kind, with   *)
(* what runs beside them, meet no other kind; the components of the other  *)
(* activities stay as they are at the start.                               *)
(***************************************************************************)
EXTENDS Naturals, Sequences, FiniteSets

CONSTANTS
    MaxInserts, Cap, Undecodable,                        \* AuditStream
    MaxId, Events, DayLength, MaxTime, TTL,              \* AuditPaging
    DefaultLimit, MaxLimit, Limits, Absent,
    Sessions, Durations, slowThreshold, maxRecent,       \* DbMonitor
    maxSlow, MaxStatements,
    MaxRetryPublish, RequestTimeout, MaxElapsed,         \* PublishRetry
    DbOutcomes,
    Downloads                                            \* InvoicePdf

VARIABLES
    activity,    \* what this behaviour is about, one of Activities
    c            \* the request in hand: gin's context, see Request

VARIABLES
    config, main, secrets, resources, auditLog, deferred, workers, exit,
    culprit,
    inserted, first, last, watcher, events, errCh, handler, current, out,
    ctxDone,
    now, log, used, filter, cursor, walk, pages, steady,
    session, record, recent, slowQueries, totalQueries, totalDuration,
    maxDuration, history, response,
    caller, elapsed, publisher, began, wakeAt, delivered, failedEvent, marked,
    status, file, download, payment, opened, sent, disturbed

bootVars    == <<config, main, secrets, resources, auditLog, deferred,
                 workers, exit, culprit>>
streamVars  == <<inserted, first, last, watcher, events, errCh, handler,
                 current, out, ctxDone>>
pagingVars  == <<now, log, used, filter, cursor, walk, pages, steady>>
monitorVars == <<session, record, recent, slowQueries, totalQueries,
                 totalDuration, maxDuration, history, response>>
retryVars   == <<caller, elapsed, publisher, began, wakeAt, delivered,
                 failedEvent, marked>>
pdfVars     == <<status, file, download, payment, opened, sent, disturbed>>

Boot     == INSTANCE Startup WITH pc <- main
Stream   == INSTANCE AuditStream
Paging   == INSTANCE AuditPaging
Monitor  == INSTANCE DbMonitor
Retry    == INSTANCE PublishRetry WITH pc <- publisher, now <- elapsed
Pdf      == INSTANCE InvoicePdf WITH pc <- download

ASSUME HttpAssumption ==
    /\ Stream!StreamAssumption /\ Paging!PagingAssumption
    /\ Monitor!MonitorAssumption /\ Retry!PublishAssumption

\* "background": an announcement by one of the loops.  "rest": any one request
\* to a handler that makes one call.  The requests of a "walk" and for a "pdf"
\* are several, and taken up where they have come to their handlers.
Activities == {"boot", "stream", "walk", "queries", "webhook", "background",
               "pdf", "rest"}

Public  == {"ping", "queries", "audit_logs", "stream", "webhook"}
Private == {"invoice", "failed_payments", "audit_report"}
Routes  == Public \union Private \union {"unmatched"}

\* An Authorization header: none or one that is refused; a valid token without
\* a number as its user_id; a valid one with it.
Tokens == {"refused", "no_user", "valid"}

Request ==
    [route : Routes, token : Tokens,
     stage : {"idle", "in", "handler", "out", "done"},
     depth : 0 .. 6,                        \* middleware it is inside of
     status : {200, 400, 401, 404, 500},    \* c.Writer.Status()
     written : BOOLEAN,                     \* the response has begun
     panicking : BOOLEAN, panicked : BOOLEAN,
     user : BOOLEAN,                        \* user_id is set in the context
     handled : BOOLEAN,                     \* its handler has been called
     span : {"none", "open", "ended"},
     ctx : {"own", "live", "cancelled"},    \* RequestLogger's time-out
     logged : {0, 200, 400, 401, 404, 500}, \* the status in its log line
     counted : {0, 200, 400, 401, 404, 500}]

Arrived(r, t) ==
    [route |-> r, token |-> t, stage |-> "in", depth |-> 0,
     status |-> IF r = "unmatched" THEN 404 ELSE 200, written |-> FALSE,
     panicking |-> FALSE, panicked |-> FALSE, user |-> FALSE,
     handled |-> FALSE, span |-> "none", ctx |-> "own",
     logged |-> 0, counted |-> 0]

NoRequest == [Arrived("ping", "refused") EXCEPT !.stage = "idle"]

components == <<bootVars, streamVars, pagingVars, monitorVars, retryVars,
                pdfVars>>
vars == <<activity, c, components>>

Init ==
    /\ activity \in Activities /\ c = NoRequest
    /\ CASE activity = "boot" -> Boot!Init
         [] activity = "rest" ->
              \E optional \in SUBSET {"tracer", "mongoDB", "userClient"} :
                  Boot!Serving(optional)
         [] OTHER -> Boot!Serving({"tracer", "mongoDB", "userClient"})
    /\ Stream!Init /\ (activity # "stream" => inserted = 0)
    /\ Paging!Init /\ Monitor!Init
    /\ Retry!Init /\ CASE activity = "webhook"    -> caller \in Retry!Webhooks
                       [] activity = "background" -> caller \notin Retry!Webhooks
                       [] OTHER                   -> caller = "reconciler"
    /\ Pdf!Init /\ (activity # "pdf" => status = "NO_ROW")

\* A step of one activity leaves the other components alone.
OnlyBoot    == UNCHANGED <<activity, streamVars, pagingVars, monitorVars,
                           retryVars, pdfVars>>
OnlyStream  == UNCHANGED <<activity, bootVars, pagingVars, monitorVars,
                           retryVars, pdfVars>>
OnlyPaging  == UNCHANGED <<activity, bootVars, streamVars, monitorVars,
                           retryVars, pdfVars>>
OnlyMonitor == UNCHANGED <<activity, bootVars, streamVars, pagingVars,
                           retryVars, pdfVars>>
OnlyRetry   == UNCHANGED <<activity, bootVars, streamVars, pagingVars,
                           monitorVars, pdfVars>>
OnlyPdf     == UNCHANGED <<activity, c, bootVars, streamVars, pagingVars,
                           monitorVars, retryVars>>

-----------------------------------------------------------------------------
(* The way in. *)

\* SetupRoutes: which requests this behaviour has.
Kinds == CASE activity = "queries" -> {"queries"}
           [] activity = "stream"  -> {"stream"}
           [] activity = "webhook" -> {"webhook"}
           [] activity = "rest"    -> Private \union {"ping", "unmatched", "audit_logs"}
           [] OTHER                -> {}

Arrive ==
    /\ c.stage = "idle" \/ (c.stage = "done" /\ activity = "queries")
    /\ \E r \in Kinds :
          \E t \in IF r \in Private THEN Tokens ELSE {"refused"} :
              c' = Arrived(r, t)
    /\ UNCHANGED <<activity, components>>

\* The handlers gin runs one inside the other.  gin.Default() brings the first
\* two; middleware of the engine also wraps what no route matches.
Chain(r) == <<"logger", "recovery", "red">>
            \o (IF config.tracing THEN <<"tracing">> ELSE <<>>)
            \o <<"request_logger">>
            \o (IF r \in Private THEN <<"auth">> ELSE <<>>)

Enters(m) ==
    /\ c.stage = "in" /\ c.depth < Len(Chain(c.route))
    /\ Chain(c.route)[c.depth + 1] = m
    /\ UNCHANGED <<activity, components>>

EnterPlain ==
    /\ Enters("logger") \/ Enters("recovery") \/ Enters("red")
    /\ c' = [c EXCEPT !.depth = @ + 1]

EnterTracing ==
    /\ Enters("tracing")
    /\ c' = [c EXCEPT !.depth = @ + 1,
                      !.span = IF resources["tracer"] = "nil" THEN "none"
                                                              ELSE "open"]

\* The new context descends from context.Background().
EnterRequestLogger ==
    /\ Enters("request_logger")
    /\ c' = [c EXCEPT !.depth = @ + 1, !.ctx = "live"]

\* Mutant: c.Abort() is forgotten, and gin goes on with the next handler.
NotAborted == "in"

AfterAbort == "out"

\* AuthMiddleware refuses, panics in its type assertion, or lets through.
Refuse ==
    /\ Enters("auth") /\ c.token = "refused"
    /\ c' = [c EXCEPT !.depth = @ + 1, !.status = 401, !.written = TRUE,
                      !.stage = AfterAbort]

NoUserId ==
    /\ Enters("auth") /\ c.token = "no_user"
    /\ c' = [c EXCEPT !.panicking = TRUE, !.panicked = TRUE, !.stage = "out"]

EnterAuth ==
    /\ Enters("auth") /\ c.token = "valid"
    /\ c' = [c EXCEPT !.depth = @ + 1, !.user = TRUE]

CallHandler ==
    /\ c.stage = "in" /\ c.depth = Len(Chain(c.route))
    /\ c' = [c EXCEPT !.stage = "handler", !.handled = TRUE]
    /\ UNCHANGED <<activity, components>>

-----------------------------------------------------------------------------
(* The handlers. *)

Handling(r) == c.stage = "handler" /\ c.route = r

Answers(code) ==
    c' = [c EXCEPT !.status = code, !.written = TRUE, !.stage = "out"]

HandlerPanics ==
    c' = [c EXCEPT !.panicking = TRUE, !.panicked = TRUE, !.stage = "out"]

\* Ping and what is like it: /health, /metrics, /debug/kafka, /swagger.  For a
\* route that does not exist there is only the 404.
HandlePing ==
    /\ Handling("ping") /\ Answers(200)
    /\ UNCHANGED <<activity, components>>

HandleUnmatched ==
    /\ Handling("unmatched") /\ Answers(404)
    /\ UNCHANGED <<activity, components>>

\* The invoice itself is module PaymentRequests.  A user client that is missing
\* is dereferenced here as well.
HandleCreateInvoice ==
    /\ Handling("invoice")
    /\ \/ Answers(400)
       \/ IF resources["userClient"] = "nil"
          THEN HandlerPanics
          ELSE \E code \in {200, 500} : Answers(code)
    /\ UNCHANGED <<activity, components>>

HandleFailedPayments ==
    /\ Handling("failed_payments") /\ \E code \in {200, 500} : Answers(code)
    /\ UNCHANGED <<activity, components>>

\* HandleAuditLogs and HandleAuditDailyReport, public and under /api.  What they
\* return is module AuditPaging; the no-op repository returns nothing.
HandleAuditQuery ==
    /\ Handling("audit_logs") \/ Handling("audit_report")
    /\ \E code \in IF auditLog = "noop" THEN {200} ELSE {200, 500} :
          Answers(code)
    /\ UNCHANGED <<activity, components>>

\* /debug/queries.  DBMonitor is set by InitDB, before there are requests.
HandleQueries ==
    /\ Handling("queries") /\ OnlyMonitor
    /\ Monitor!GetDebugInfo /\ Answers(200)

\* The steps of the handler of a stream and of its watcher, which may outlive
\* the request.  The first Flush begins the response.
StreamStep(A) ==
    /\ activity = "stream" /\ c.handled
    /\ A /\ OnlyStream
    /\ c' = IF handler' = handler \/ handler' \notin {"returned", "panicked"}
            THEN [c EXCEPT !.written = @ \/ out' # <<>>]
            ELSE [c EXCEPT !.stage = "out",
                           !.panicking = (handler' = "panicked"),
                           !.panicked = (handler' = "panicked")]

HandleAuditLogStream == StreamStep(Stream!Next)

\* HandleXenditWebhook.  What it answers before it comes to announce anything
\* is module Settlement; PublishRetry is the announcement.
AnswerWebhook ==
    /\ Handling("webhook") /\ publisher = "idle"
    /\ \E code \in {200, 400, 401, 500} : Answers(code)
    /\ UNCHANGED <<activity, components>>

AnnounceOutcome ==
    /\ Handling("webhook") /\ OnlyRetry
    /\ Retry!Next
    /\ IF publisher' = "returned"
       THEN \E code \in {200, 500} : (code = 200 => marked' = "ok") /\ Answers(code)
       ELSE UNCHANGED c

-----------------------------------------------------------------------------
(* The way back.  What follows c.Next() is skipped by a panic, what is       *)
(* deferred is not.                                                          *)

Leaves(m) ==
    /\ c.stage = "out" /\ c.depth > 0 /\ Chain(c.route)[c.depth] = m
    /\ UNCHANGED <<activity, components>>

\* Mutant: cancel() and span.End() are called after c.Next().
AfterNext == ~ c.panicking

Deferred == TRUE

LeaveAuth ==
    /\ Leaves("auth")
    /\ c' = [c EXCEPT !.depth = @ - 1]

LeaveRequestLogger ==
    /\ Leaves("request_logger")
    /\ c' = [c EXCEPT !.depth = @ - 1,
                      !.ctx = IF Deferred THEN "cancelled" ELSE @,
                      !.logged = IF c.panicking THEN @ ELSE c.status]

LeaveTracing ==
    /\ Leaves("tracing")
    /\ c' = [c EXCEPT !.depth = @ - 1,
                      !.span = IF @ = "open" /\ Deferred THEN "ended" ELSE @]

\* Mutant: the request is counted by a deferred function, inside of the
\* recovery, when the status is not yet what the client gets.
CountedEarly == TRUE

Counts == ~ c.panicking

LeavePrometheusRED ==
    /\ Leaves("red")
    /\ c' = [c EXCEPT !.depth = @ - 1,
                      !.counted = IF Counts THEN c.status ELSE @]

\* The status of a response that has begun stays.
LeaveRecovery ==
    /\ Leaves("recovery")
    /\ c' = [c EXCEPT !.depth = @ - 1, !.panicking = FALSE,
                      !.status = IF c.panicking /\ ~ c.written THEN 500 ELSE @]

LeaveLogger ==
    /\ Leaves("logger")
    /\ c' = [c EXCEPT !.depth = 0, !.stage = "done"]

-----------------------------------------------------------------------------
GinStep ==
    \/ EnterPlain \/ EnterTracing \/ EnterRequestLogger
    \/ Refuse \/ NoUserId \/ EnterAuth \/ CallHandler
    \/ HandlePing \/ HandleUnmatched \/ HandleCreateInvoice
    \/ HandleFailedPayments \/ HandleAuditQuery
    \/ HandleQueries \/ AnswerWebhook
    \/ LeaveAuth \/ LeaveRequestLogger \/ LeaveTracing
    \/ LeavePrometheusRED \/ LeaveRecovery \/ LeaveLogger

\* What does not pass through gin here, or runs beside the request: main and its
\* goroutines, pages and entries of the audit log, statements, downloads.
Beside ==
    \/ activity = "boot" /\ Boot!Next /\ OnlyBoot /\ UNCHANGED c
    \/ activity = "walk" /\ Paging!Next /\ OnlyPaging /\ UNCHANGED c
    \/ /\ activity = "queries" /\ OnlyMonitor /\ UNCHANGED c
       /\ \E s \in Sessions : Monitor!Statement(s)
    \/ activity = "background" /\ Retry!Next /\ OnlyRetry /\ UNCHANGED c
    \/ activity = "pdf" /\ Pdf!Next /\ OnlyPdf

Next == Arrive \/ GinStep \/ HandleAuditLogStream \/ AnnounceOutcome \/ Beside

Spec == Init /\ [][Next]_vars

\* gin goes on with the request it has, and the two goroutines of a stream as
\* in AuditStream.  Clients and the components beside owe nothing.
Fairness ==
    /\ WF_vars(GinStep)
    /\ WF_vars(StreamStep(Stream!Timeout))
    /\ WF_vars(StreamStep(Stream!OpenEnds))
    /\ WF_vars(StreamStep(Stream!NextEnds))
    /\ WF_vars(StreamStep(Stream!SendEnds))
    /\ WF_vars(StreamStep(Stream!HandlerStep))

FairSpec == Spec /\ Fairness

-----------------------------------------------------------------------------
(* Properties.  Those of the components are stated in their modules.         *)

\* Every variable of the process keeps its type.
TypeOK ==
    /\ activity \in Activities /\ c \in Request
    /\ Boot!TypeOK /\ Stream!TypeOK /\ Paging!TypeOK
    /\ Monitor!TypeOK /\ Retry!TypeOK /\ Pdf!TypeOK

\* The handlers under /api run for nobody else than a bearer of a valid token
\* that names a user: what the middleware refuses, or panics about, is answered
\* 401 or 500 and does not come to the handler.
PrivateNeedsUser ==
    c.route \in Private =>
        /\ c.handled => c.token = "valid" /\ c.user
        /\ c.stage = "done" /\ ~ c.handled => c.status \in {401, 500}

\* A request that has been answered has been accounted for as the client saw
\* it: one log line and one count with the status it got, or neither after a
\* panic, which only gin's own log shows; a panic is answered 500 unless the
\* response had begun.
RequestAccounted ==
    c.stage = "done" =>
        /\ c.logged \in {0, c.status} /\ c.counted \in {0, c.status}
        /\ c.logged = 0 <=> c.panicked
        /\ c.counted = 0 <=> c.panicked
        /\ c.panicked => c.status = IF c.written THEN 200 ELSE 500

\* Nothing of a request stays behind it: its span is ended and its time-out is
\* cancelled, panic or not, and neither before the handler is through.
RequestReleased ==
    /\ c.stage = "done" => c.span # "open" /\ c.ctx = "cancelled"
    /\ c.stage = "handler" => c.span # "ended" /\ c.ctx = "live"

\* See AuditStream.  The request is also taken back through the middleware.
StreamFaithful == Stream!StreamFaithful
BothEnd ==
    c.route = "stream" /\ c.stage = "handler" ~>
        /\ watcher = "ended" /\ handler \in {"returned", "panicked"}
        /\ c.stage = "done"

\* See AuditPaging: no entry is skipped at a page boundary, none is repeated,
\* and the report agrees with the list.
WalkComplete      == Paging!WalkComplete
WalkDescends      == Paging!WalkDescends
ReportMatchesList == Paging!ReportMatchesList

\* See DbMonitor: a response is one moment's, and its lists and counters agree.
ResponseIsDigest == Monitor!ResponseIsDigest
StatsCoherent    == Monitor!StatsCoherent

\* See PublishRetry: how long a webhook can take to publish, and the back-off
\* between attempts.
WebhookBounded == Retry!WebhookBounded
BackoffKept    == Retry!BackoffKept

\* See Startup: what main can go on without, and what it closes.
OnlyClientMissed == Boot!OnlyClientMissed
ReleasedOnReturn == Boot!ReleasedOnReturn

\* See InvoicePdf: only another download disturbs a download.
PdfAlone == Pdf!PdfAlone
=============================================================================
