--------------------------- MODULE HttpServiceProofs ---------------------------
(***************************************************************************)
(* Proofs about the process as its HTTP clients meet it.  Start-up, the    *)
(* downloads of invoices and the way of a request through the middleware   *)
(* are proved here; what is proved of the audit log, the database monitor  *)
(* and the announcements in modules of their own holds in the process that *)
(* is composed of them, because a step of HttpService is, for each of its  *)
(* components, a step of its own or none.                                  *)
(***************************************************************************)
EXTENDS HttpService, FiniteSetTheorems, TLAPS

StreamProofs  == INSTANCE AuditStreamProofs
PagingProofs  == INSTANCE AuditPagingProofs
MonitorProofs == INSTANCE DbMonitorProofs
RetryProofs   == INSTANCE PublishRetryProofs
                 WITH pc <- publisher, now <- elapsed

-----------------------------------------------------------------------------
(* The modules with the proofs are instances beside those of HttpService.    *)
(* What each pair defines is the same.                                       *)

\* Module AuditStream.
LEMMA SameStream ==
    /\ Stream!StreamAssumption => StreamProofs!StreamAssumption
    /\ Stream!Init => StreamProofs!Init
    /\ Stream!Next => StreamProofs!Next
    /\ StreamProofs!TypeOK => Stream!TypeOK
    /\ StreamProofs!StreamFaithful => Stream!StreamFaithful
  <1>1. Stream!StreamAssumption => StreamProofs!StreamAssumption
    BY DEF Stream!StreamAssumption, StreamProofs!StreamAssumption
  <1>2. Stream!Init => StreamProofs!Init
    BY DEF Stream!Init, StreamProofs!Init
  <1>3. Stream!Next => StreamProofs!Next
    BY DEF Stream!Next, Stream!SaveAuditLog, Stream!Timeout, Stream!OpenStream,
           Stream!OpenFails, Stream!ReadDocument, Stream!NextFails, Stream!Send,
           Stream!Buffer, Stream!CancelSend, Stream!SendCancelled,
           Stream!SelectDone, Stream!SelectErr, Stream!SelectNilErr,
           Stream!SelectEvent, Stream!WriteEvent, Stream!WriteError,
           Stream!WatcherReturns, Stream!HandlerReturns, Stream!HandlerSleeps,
           Stream!WatcherSleeps, Stream!stream, Stream!client,
           StreamProofs!Next, StreamProofs!SaveAuditLog, StreamProofs!Timeout,
           StreamProofs!OpenStream, StreamProofs!OpenFails,
           StreamProofs!ReadDocument, StreamProofs!NextFails, StreamProofs!Send,
           StreamProofs!Buffer, StreamProofs!CancelSend,
           StreamProofs!SendCancelled, StreamProofs!SelectDone,
           StreamProofs!SelectErr, StreamProofs!SelectNilErr,
           StreamProofs!SelectEvent, StreamProofs!WriteEvent,
           StreamProofs!WriteError, StreamProofs!WatcherReturns,
           StreamProofs!HandlerReturns, StreamProofs!HandlerSleeps,
           StreamProofs!WatcherSleeps, StreamProofs!stream, StreamProofs!client
  <1>4. StreamProofs!TypeOK => Stream!TypeOK
    BY DEF Stream!TypeOK, StreamProofs!TypeOK
  <1>5. StreamProofs!StreamFaithful => Stream!StreamFaithful
    BY DEF Stream!StreamFaithful, Stream!Enumerates, Stream!InFlight,
           Stream!Held, Stream!Read, Stream!ToSet, StreamProofs!StreamFaithful,
           StreamProofs!Enumerates, StreamProofs!InFlight, StreamProofs!Held,
           StreamProofs!Read, StreamProofs!ToSet
  <1> QED
    BY <1>1, <1>2, <1>3, <1>4, <1>5

\* Module PublishRetry.
LEMMA SameRetry ==
    /\ Retry!PublishAssumption => RetryProofs!PublishAssumption
    /\ Retry!Init => RetryProofs!Init
    /\ Retry!Next => RetryProofs!Next
    /\ RetryProofs!TypeOK => Retry!TypeOK
    /\ RetryProofs!WebhookBounded => Retry!WebhookBounded
    /\ RetryProofs!BackoffKept => Retry!BackoffKept
  <1>1. Retry!PublishAssumption => RetryProofs!PublishAssumption
    BY DEF Retry!PublishAssumption, RetryProofs!PublishAssumption
  <1>2. Retry!Init => RetryProofs!Init
    BY DEF Retry!Init, Retry!Callers, Retry!Webhooks, RetryProofs!Init,
           RetryProofs!Callers, RetryProofs!Webhooks
  <1>3. Retry!Next => RetryProofs!Next
    BY DEF Retry!Next, Retry!Begin, Retry!PublishAcked, Retry!PublishFails,
           Retry!Wake, Retry!SaveFailedPublishEvent, Retry!Mark, Retry!Tick,
           Retry!Attempt, Retry!ContextDead, Retry!TriesAgain, Retry!Wait,
           Retry!Pow2, Retry!GiveUp, Retry!Webhooks,
           RetryProofs!Next, RetryProofs!Begin, RetryProofs!PublishAcked,
           RetryProofs!PublishFails, RetryProofs!Wake,
           RetryProofs!SaveFailedPublishEvent, RetryProofs!Mark,
           RetryProofs!Tick, RetryProofs!Attempt, RetryProofs!ContextDead,
           RetryProofs!TriesAgain, RetryProofs!Wait, RetryProofs!Pow2,
           RetryProofs!GiveUp, RetryProofs!Webhooks
  <1>4. RetryProofs!TypeOK => Retry!TypeOK
    BY DEF Retry!TypeOK, Retry!Callers, Retry!Webhooks, RetryProofs!TypeOK,
           RetryProofs!Callers, RetryProofs!Webhooks
  <1>5. RetryProofs!WebhookBounded => Retry!WebhookBounded
    BY DEF Retry!WebhookBounded, Retry!Webhooks, Retry!Pow2,
           RetryProofs!WebhookBounded, RetryProofs!Webhooks, RetryProofs!Pow2
  <1>6. RetryProofs!BackoffKept => Retry!BackoffKept
    BY DEF Retry!BackoffKept, Retry!Pow2, RetryProofs!BackoffKept,
           RetryProofs!Pow2
  <1> QED
    BY <1>1, <1>2, <1>3, <1>4, <1>5, <1>6

\* Module AuditPaging.
LEMMA SamePaging ==
    /\ Paging!PagingAssumption => PagingProofs!PagingAssumption
    /\ Paging!Init => PagingProofs!Init
    /\ Paging!Next => PagingProofs!Next
    /\ PagingProofs!TypeOK => Paging!TypeOK
    /\ PagingProofs!WalkComplete => Paging!WalkComplete
    /\ PagingProofs!WalkDescends => Paging!WalkDescends
    /\ PagingProofs!ReportMatchesList => Paging!ReportMatchesList
  <1>1. Paging!PagingAssumption => PagingProofs!PagingAssumption
    BY DEF Paging!PagingAssumption, PagingProofs!PagingAssumption
  <1>2. Paging!Init => PagingProofs!Init
    BY DEF Paging!Init, Paging!NoFilter, PagingProofs!Init,
           PagingProofs!NoFilter
  <1>3. Paging!Next => PagingProofs!Next
    BY DEF Paging!Next, Paging!Requests, Paging!InsertOne, Paging!Tick,
           Paging!Expire, Paging!StartWalk, Paging!ListAuditLogs, Paging!Find,
           Paging!Matches, Paging!Within, Paging!Below, Paging!Newest,
           Paging!NextCursor, Paging!PageSize, Paging!Midnight, Paging!Ids,
           Paging!Times, Paging!client, Paging!Cardinality, Paging!Min,
           PagingProofs!Next, PagingProofs!Requests, PagingProofs!InsertOne,
           PagingProofs!Tick, PagingProofs!Expire, PagingProofs!StartWalk,
           PagingProofs!ListAuditLogs, PagingProofs!Find, PagingProofs!Matches,
           PagingProofs!Within, PagingProofs!Below, PagingProofs!Newest,
           PagingProofs!NextCursor, PagingProofs!PageSize,
           PagingProofs!Midnight, PagingProofs!Ids, PagingProofs!Times,
           PagingProofs!client, PagingProofs!Cardinality, PagingProofs!Min
  <1>4. PagingProofs!TypeOK => Paging!TypeOK
    BY DEF Paging!TypeOK, Paging!Entry, Paging!Filter, Paging!Ids, Paging!Times,
           PagingProofs!TypeOK, PagingProofs!Entry, PagingProofs!Filter,
           PagingProofs!Ids, PagingProofs!Times
  <1>5. PagingProofs!WalkComplete => Paging!WalkComplete
    BY DEF Paging!WalkComplete, Paging!Got, PagingProofs!WalkComplete,
           PagingProofs!Got
  <1>6. PagingProofs!WalkDescends => Paging!WalkDescends
    BY DEF Paging!WalkDescends, Paging!PageSize, Paging!Cardinality,
           PagingProofs!WalkDescends, PagingProofs!PageSize,
           PagingProofs!Cardinality
  <1>7. PagingProofs!ReportMatchesList => Paging!ReportMatchesList
    BY DEF Paging!ReportMatchesList, Paging!GetDailyReport, Paging!InRange,
           Paging!Matches, Paging!Within, Paging!Midnight, Paging!Day,
           Paging!Times, Paging!MapThenSumSet, Paging!MapThenFoldSet,
           Paging!Cardinality, PagingProofs!ReportMatchesList,
           PagingProofs!GetDailyReport, PagingProofs!InRange,
           PagingProofs!Matches, PagingProofs!Within, PagingProofs!Midnight,
           PagingProofs!Day, PagingProofs!Times, PagingProofs!MapThenSumSet,
           PagingProofs!MapThenFoldSet, PagingProofs!Cardinality
  <1> QED
    BY <1>1, <1>2, <1>3, <1>4, <1>5, <1>6, <1>7

\* Module DbMonitor.
LEMMA SameMonitor ==
    /\ Monitor!MonitorAssumption => MonitorProofs!MonitorAssumption
    /\ Monitor!Init => MonitorProofs!Init
    /\ (\E s \in Sessions : Monitor!Statement(s)) \/ Monitor!GetDebugInfo
          => MonitorProofs!Next
    /\ MonitorProofs!TypeOK => Monitor!TypeOK
    /\ MonitorProofs!StatsCoherent => Monitor!StatsCoherent
    /\ MonitorProofs!ResponseIsDigest => Monitor!ResponseIsDigest
  <1>1. Monitor!MonitorAssumption => MonitorProofs!MonitorAssumption
    BY DEF Monitor!MonitorAssumption, MonitorProofs!MonitorAssumption
  <1>2. Monitor!Init => MonitorProofs!Init
    BY DEF Monitor!Init, Monitor!NoRecord, MonitorProofs!Init,
           MonitorProofs!NoRecord
  <1>3. (\E s \in Sessions : Monitor!Statement(s)) \/ Monitor!GetDebugInfo
          => MonitorProofs!Next
    BY DEF Monitor!Statement, Monitor!Before,
           Monitor!AfterUnrecorded, Monitor!AfterMeasures, Monitor!AfterRecords,
           Monitor!GetDebugInfo, Monitor!Cut, Monitor!LastOf, Monitor!Slow,
           Monitor!NewestFirst, Monitor!Reverse, Monitor!NoRecord,
           Monitor!statements, Monitor!stats, MonitorProofs!Statement,
           MonitorProofs!Next, MonitorProofs!Before,
           MonitorProofs!AfterUnrecorded, MonitorProofs!AfterMeasures,
           MonitorProofs!AfterRecords, MonitorProofs!GetDebugInfo,
           MonitorProofs!Cut, MonitorProofs!LastOf, MonitorProofs!Slow,
           MonitorProofs!NewestFirst, MonitorProofs!Reverse,
           MonitorProofs!NoRecord, MonitorProofs!statements, MonitorProofs!stats
  <1>4. MonitorProofs!TypeOK => Monitor!TypeOK
    BY DEF Monitor!TypeOK, Monitor!NoRecord, MonitorProofs!TypeOK,
           MonitorProofs!NoRecord
  <1>5. MonitorProofs!StatsCoherent => Monitor!StatsCoherent
    BY DEF Monitor!StatsCoherent, MonitorProofs!StatsCoherent
  <1>6. MonitorProofs!ResponseIsDigest => Monitor!ResponseIsDigest
    BY DEF Monitor!ResponseIsDigest, Monitor!IdealAnswer, Monitor!Totals,
           Monitor!Slows, Monitor!SlowOf, Monitor!LastOf, Monitor!Max,
           Monitor!Min, Monitor!ToSet, Monitor!Reverse,
           MonitorProofs!ResponseIsDigest, MonitorProofs!IdealAnswer,
           MonitorProofs!Totals, MonitorProofs!Slows, MonitorProofs!SlowOf,
           MonitorProofs!LastOf, MonitorProofs!Max, MonitorProofs!Min,
           MonitorProofs!ToSet, MonitorProofs!Reverse, Zenon
  <1> QED
    BY <1>1, <1>2, <1>3, <1>4, <1>5, <1>6

-----------------------------------------------------------------------------
(* Whose step a step is.                                                     *)

\* The components do not share variables: a step is one component's or nobody's.
LEMMA OneComponent ==
    ASSUME [Next]_vars
    PROVE  \/ UNCHANGED components
           \/ OnlyBoot /\ Boot!Next
           \/ OnlyStream /\ Stream!Next
           \/ OnlyPaging /\ Paging!Next
           \/ OnlyMonitor /\ \/ \E s \in Sessions : Monitor!Statement(s)
                             \/ Monitor!GetDebugInfo
           \/ OnlyRetry /\ Retry!Next
           \/ OnlyPdf /\ Pdf!Next
  <1>1. CASE Arrive
    BY <1>1 DEF Arrive
  <1>2. CASE GinStep
    BY <1>2 DEF GinStep, EnterPlain, EnterTracing, EnterRequestLogger, Refuse,
                NoUserId, EnterAuth, Enters, CallHandler, HandlePing,
                HandleUnmatched, HandleCreateInvoice, HandleFailedPayments,
                HandleAuditQuery, HandleQueries, AnswerWebhook, LeaveAuth,
                LeaveRequestLogger, LeaveTracing, LeavePrometheusRED,
                LeaveRecovery, LeaveLogger, Leaves
  <1>3. CASE HandleAuditLogStream
    BY <1>3 DEF HandleAuditLogStream, StreamStep
  <1>4. CASE AnnounceOutcome
    BY <1>4 DEF AnnounceOutcome
  <1>5. CASE Beside
    BY <1>5 DEF Beside
  <1>6. CASE UNCHANGED vars
    BY <1>6 DEF vars
  <1> QED
    BY <1>1, <1>2, <1>3, <1>4, <1>5, <1>6 DEF Next

\* The same, as each of the components sees it.
LEMMA ComponentSteps ==
    ASSUME [Next]_vars
    PROVE  /\ [Boot!Next]_(Boot!vars)
           /\ [StreamProofs!Next]_(StreamProofs!vars)
           /\ [PagingProofs!Next]_(PagingProofs!vars)
           /\ [MonitorProofs!Next]_(MonitorProofs!vars)
           /\ [RetryProofs!Next]_(RetryProofs!vars)
           /\ [Pdf!Next]_(Pdf!vars)
  <1>0. /\ Boot!Next \/ UNCHANGED bootVars
        /\ Stream!Next \/ UNCHANGED streamVars
        /\ Paging!Next \/ UNCHANGED pagingVars
        /\ \/ \E s \in Sessions : Monitor!Statement(s)
           \/ Monitor!GetDebugInfo
           \/ UNCHANGED monitorVars
        /\ Retry!Next \/ UNCHANGED retryVars
        /\ Pdf!Next \/ UNCHANGED pdfVars
    BY OneComponent DEF components, OnlyStream, OnlyRetry, OnlyBoot, OnlyPaging,
                        OnlyMonitor, OnlyPdf
  <1>1. UNCHANGED bootVars => UNCHANGED Boot!vars
    BY DEF bootVars, Boot!vars, Boot!made
  <1>2. UNCHANGED streamVars => UNCHANGED StreamProofs!vars
    BY DEF streamVars, StreamProofs!vars, StreamProofs!stream,
           StreamProofs!client
  <1>3. UNCHANGED pagingVars => UNCHANGED PagingProofs!vars
    BY DEF pagingVars, PagingProofs!vars, PagingProofs!client
  <1>4. UNCHANGED monitorVars => UNCHANGED MonitorProofs!vars
    BY DEF monitorVars, MonitorProofs!vars, MonitorProofs!statements,
           MonitorProofs!stats
  <1>5. UNCHANGED retryVars => UNCHANGED RetryProofs!vars
    BY DEF retryVars, RetryProofs!vars
  <1>6. UNCHANGED pdfVars => UNCHANGED Pdf!vars
    BY DEF pdfVars, Pdf!vars
  <1> QED
    BY <1>0, <1>1, <1>2, <1>3, <1>4, <1>5, <1>6, SameStream, SamePaging,
       SameMonitor, SameRetry

-----------------------------------------------------------------------------
(* The components with proofs of their own.                                  *)

\* Their invariants hold at first and are kept.
LEMMA StreamKept ==
    /\ Init => StreamProofs!IInv
    /\ StreamProofs!IInv /\ [Next]_vars => StreamProofs!IInv'
  <1>1. Init => StreamProofs!IInv
    BY HttpAssumption, SameStream, StreamProofs!InitIInv DEF Init
  <1>2. StreamProofs!IInv /\ [Next]_vars => StreamProofs!IInv'
    BY HttpAssumption, SameStream, ComponentSteps, StreamProofs!IInvStep
  <1> QED
    BY <1>1, <1>2

\* The invariant of PublishRetry is one of the process.
LEMMA RetryKept ==
    /\ Init => RetryProofs!IInv
    /\ RetryProofs!IInv /\ [Next]_vars => RetryProofs!IInv'
  <1>1. Init => RetryProofs!IInv
    BY HttpAssumption, SameRetry, RetryProofs!InitIInv DEF Init
  <1>2. RetryProofs!IInv /\ [Next]_vars => RetryProofs!IInv'
    BY HttpAssumption, SameRetry, ComponentSteps, RetryProofs!IInvStep
  <1> QED
    BY <1>1, <1>2

\* So is the invariant of AuditPaging.
LEMMA PagingKept ==
    /\ Init => PagingProofs!IInv
    /\ PagingProofs!IInv /\ [Next]_vars => PagingProofs!IInv'
  <1>1. Init => PagingProofs!IInv
    BY HttpAssumption, SamePaging, PagingProofs!InitIInv DEF Init
  <1>2. PagingProofs!IInv /\ [Next]_vars => PagingProofs!IInv'
    BY HttpAssumption, SamePaging, ComponentSteps, PagingProofs!IInvStep
  <1> QED
    BY <1>1, <1>2

\* So is the invariant of DbMonitor.
LEMMA MonitorKept ==
    /\ Init => MonitorProofs!IInv
    /\ MonitorProofs!IInv /\ [Next]_vars => MonitorProofs!IInv'
  <1>1. Init => MonitorProofs!IInv
    BY HttpAssumption, SameMonitor, MonitorProofs!InitIInv DEF Init
  <1>2. MonitorProofs!IInv /\ [Next]_vars => MonitorProofs!IInv'
    BY HttpAssumption, SameMonitor, ComponentSteps, MonitorProofs!IInvStep
  <1> QED
    BY <1>1, <1>2

\* Whatever order the watcher, the handler and the context take their steps in,
\* the client of /debug/mongo/stream gets what was inserted since the stream was
\* opened in its order, once, and with no gap (HandleAuditLogStream in
\* handler.go, WatchInsertStream in repository/audit_log.go).
THEOREM StreamKeepsOrder == Spec => []StreamFaithful
  <1>1. StreamProofs!IInv => StreamFaithful
    BY SameStream DEF StreamProofs!IInv, StreamFaithful
  <1> QED
    BY <1>1, StreamKept, PTL DEF Spec

\* A reader of the audit log misses nothing that was in it all along
\* (ListAuditLogs in repository/audit_log.go), whatever is inserted or deleted
\* between its requests.
THEOREM NothingSkipped == Spec => []WalkComplete
  <1>1. PagingProofs!IInv => WalkComplete
    BY SamePaging DEF PagingProofs!IInv, WalkComplete
  <1> QED
    BY <1>1, PagingKept, PTL DEF Spec

\* It sees nothing twice: pages descend by id, and all but the last are full.
THEOREM NothingRepeated == Spec => []WalkDescends
  <1>1. PagingProofs!IInv => WalkDescends
    BY SamePaging DEF PagingProofs!IInv, WalkDescends
  <1> QED
    BY <1>1, PagingKept, PTL DEF Spec

\* The daily report counts per event and day what the list shows
\* (GetDailyReport in repository/audit_log.go).
THEOREM ReportCountsTheList == Spec => []ReportMatchesList
  <1>1. PagingProofs!IInv => ReportMatchesList
    BY HttpAssumption, SamePaging, PagingProofs!ReportAgrees
    DEF ReportMatchesList
  <1> QED
    BY <1>1, PagingKept, PTL DEF Spec

\* What /debug/queries shows never contradicts itself (dbmonitor/monitor.go).
THEOREM MonitorCoherent == Spec => []StatsCoherent
  <1>1. MonitorProofs!IInv => StatsCoherent
    BY SameMonitor DEF MonitorProofs!IInv, MonitorProofs!Coherent, StatsCoherent
  <1> QED
    BY <1>1, MonitorKept, PTL DEF Spec

\* It is the digest of one prefix of the statements recorded, newest first
\* (after and GetDebugInfo in dbmonitor/monitor.go).
THEOREM MonitorDigests == Spec => []ResponseIsDigest
  <1>1. MonitorProofs!IInv => ResponseIsDigest
    BY SameMonitor DEF MonitorProofs!IInv, ResponseIsDigest
  <1> QED
    BY <1>1, MonitorKept, PTL DEF Spec

\* Up to its mark a webhook takes at most its time-out and the sleeps of its
\* back-off, whatever the calls before the mark take (retryPublishPayment in
\* service.go, RequestLogger in middleware).  The mark, which is handed no
\* context, is left out: it has no bound in the code.
THEOREM WebhookInTime == Spec => []WebhookBounded
  <1>1. RetryProofs!IInv => WebhookBounded
    BY SameRetry, HttpAssumption,
       RetryProofs!IInvBounds DEF WebhookBounded
  <1> QED
    BY <1>1, RetryKept, PTL DEF Spec

\* Between two attempts to publish lies at least the back-off, which doubles.
THEOREM BackoffDoubles == Spec => []BackoffKept
  <1>1. RetryProofs!IInv => BackoffKept
    BY SameRetry DEF RetryProofs!IInv, BackoffKept
  <1> QED
    BY <1>1, RetryKept, PTL DEF Spec

-----------------------------------------------------------------------------
(* A request on its way through the middleware and back.                     *)

\* Where the time-out is in the chain, and how long the chain is.
RL == IF config.tracing THEN 5 ELSE 4
Depth(r) == IF r \in Private THEN RL + 1 ELSE RL

\* On the way in nothing has gone wrong yet, and each middleware has done its
\* part at its depth.
In ==
    c.stage = "in" =>
        /\ ~ c.written /\ ~ c.panicking /\ ~ c.panicked /\ ~ c.handled
        /\ c.logged = 0 /\ c.counted = 0
        /\ c.route = "stream" => c.status = 200
        /\ c.span # "ended"
        /\ c.span = "open" => config.tracing /\ c.depth >= 4
        /\ c.ctx = IF c.depth >= RL THEN "live" ELSE "own"
        /\ c.route \in Private /\ c.depth = Depth(c.route) => c.user

\* In the handler all of them have.
Within ==
    c.stage = "handler" =>
        /\ c.depth = Depth(c.route) /\ c.handled
        /\ ~ c.panicking /\ ~ c.panicked
        /\ c.logged = 0 /\ c.counted = 0
        /\ c.written => c.route = "stream"
        /\ c.route = "stream" => c.status = 200
        /\ c.span # "ended" /\ (c.span = "open" => config.tracing)
        /\ c.ctx = "live"
        /\ c.route \in Private => c.user

\* On the way out the status is settled but for what recovery does at depth 2,
\* and what is below the depth reached has been undone or recorded.
Out ==
    c.stage \in {"out", "done"} =>
        /\ c.handled /\ c.route \in Private => c.user
        /\ ~ c.handled => /\ c.route \in Private
                          /\ IF c.panicked THEN ~ c.written ELSE c.status = 401
        /\ c.ctx = IF c.depth >= RL THEN "live" ELSE "cancelled"
        /\ c.span = "open" => config.tracing /\ c.depth >= 4
        /\ c.panicking <=> c.panicked /\ c.depth >= 2
        /\ c.logged = IF c.depth >= RL \/ c.panicked THEN 0 ELSE c.status
        /\ c.counted = IF c.depth >= 3 \/ c.panicked THEN 0 ELSE c.status
        /\ c.panicked /\ c.written => c.status = 200
        /\ c.panicked /\ ~ c.written /\ c.depth < 2 => c.status = 500
        /\ c.stage = "done" => c.depth = 0

\* The handler of a stream, which is a component of its own, and its request.
StreamAlong ==
    /\ out # <<>> => activity = "stream" /\ c.written /\ c.handled
    /\ handler \in {"returned", "panicked"} =>
          activity = "stream" /\ c.stage \in {"out", "done"}
    /\ activity = "stream" /\ c.stage \in {"out", "done"} =>
          handler \in {"returned", "panicked"}

GinInv ==
    /\ c \in Request
    /\ c.stage = "idle" => ~ c.handled
    /\ c.stage # "idle" => /\ c.route \in Kinds /\ c.depth <= Depth(c.route)
                           /\ c.user => c.token = "valid"
    /\ c.handled => c.stage \in {"handler", "out", "done"}
    /\ In /\ Within /\ Out /\ StreamAlong

\* Which middleware is where in it.
Place(m, r) ==
    CASE m = "logger"         -> 1
      [] m = "recovery"       -> 2
      [] m = "red"            -> 3
      [] m = "tracing"        -> IF config.tracing THEN 4 ELSE 0
      [] m = "request_logger" -> RL
      [] m = "auth"           -> IF r \in Private THEN RL + 1 ELSE 0

Middleware == {"logger", "recovery", "red", "tracing", "request_logger", "auth"}

\* A chain is as long as that, and has each middleware at its place.
LEMMA ChainShape ==
    ASSUME NEW r
    PROVE  /\ Len(Chain(r)) = Depth(r) /\ Depth(r) \in 4 .. 6 /\ RL \in 4 .. 5
           /\ \A m \in Middleware : \A i \in 1 .. Depth(r) :
                 Chain(r)[i] = m => i = Place(m, r)
  <1> DEFINE s == Chain(r)
  <1>1. CASE config.tracing /\ r \in Private
    <2>1. /\ Len(s) = 6 /\ s[1] = "logger" /\ s[2] = "recovery" /\ s[3] = "red"
          /\ s[4] = "tracing" /\ s[5] = "request_logger" /\ s[6] = "auth"
      BY <1>1 DEF Chain
    <2> HIDE DEF s
    <2> QED
      BY <1>1, <2>1 DEF Depth, RL, Place, Middleware, s
  <1>2. CASE config.tracing /\ r \notin Private
    <2>1. /\ Len(s) = 5 /\ s[1] = "logger" /\ s[2] = "recovery" /\ s[3] = "red"
          /\ s[4] = "tracing" /\ s[5] = "request_logger"
      BY <1>2 DEF Chain
    <2> HIDE DEF s
    <2> QED
      BY <1>2, <2>1 DEF Depth, RL, Place, Middleware, s
  <1>3. CASE ~ config.tracing /\ r \in Private
    <2>1. /\ Len(s) = 5 /\ s[1] = "logger" /\ s[2] = "recovery" /\ s[3] = "red"
          /\ s[4] = "request_logger" /\ s[5] = "auth"
      BY <1>3 DEF Chain
    <2> HIDE DEF s
    <2> QED
      BY <1>3, <2>1 DEF Depth, RL, Place, Middleware, s
  <1>4. CASE ~ config.tracing /\ r \notin Private
    <2>1. /\ Len(s) = 4 /\ s[1] = "logger" /\ s[2] = "recovery" /\ s[3] = "red"
          /\ s[4] = "request_logger"
      BY <1>4 DEF Chain
    <2> HIDE DEF s
    <2> QED
      BY <1>4, <2>1 DEF Depth, RL, Place, Middleware, s
  <1> QED
    BY <1>1, <1>2, <1>3, <1>4

\* Which activity has which requests.
LEMMA KindOf ==
    /\ Kinds \subseteq Routes
    /\ "stream" \in Kinds => activity = "stream"
    /\ activity = "stream" => Kinds = {"stream"}
    /\ activity = "boot" => Kinds = {}
    /\ "webhook" \in Kinds => activity = "webhook"
    /\ "queries" \in Kinds => activity = "queries"
  <1>1. CASE activity = "queries"
    BY <1>1, Zenon DEF Kinds, Routes, Public
  <1>2. CASE activity = "stream"
    BY <1>2, Zenon DEF Kinds, Routes, Public
  <1>3. CASE activity = "webhook"
    BY <1>3, Zenon DEF Kinds, Routes, Public
  <1>4. CASE activity = "rest"
    BY <1>4, Zenon DEF Kinds, Routes, Public, Private
  <1>5. CASE activity \notin {"queries", "stream", "webhook", "rest"}
    BY <1>5, Zenon DEF Kinds, Routes, Public
  <1> QED
    BY <1>1, <1>2, <1>3, <1>4, <1>5

\* A request as it comes in.
LEMMA ArrivedIs ==
    ASSUME NEW r \in Routes, NEW t \in Tokens
    PROVE  LET a == Arrived(r, t)
           IN  /\ a \in Request /\ a.stage = "in" /\ a.route = r
               /\ a.depth = 0 /\ ~ a.written /\ ~ a.panicking /\ ~ a.panicked
               /\ ~ a.handled /\ ~ a.user /\ a.logged = 0 /\ a.counted = 0
               /\ a.span = "none" /\ a.ctx = "own"
               /\ r = "stream" => a.status = 200
  BY DEF Arrived, Request

\* At first there is none.
LEMMA InitGin == Init => GinInv
  <1> SUFFICES ASSUME Init PROVE GinInv
    OBVIOUS
  <1>1. c = NoRequest /\ out = <<>> /\ handler = "busy"
    BY DEF Init, Stream!Init
  <1>2. c \in Request /\ c.stage = "idle" /\ ~ c.handled
    <2> DEFINE a == Arrived("ping", "refused")
    <2>1. a \in Request /\ ~ a.handled
      BY ArrivedIs DEF Routes, Public, Tokens
    <2>2. c = [a EXCEPT !.stage = "idle"]
      BY <1>1 DEF NoRequest
    <2> HIDE DEF a
    <2> QED
      BY <2>1, <2>2 DEF Request
  <1> QED
    BY <1>1, <1>2 DEF GinInv, In, Within, Out, StreamAlong

\* The next one comes in where the last one has ended.
LEMMA ArriveGin ==
    ASSUME GinInv, Arrive
    PROVE  GinInv'
  <1>1. PICK r \in Kinds, t \in Tokens : c' = Arrived(r, t)
    BY DEF Arrive, Tokens
  <1>2. UNCHANGED <<activity, config, out, handler>>
    BY DEF Arrive, components, bootVars, streamVars
  <1>3. r \in Routes
    BY KindOf
  <1>4. Kinds' = Kinds
    BY <1>2 DEF Kinds
  <1>5. /\ c' \in Request /\ c'.stage = "in" /\ c'.route = r
        /\ c'.depth = 0 /\ ~ c'.written /\ ~ c'.panicking /\ ~ c'.panicked
        /\ ~ c'.handled /\ ~ c'.user /\ c'.logged = 0 /\ c'.counted = 0
        /\ c'.span = "none" /\ c'.ctx = "own"
        /\ c'.route = "stream" => c'.status = 200
    BY <1>1, <1>3, ArrivedIs
  <1>6. RL' \in 4 .. 5 /\ Depth(c.route)' \in 4 .. 6
    BY DEF RL, Depth
  <1>7. c.stage = "idle" \/ activity = "queries"
    BY DEF Arrive
  <1>8. StreamAlong'
    BY <1>2, <1>5, <1>7 DEF GinInv, StreamAlong
  <1> QED
    BY <1>1, <1>4, <1>5, <1>6, <1>8 DEF GinInv, In, Within, Out

Codes == {200, 400, 401, 404, 500}
Stages == {"idle", "in", "handler", "out", "done"}
\* A request with another value in one field is a request.
LEMMA Updates ==
    ASSUME NEW d \in Request
    PROVE  /\ \A x \in Stages : [d EXCEPT !.stage = x] \in Request
           /\ \A x \in 0 .. 6 : [d EXCEPT !.depth = x] \in Request
           /\ \A x \in Codes : [d EXCEPT !.status = x] \in Request
           /\ \A x \in BOOLEAN : [d EXCEPT !.written = x] \in Request
           /\ \A x \in BOOLEAN : [d EXCEPT !.panicking = x] \in Request
           /\ \A x \in BOOLEAN : [d EXCEPT !.panicked = x] \in Request
           /\ \A x \in BOOLEAN : [d EXCEPT !.user = x] \in Request
           /\ \A x \in BOOLEAN : [d EXCEPT !.handled = x] \in Request
           /\ \A x \in {"none", "open", "ended"} :
                 [d EXCEPT !.span = x] \in Request
           /\ \A x \in {"own", "live", "cancelled"} :
                 [d EXCEPT !.ctx = x] \in Request
           /\ \A x \in Codes \union {0} : [d EXCEPT !.logged = x] \in Request
           /\ \A x \in Codes \union {0} : [d EXCEPT !.counted = x] \in Request
  <1>1. ASSUME NEW x \in Stages PROVE [d EXCEPT !.stage = x] \in Request
    BY DEF Request, Stages
  <1>2. ASSUME NEW x \in 0 .. 6 PROVE [d EXCEPT !.depth = x] \in Request
    BY DEF Request
  <1>3. ASSUME NEW x \in Codes PROVE [d EXCEPT !.status = x] \in Request
    BY DEF Request, Codes
  <1>4. ASSUME NEW x \in BOOLEAN PROVE [d EXCEPT !.written = x] \in Request
    BY DEF Request
  <1>5. ASSUME NEW x \in BOOLEAN PROVE [d EXCEPT !.panicking = x] \in Request
    BY DEF Request
  <1>6. ASSUME NEW x \in BOOLEAN PROVE [d EXCEPT !.panicked = x] \in Request
    BY DEF Request
  <1>7. ASSUME NEW x \in BOOLEAN PROVE [d EXCEPT !.user = x] \in Request
    BY DEF Request
  <1>8. ASSUME NEW x \in BOOLEAN PROVE [d EXCEPT !.handled = x] \in Request
    BY DEF Request
  <1>9. ASSUME NEW x \in {"none", "open", "ended"}
        PROVE  [d EXCEPT !.span = x] \in Request
    BY DEF Request
  <1>10. ASSUME NEW x \in {"own", "live", "cancelled"}
         PROVE  [d EXCEPT !.ctx = x] \in Request
    BY DEF Request
  <1>11. ASSUME NEW x \in Codes \union {0}
         PROVE  [d EXCEPT !.logged = x] \in Request
    BY DEF Request, Codes
  <1>12. ASSUME NEW x \in Codes \union {0}
         PROVE  [d EXCEPT !.counted = x] \in Request
    BY DEF Request, Codes
  <1> QED
    BY <1>1, <1>2, <1>3, <1>4, <1>5, <1>6, <1>7, <1>8, <1>9, <1>10, <1>11, <1>12

\* What a step of a request leaves as it is.
LEMMA Unmoved ==
    ASSUME c \in Request, c.route \in Kinds,
           UNCHANGED <<activity, config, c.route>>
    PROVE  /\ RL \in 4 .. 5 /\ Depth(c.route) \in RL .. RL + 1
           /\ c.depth \in 0 .. 6
           /\ RL' = RL /\ Depth(c.route)' = Depth(c.route) /\ Kinds' = Kinds
           /\ RL = IF config.tracing THEN 5 ELSE 4
           /\ c.route \in Private => Depth(c.route) = RL + 1
           /\ "stream" \notin Private
           /\ activity = "stream" => c.route = "stream"
           /\ c.route = "stream" => activity = "stream"
  <1>1. RL \in 4 .. 5 /\ RL' = RL /\ RL = IF config.tracing THEN 5 ELSE 4
    BY DEF RL
  <1>2. c.depth \in 0 .. 6
    BY DEF Request
  <1>3. Kinds' = Kinds
    BY DEF Kinds
  <1>4. "stream" \notin Private
    BY DEF Private
  <1>5. /\ Depth(c.route) = IF c.route \in Private THEN RL + 1 ELSE RL
        /\ Depth(c.route)' = IF c'.route \in Private THEN RL' + 1 ELSE RL'
    BY DEF Depth
  <1>6. Depth(c.route)' = Depth(c.route)
    BY <1>1, <1>5
  <1>7. /\ activity = "stream" => c.route = "stream"
        /\ c.route = "stream" => activity = "stream"
    BY KindOf
  <1>8. /\ Depth(c.route) \in RL .. RL + 1
        /\ c.route \in Private => Depth(c.route) = RL + 1
    BY <1>1, <1>5
  <1> QED
    BY <1>1, <1>2, <1>3, <1>4, <1>6, <1>7, <1>8

\* One lemma for every step of gin: where it is in the chain, what it changes
\* of the request, and that this keeps the invariant.
LEMMA EnterPlainGin ==
    ASSUME GinInv, EnterPlain
    PROVE  GinInv'
  <1>1. /\ c \in Request /\ c.stage = "in" /\ c.route \in Kinds
        /\ c.depth < Depth(c.route) /\ c.depth + 1 \in 1 .. 3
        /\ UNCHANGED <<activity, config, out, handler>>
    BY ChainShape DEF EnterPlain, Enters, GinInv, Place, Middleware, Request,
                      components, bootVars, streamVars
  <1>2. /\ c' \in Request
        /\ c'.depth = c.depth + 1
        /\ UNCHANGED <<c.route, c.token, c.stage, c.status, c.written,
                      c.panicking, c.panicked, c.user, c.handled,
                      c.span, c.ctx, c.logged, c.counted>>
    <2>1. c' = [c EXCEPT !.depth = c.depth + 1]
      BY DEF EnterPlain
    <2>2. c \in Request
      BY <1>1
    <2>3. (c.depth + 1) \in 0 .. 6
      BY <1>1, ChainShape DEF Request, Codes
    <2>4. c' \in Request
      BY <2>1, <2>2, <2>3, Updates DEF Stages
    <2> QED
      BY <2>1, <2>2, <2>4 DEF Request
  <1> QED
    BY <1>1, <1>2, Unmoved DEF GinInv, In, Within, Out, StreamAlong

\* Tracing comes at depth 4, and opens a span if there is a tracer.
LEMMA EnterTracingGin ==
    ASSUME GinInv, EnterTracing
    PROVE  GinInv'
  <1>1. /\ c \in Request /\ c.stage = "in" /\ c.route \in Kinds
        /\ c.depth = 3 /\ config.tracing
        /\ UNCHANGED <<activity, config, out, handler>>
    BY ChainShape DEF EnterTracing, Enters, GinInv, Place, Middleware, Request,
                      components, bootVars, streamVars
  <1>2. /\ c' \in Request
        /\ c'.depth = c.depth + 1
        /\ c'.span = IF resources["tracer"] = "nil" THEN "none" ELSE "open"
        /\ UNCHANGED <<c.route, c.token, c.stage, c.status, c.written,
                      c.panicking, c.panicked, c.user, c.handled,
                      c.ctx, c.logged, c.counted>>
    <2>1. c' = [c EXCEPT !.depth = c.depth + 1,
                      !.span = IF resources["tracer"] = "nil" THEN "none"
                                                              ELSE "open"]
      BY DEF EnterTracing
    <2>2. c \in Request
      BY <1>1
    <2>3. /\ (c.depth + 1) \in 0 .. 6
          /\ (IF resources["tracer"] = "nil" THEN "none" ELSE "open")
                \in {"none", "open", "ended"}
      BY <1>1, ChainShape DEF Request, Codes
    <2>4. c' \in Request
      BY <2>1, <2>2, <2>3, Updates DEF Stages
    <2> QED
      BY <2>1, <2>2, <2>4 DEF Request
  <1> QED
    BY <1>1, <1>2, Unmoved DEF GinInv, In, Within, Out, StreamAlong

\* RequestLogger puts a live context of its own in place of the request's.
LEMMA EnterRequestLoggerGin ==
    ASSUME GinInv, EnterRequestLogger
    PROVE  GinInv'
  <1>1. /\ c \in Request /\ c.stage = "in" /\ c.route \in Kinds
        /\ c.depth = RL - 1
        /\ UNCHANGED <<activity, config, out, handler>>
    BY ChainShape
    DEF EnterRequestLogger, Enters, GinInv, Place, Middleware, Request,
        components, bootVars, streamVars
  <1>2. /\ c' \in Request
        /\ c'.depth = c.depth + 1
        /\ c'.ctx = "live"
        /\ UNCHANGED <<c.route, c.token, c.stage, c.status, c.written,
                      c.panicking, c.panicked, c.user, c.handled,
                      c.span, c.logged, c.counted>>
    <2>1. c' = [c EXCEPT !.depth = c.depth + 1,
                      !.ctx = "live"]
      BY DEF EnterRequestLogger
    <2>2. c \in Request
      BY <1>1
    <2>3. (c.depth + 1) \in 0 .. 6
      BY <1>1, ChainShape DEF Request, Codes
    <2>4. c' \in Request
      BY <2>1, <2>2, <2>3, Updates DEF Stages
    <2> QED
      BY <2>1, <2>2, <2>4 DEF Request
  <1> QED
    BY <1>1, <1>2, Unmoved DEF GinInv, In, Within, Out, StreamAlong

\* A request without a valid token turns back with 401.
LEMMA RefuseGin ==
    ASSUME GinInv, Refuse
    PROVE  GinInv'
  <1>1. /\ c \in Request /\ c.stage = "in" /\ c.route \in Kinds
        /\ c.depth = RL /\ c.route \in Private
        /\ UNCHANGED <<activity, config, out, handler>>
    BY ChainShape DEF Refuse, Enters, GinInv, Place, Middleware, Request,
                      components, bootVars, streamVars
  <1>2. /\ c' \in Request
        /\ c'.depth = c.depth + 1
        /\ c'.status = 401
        /\ c'.written = TRUE
        /\ c'.stage = "out"
        /\ UNCHANGED <<c.route, c.token, c.panicking, c.panicked,
                      c.user, c.handled, c.span, c.ctx, c.logged,
                      c.counted>>
    <2>1. c' = [c EXCEPT !.depth = c.depth + 1,
                      !.status = 401,
                      !.written = TRUE,
                      !.stage = "out"]
      BY DEF Refuse, AfterAbort
    <2>2. c \in Request
      BY <1>1
    <2>3. /\ (c.depth + 1) \in 0 .. 6
          /\ 401 \in Codes
      BY <1>1, ChainShape DEF Request, Codes
    <2> DEFINE d  == [c EXCEPT !.depth = c.depth + 1]
               st == 401
    <2>5. d \in Request
      BY <2>2, <2>3, Updates
    <2>6. c' = [d EXCEPT !.status = st, !.written = TRUE, !.stage = "out"]
      BY <2>1
    <2>7. st \in Codes
      BY DEF Codes
    <2> HIDE DEF d, st
    <2>4. c' \in Request
      BY <2>5, <2>6, <2>7, Updates DEF Stages
    <2> QED
      BY <2>1, <2>2, <2>4 DEF Request
  <1> QED
    BY <1>1, <1>2, Unmoved DEF GinInv, In, Within, Out, StreamAlong

\* A valid token with no user in it makes the type assertion panic.
LEMMA NoUserIdGin ==
    ASSUME GinInv, NoUserId
    PROVE  GinInv'
  <1>1. /\ c \in Request /\ c.stage = "in" /\ c.route \in Kinds
        /\ c.depth = RL /\ c.route \in Private
        /\ UNCHANGED <<activity, config, out, handler>>
    BY ChainShape DEF NoUserId, Enters, GinInv, Place, Middleware, Request,
                      components, bootVars, streamVars
  <1>2. /\ c' \in Request
        /\ c'.panicking = TRUE
        /\ c'.panicked = TRUE
        /\ c'.stage = "out"
        /\ UNCHANGED <<c.route, c.token, c.depth, c.status, c.written,
                      c.user, c.handled, c.span, c.ctx, c.logged,
                      c.counted>>
    <2>1. c' = [c EXCEPT !.panicking = TRUE,
                      !.panicked = TRUE,
                      !.stage = "out"]
      BY DEF NoUserId
    <2>2. c \in Request
      BY <1>1
    <2>4. c' \in Request
      BY <2>1, <2>2, Updates DEF Stages
    <2> QED
      BY <2>1, <2>2, <2>4 DEF Request
  <1> QED
    BY <1>1, <1>2, Unmoved DEF GinInv, In, Within, Out, StreamAlong

\* Past auth, the request has a user.
LEMMA EnterAuthGin ==
    ASSUME GinInv, EnterAuth
    PROVE  GinInv'
  <1>1. /\ c \in Request /\ c.stage = "in" /\ c.route \in Kinds
        /\ c.depth = RL /\ c.route \in Private /\ c.token = "valid"
        /\ UNCHANGED <<activity, config, out, handler>>
    BY ChainShape DEF EnterAuth, Enters, GinInv, Place, Middleware, Request,
                      components, bootVars, streamVars
  <1>2. /\ c' \in Request
        /\ c'.depth = c.depth + 1
        /\ c'.user = TRUE
        /\ UNCHANGED <<c.route, c.token, c.stage, c.status, c.written,
                      c.panicking, c.panicked, c.handled, c.span,
                      c.ctx, c.logged, c.counted>>
    <2>1. c' = [c EXCEPT !.depth = c.depth + 1,
                      !.user = TRUE]
      BY DEF EnterAuth
    <2>2. c \in Request
      BY <1>1
    <2>3. (c.depth + 1) \in 0 .. 6
      BY <1>1, ChainShape DEF Request, Codes
    <2>4. c' \in Request
      BY <2>1, <2>2, <2>3, Updates DEF Stages
    <2> QED
      BY <2>1, <2>2, <2>4 DEF Request
  <1> QED
    BY <1>1, <1>2, Unmoved DEF GinInv, In, Within, Out, StreamAlong

\* At the end of the chain the request has all that Within asks for.
LEMMA CallHandlerGin ==
    ASSUME GinInv, CallHandler
    PROVE  GinInv'
  <1>1. /\ c \in Request /\ c.stage = "in" /\ c.route \in Kinds
        /\ c.depth = Depth(c.route)
        /\ UNCHANGED <<activity, config, out, handler>>
    BY ChainShape DEF CallHandler, Enters, GinInv, Place, Middleware, Request,
                      components, bootVars, streamVars
  <1>2. /\ c' \in Request
        /\ c'.stage = "handler"
        /\ c'.handled = TRUE
        /\ UNCHANGED <<c.route, c.token, c.depth, c.status, c.written,
                      c.panicking, c.panicked, c.user, c.span, c.ctx,
                      c.logged, c.counted>>
    <2>1. c' = [c EXCEPT !.stage = "handler",
                      !.handled = TRUE]
      BY DEF CallHandler
    <2>2. c \in Request
      BY <1>1
    <2>4. c' \in Request
      BY <2>1, <2>2, Updates DEF Stages
    <2> QED
      BY <2>1, <2>2, <2>4 DEF Request
  <1> QED
    BY <1>1, <1>2, Unmoved DEF GinInv, In, Within, Out, StreamAlong

\* Auth does nothing on the way out.
LEMMA LeaveAuthGin ==
    ASSUME GinInv, LeaveAuth
    PROVE  GinInv'
  <1>1. /\ c \in Request /\ c.stage = "out" /\ c.route \in Kinds
        /\ c.depth = RL + 1 /\ c.route \in Private
        /\ UNCHANGED <<activity, config, out, handler>>
    BY ChainShape DEF LeaveAuth, Leaves, GinInv, Place, Middleware, Request,
                      components, bootVars, streamVars
  <1>2. /\ c' \in Request
        /\ c'.depth = c.depth - 1
        /\ UNCHANGED <<c.route, c.token, c.stage, c.status, c.written,
                      c.panicking, c.panicked, c.user, c.handled,
                      c.span, c.ctx, c.logged, c.counted>>
    <2>1. c' = [c EXCEPT !.depth = c.depth - 1]
      BY DEF LeaveAuth
    <2>2. c \in Request
      BY <1>1
    <2>3. (c.depth - 1) \in 0 .. 6
      BY <1>1, ChainShape DEF Request, Codes
    <2>4. c' \in Request
      BY <2>1, <2>2, <2>3, Updates DEF Stages
    <2> QED
      BY <2>1, <2>2, <2>4 DEF Request
  <1> QED
    BY <1>1, <1>2, Unmoved DEF GinInv, In, Within, Out, StreamAlong

\* RequestLogger logs unless there is a panic, and cancels in any case.
LEMMA LeaveRequestLoggerGin ==
    ASSUME GinInv, LeaveRequestLogger
    PROVE  GinInv'
  <1>1. /\ c \in Request /\ c.stage = "out" /\ c.route \in Kinds
        /\ c.depth = RL
        /\ UNCHANGED <<activity, config, out, handler>>
    BY ChainShape
    DEF LeaveRequestLogger, Leaves, GinInv, Place, Middleware, Request,
        components, bootVars, streamVars
  <1>2. /\ c' \in Request
        /\ c'.depth = c.depth - 1
        /\ c'.ctx = "cancelled"
        /\ c'.logged = IF c.panicking THEN c.logged ELSE c.status
        /\ UNCHANGED <<c.route, c.token, c.stage, c.status, c.written,
                      c.panicking, c.panicked, c.user, c.handled,
                      c.span, c.counted>>
    <2>1. c' = [c EXCEPT !.depth = c.depth - 1,
                      !.ctx = "cancelled",
                      !.logged = IF c.panicking THEN c.logged ELSE c.status]
      BY DEF LeaveRequestLogger, Deferred
    <2>2. c \in Request
      BY <1>1
    <2>3. /\ (c.depth - 1) \in 0 .. 6
          /\ (IF c.panicking THEN c.logged ELSE c.status) \in Codes \union {0}
      BY <1>1, ChainShape DEF Request, Codes
    <2>4. c' \in Request
      BY <2>1, <2>2, <2>3, Updates DEF Stages
    <2> QED
      BY <2>1, <2>2, <2>4 DEF Request
  <1> QED
    BY <1>1, <1>2, Unmoved DEF GinInv, In, Within, Out, StreamAlong

\* Tracing ends the span in any case.
LEMMA LeaveTracingGin ==
    ASSUME GinInv, LeaveTracing
    PROVE  GinInv'
  <1>1. /\ c \in Request /\ c.stage = "out" /\ c.route \in Kinds
        /\ c.depth = 4 /\ config.tracing
        /\ UNCHANGED <<activity, config, out, handler>>
    BY ChainShape DEF LeaveTracing, Leaves, GinInv, Place, Middleware, Request,
                      components, bootVars, streamVars
  <1>2. /\ c' \in Request
        /\ c'.depth = c.depth - 1
        /\ c'.span = IF c.span = "open" THEN "ended" ELSE c.span
        /\ UNCHANGED <<c.route, c.token, c.stage, c.status, c.written,
                      c.panicking, c.panicked, c.user, c.handled,
                      c.ctx, c.logged, c.counted>>
    <2>1. c' = [c EXCEPT !.depth = c.depth - 1,
                      !.span = IF c.span = "open" THEN "ended" ELSE c.span]
      BY DEF LeaveTracing, Deferred
    <2>2. c \in Request
      BY <1>1
    <2>3. /\ (c.depth - 1) \in 0 .. 6
          /\ (IF c.span = "open" THEN "ended" ELSE c.span)
                \in {"none", "open", "ended"}
      BY <1>1, ChainShape DEF Request, Codes
    <2>4. c' \in Request
      BY <2>1, <2>2, <2>3, Updates DEF Stages
    <2> QED
      BY <2>1, <2>2, <2>4 DEF Request
  <1> QED
    BY <1>1, <1>2, Unmoved DEF GinInv, In, Within, Out, StreamAlong

\* The metrics count the request unless there is a panic.
LEMMA LeavePrometheusREDGin ==
    ASSUME GinInv, LeavePrometheusRED
    PROVE  GinInv'
  <1>1. /\ c \in Request /\ c.stage = "out" /\ c.route \in Kinds
        /\ c.depth = 3
        /\ UNCHANGED <<activity, config, out, handler>>
    BY ChainShape
    DEF LeavePrometheusRED, Leaves, GinInv, Place, Middleware, Request,
        components, bootVars, streamVars
  <1>2. /\ c' \in Request
        /\ c'.depth = c.depth - 1
        /\ c'.counted = IF c.panicking THEN c.counted ELSE c.status
        /\ UNCHANGED <<c.route, c.token, c.stage, c.status, c.written,
                      c.panicking, c.panicked, c.user, c.handled,
                      c.span, c.ctx, c.logged>>
    <2>1. c' = [c EXCEPT !.depth = c.depth - 1,
                      !.counted = IF c.panicking THEN c.counted ELSE c.status]
      BY DEF LeavePrometheusRED, Counts
    <2>2. c \in Request
      BY <1>1
    <2>3. /\ (c.depth - 1) \in 0 .. 6
          /\ (IF c.panicking THEN c.counted ELSE c.status) \in Codes \union {0}
      BY <1>1, ChainShape DEF Request, Codes
    <2>4. c' \in Request
      BY <2>1, <2>2, <2>3, Updates DEF Stages
    <2> QED
      BY <2>1, <2>2, <2>4 DEF Request
  <1> QED
    BY <1>1, <1>2, Unmoved DEF GinInv, In, Within, Out, StreamAlong

\* Recovery ends a panic, with a 500 unless the response has begun.
LEMMA LeaveRecoveryGin ==
    ASSUME GinInv, LeaveRecovery
    PROVE  GinInv'
  <1>1. /\ c \in Request /\ c.stage = "out" /\ c.route \in Kinds
        /\ c.depth = 2
        /\ UNCHANGED <<activity, config, out, handler>>
    BY ChainShape DEF LeaveRecovery, Leaves, GinInv, Place, Middleware, Request,
                      components, bootVars, streamVars
  <1>2. /\ c' \in Request
        /\ c'.depth = c.depth - 1
        /\ c'.panicking = FALSE
        /\ c'.status = IF c.panicking /\ ~ c.written THEN 500 ELSE c.status
        /\ UNCHANGED <<c.route, c.token, c.stage, c.written,
                      c.panicked, c.user, c.handled, c.span, c.ctx,
                      c.logged, c.counted>>
    <2>1. c' = [c EXCEPT !.depth = c.depth - 1,
                      !.panicking = FALSE,
                      !.status = IF c.panicking /\ ~ c.written THEN 500
                                                               ELSE c.status]
      BY DEF LeaveRecovery
    <2>2. c \in Request
      BY <1>1
    <2>3. /\ (c.depth - 1) \in 0 .. 6
          /\ (IF c.panicking /\ ~ c.written THEN 500 ELSE c.status) \in Codes
      BY <1>1, ChainShape DEF Request, Codes
    <2> DEFINE d  == [c EXCEPT !.depth = c.depth - 1]
               st == IF c.panicking /\ ~ c.written THEN 500 ELSE c.status
    <2>5. d \in Request
      BY <2>2, <2>3, Updates
    <2>6. c' = [d EXCEPT !.panicking = FALSE, !.status = st]
      BY <2>1
    <2>7. st \in Codes
      BY <2>3
    <2> HIDE DEF d, st
    <2>4. c' \in Request
      BY <2>5, <2>6, <2>7, Updates DEF Stages
    <2> QED
      BY <2>1, <2>2, <2>4 DEF Request
  <1> QED
    BY <1>1, <1>2, Unmoved DEF GinInv, In, Within, Out, StreamAlong

\* gin's logger is the last to be left.
LEMMA LeaveLoggerGin ==
    ASSUME GinInv, LeaveLogger
    PROVE  GinInv'
  <1>1. /\ c \in Request /\ c.stage = "out" /\ c.route \in Kinds
        /\ c.depth = 1
        /\ UNCHANGED <<activity, config, out, handler>>
    BY ChainShape DEF LeaveLogger, Leaves, GinInv, Place, Middleware, Request,
                      components, bootVars, streamVars
  <1>2. /\ c' \in Request
        /\ c'.depth = 0
        /\ c'.stage = "done"
        /\ UNCHANGED <<c.route, c.token, c.status, c.written,
                      c.panicking, c.panicked, c.user, c.handled,
                      c.span, c.ctx, c.logged, c.counted>>
    <2>1. c' = [c EXCEPT !.depth = 0,
                      !.stage = "done"]
      BY DEF LeaveLogger
    <2>2. c \in Request
      BY <1>1
    <2>3. 0 \in 0 .. 6
      BY <1>1, ChainShape DEF Request, Codes
    <2>4. c' \in Request
      BY <2>1, <2>2, <2>3, Updates DEF Stages
    <2> QED
      BY <2>1, <2>2, <2>4 DEF Request
  <1> QED
    BY <1>1, <1>2, Unmoved DEF GinInv, In, Within, Out, StreamAlong

\* What the two kinds of steps of a stream change of its request.
LEMMA WrittenIs ==
    ASSUME NEW d \in Request, NEW w \in BOOLEAN
    PROVE  LET e == [d EXCEPT !.written = w]
           IN  /\ e \in Request /\ e.written = w
               /\ e.route = d.route /\ e.token = d.token /\ e.stage = d.stage
               /\ e.depth = d.depth /\ e.status = d.status
               /\ e.panicking = d.panicking /\ e.panicked = d.panicked
               /\ e.user = d.user /\ e.handled = d.handled /\ e.span = d.span
               /\ e.ctx = d.ctx /\ e.logged = d.logged
               /\ e.counted = d.counted
  BY DEF Request

\* The second kind ends the handler.
LEMMA EndedIs ==
    ASSUME NEW d \in Request, NEW p \in BOOLEAN
    PROVE  LET e == [d EXCEPT !.stage = "out", !.panicking = p, !.panicked = p]
           IN  /\ e \in Request /\ e.stage = "out"
               /\ e.panicking = p /\ e.panicked = p
               /\ e.route = d.route /\ e.token = d.token
               /\ e.depth = d.depth /\ e.status = d.status
               /\ e.written = d.written
               /\ e.user = d.user /\ e.handled = d.handled /\ e.span = d.span
               /\ e.ctx = d.ctx /\ e.logged = d.logged
               /\ e.counted = d.counted
  <1>1. [d EXCEPT !.stage = "out", !.panicking = p, !.panicked = p] \in Request
    BY Updates DEF Stages
  <1> QED
    BY <1>1 DEF Request

\* An answer of a handler that does not stream.
LEMMA AnswersGin ==
    ASSUME GinInv, c.stage = "handler", c.route # "stream",
           NEW code \in Codes, Answers(code),
           UNCHANGED <<activity, config, out, handler>>
    PROVE  GinInv'
  <1>1. c \in Request /\ c.route \in Kinds
    BY DEF GinInv
  <1>2. /\ c' \in Request /\ c'.status = code /\ c'.written /\ c'.stage = "out"
        /\ UNCHANGED <<c.route, c.token, c.depth, c.panicking, c.panicked,
                       c.user, c.handled, c.span, c.ctx, c.logged, c.counted>>
    <2>1. c' = [c EXCEPT !.status = code, !.written = TRUE, !.stage = "out"]
      BY DEF Answers
    <2>2. c' \in Request
      BY <1>1, <2>1, Updates DEF Stages
    <2> QED
      BY <1>1, <2>1, <2>2 DEF Request
  <1> QED
    BY <1>1, <1>2, Unmoved DEF GinInv, In, Within, Out, StreamAlong

\* A panic of one that does not stream.
LEMMA PanicsGin ==
    ASSUME GinInv, c.stage = "handler", c.route # "stream", HandlerPanics,
           UNCHANGED <<activity, config, out, handler>>
    PROVE  GinInv'
  <1>1. c \in Request /\ c.route \in Kinds
    BY DEF GinInv
  <1>2. /\ c' \in Request /\ c'.panicking /\ c'.panicked /\ c'.stage = "out"
        /\ UNCHANGED <<c.route, c.token, c.depth, c.status, c.written,
                       c.user, c.handled, c.span, c.ctx, c.logged, c.counted>>
    <2>1. c' = [c EXCEPT !.panicking = TRUE, !.panicked = TRUE, !.stage = "out"]
      BY DEF HandlerPanics
    <2>2. c' \in Request
      BY <1>1, <2>1, Updates DEF Stages
    <2> QED
      BY <1>1, <2>1, <2>2 DEF Request
  <1> QED
    BY <1>1, <1>2, Unmoved DEF GinInv, In, Within, Out, StreamAlong

\* What the request does not notice.
LEMMA StillGin ==
    ASSUME GinInv, UNCHANGED <<activity, c, config, out, handler>>
    PROVE  GinInv'
  BY DEF GinInv, In, Within, Out, StreamAlong, Kinds, RL, Depth

\* All the handlers that do not stream.
LEMMA HandlersGin ==
    ASSUME GinInv,
           \/ HandlePing \/ HandleUnmatched \/ HandleCreateInvoice
           \/ HandleFailedPayments \/ HandleAuditQuery \/ HandleQueries
           \/ AnswerWebhook \/ AnnounceOutcome
    PROVE  GinInv'
  <1>1. /\ c.stage = "handler" /\ c.route # "stream"
        /\ (\E code \in Codes : Answers(code)) \/ HandlerPanics \/ UNCHANGED c
        /\ UNCHANGED <<activity, config, out, handler>>
    <2> USE DEF Handling, Codes, components, bootVars, streamVars
    <2>1. CASE HandlePing
      BY <2>1 DEF HandlePing
    <2>2. CASE HandleUnmatched
      BY <2>2 DEF HandleUnmatched
    <2>3. CASE HandleCreateInvoice
      BY <2>3 DEF HandleCreateInvoice
    <2>4. CASE HandleFailedPayments
      BY <2>4 DEF HandleFailedPayments
    <2>5. CASE HandleAuditQuery
      BY <2>5 DEF HandleAuditQuery
    <2>6. CASE HandleQueries
      BY <2>6 DEF HandleQueries, OnlyMonitor
    <2>7. CASE AnswerWebhook
      BY <2>7 DEF AnswerWebhook
    <2>8. CASE AnnounceOutcome
      BY <2>8 DEF AnnounceOutcome, OnlyRetry
    <2> QED
      BY <2>1, <2>2, <2>3, <2>4, <2>5, <2>6, <2>7, <2>8
  <1> QED
    BY <1>1, AnswersGin, PanicsGin, StillGin

\* The handler of a stream ends once, and writes nothing after or with its end.
LEMMA StreamOver ==
    ASSUME Stream!Next
    PROVE  /\ handler \in {"returned", "panicked"} => UNCHANGED <<handler, out>>
           /\ handler' \in {"returned", "panicked"} => UNCHANGED out
  BY DEF Stream!Next, Stream!SaveAuditLog, Stream!Timeout, Stream!OpenStream,
         Stream!OpenFails, Stream!ReadDocument, Stream!NextFails, Stream!Send,
         Stream!CancelSend, Stream!SelectDone, Stream!SelectErr,
         Stream!SelectNilErr, Stream!SelectEvent, Stream!WriteEvent,
         Stream!WriteError, Stream!WatcherReturns, Stream!HandlerReturns,
         Stream!HandlerSleeps, Stream!client

\* A stream: the response begins with its first flush.
LEMMA HandleAuditLogStreamGin ==
    ASSUME GinInv, HandleAuditLogStream
    PROVE  GinInv'
  <1>1. /\ c \in Request /\ c.route \in Kinds /\ c.handled
        /\ c.stage \in {"handler", "out", "done"}
        /\ activity = "stream" /\ Stream!Next
        /\ UNCHANGED <<activity, config>>
    BY DEF HandleAuditLogStream, StreamStep, OnlyStream, GinInv, bootVars
  <1>2. c.route = "stream"
    BY <1>1, KindOf
  <1>3. c.stage \in {"out", "done"} => UNCHANGED <<handler, out>>
    BY <1>1, StreamOver DEF GinInv, StreamAlong
  <1>4. CASE handler' = handler \/ handler' \notin {"returned", "panicked"}
    <2> DEFINE w == c.written \/ out' # <<>>
    <2>1. c' = [c EXCEPT !.written = w]
      BY <1>4 DEF HandleAuditLogStream, StreamStep
    <2>2. /\ c' \in Request /\ c'.written = w
          /\ UNCHANGED <<c.route, c.token, c.stage, c.depth, c.status,
                         c.panicking, c.panicked, c.user, c.handled, c.span,
                         c.ctx, c.logged, c.counted>>
      <3>1. w \in BOOLEAN
        BY Zenon
      <3> HIDE DEF w
      <3> QED
        BY <1>1, <2>1, <3>1, WrittenIs
    <2>3. c.stage \in {"out", "done"} => c'.written = c.written
      <3>1. out # <<>> => c.written
        BY DEF GinInv, StreamAlong
      <3>2. c'.written \in BOOLEAN /\ c.written \in BOOLEAN
        BY <1>1, <2>2 DEF Request
      <3> QED
        BY <1>3, <2>2, <3>1, <3>2
    <2>4. StreamAlong'
      BY <1>1, <1>3, <1>4, <2>2, <2>3 DEF GinInv, StreamAlong
    <2> QED
      BY <1>1, <1>2, <2>2, <2>3, <2>4, Unmoved DEF GinInv, In, Within, Out
  <1>5. CASE handler' # handler /\ handler' \in {"returned", "panicked"}
    <2> DEFINE p == handler' = "panicked"
    <2>1. c' = [c EXCEPT !.stage = "out", !.panicking = p, !.panicked = p]
      BY <1>5 DEF HandleAuditLogStream, StreamStep
    <2>2. /\ c' \in Request /\ c'.panicking = p /\ c'.panicked = p
          /\ c'.stage = "out"
          /\ UNCHANGED <<c.route, c.token, c.depth, c.status, c.written,
                         c.user, c.handled, c.span, c.ctx, c.logged,
                         c.counted>>
      <3>1. p \in BOOLEAN
        BY Zenon
      <3> HIDE DEF p
      <3>2. c \in Request
        BY <1>1
      <3> QED
        BY <2>1, <3>1, <3>2, EndedIs
    <2>3. c.stage = "handler"
      BY <1>1, <1>3, <1>5
    <2>4. out' = out
      BY <1>1, <1>5, StreamOver
    <2> QED
      BY <1>1, <1>2, <1>5, <2>2, <2>3, <2>4, Unmoved
      DEF GinInv, In, Within, Out, StreamAlong
  <1> QED
    BY <1>4, <1>5

\* What does not pass through gin.  Only main changes the configuration, and
\* while it does there are no requests.
LEMMA BesideGin ==
    ASSUME GinInv, Beside
    PROVE  GinInv'
  <1>1. UNCHANGED <<activity, c, out, handler>>
    BY DEF Beside, OnlyBoot, OnlyPaging, OnlyMonitor, OnlyRetry, OnlyPdf,
           streamVars
  <1>2. CASE activity = "boot"
    <2>1. c.stage = "idle"
      BY <1>2, KindOf DEF GinInv
    <2> QED
      BY <1>1, <2>1 DEF GinInv, In, Within, Out, StreamAlong
  <1>3. CASE activity # "boot"
    <2>1. UNCHANGED config
      BY <1>3 DEF Beside, OnlyPaging, OnlyMonitor, OnlyRetry, OnlyPdf, bootVars
    <2> QED
      BY <1>1, <2>1, StillGin
  <1> QED
    BY <1>2, <1>3

\* The steps of the process keep the invariant.
LEMMA GinInvStep ==
    ASSUME GinInv, [Next]_vars
    PROVE  GinInv'
  <1>1. CASE GinStep
    BY <1>1, EnterPlainGin, EnterTracingGin, EnterRequestLoggerGin, RefuseGin,
       NoUserIdGin, EnterAuthGin, CallHandlerGin, HandlersGin, LeaveAuthGin,
       LeaveRequestLoggerGin, LeaveTracingGin, LeavePrometheusREDGin,
       LeaveRecoveryGin, LeaveLoggerGin DEF GinStep
  <1>2. CASE UNCHANGED vars
    BY <1>2, StillGin DEF vars, components, bootVars, streamVars
  <1> QED
    BY <1>1, <1>2, ArriveGin, HandlersGin, HandleAuditLogStreamGin, BesideGin
    DEF Next

\* A handler under /api runs only for the bearer of a valid token with a user in
\* it (AuthMiddleware in middleware/auth.go).  All others get 401, or 500 after
\* the panic of its type assertion.
THEOREM Authenticated == Spec => []PrivateNeedsUser
  <1>1. GinInv => PrivateNeedsUser
    BY DEF GinInv, In, Within, Out, PrivateNeedsUser
  <1> QED
    BY <1>1, InitGin, GinInvStep, PTL DEF Spec

\* Every request is logged and counted once with the status its client got, or
\* neither after a panic (RequestLogger, PrometheusRED, gin's recovery).
THEOREM Accounted == Spec => []RequestAccounted
  <1>1. GinInv => RequestAccounted
    BY ChainShape DEF GinInv, Out, RequestAccounted, Request
  <1> QED
    BY <1>1, InitGin, GinInvStep, PTL DEF Spec

\* No request leaves its span open or its time-out running, panic or not, and
\* the handler runs within both (the deferred calls of middleware/).
THEOREM Released == Spec => []RequestReleased
  <1>1. GinInv => RequestReleased
    BY ChainShape DEF GinInv, Within, Out, RequestReleased, Request
  <1> QED
    BY <1>1, InitGin, GinInvStep, PTL DEF Spec

-----------------------------------------------------------------------------
(* Start-up: what is open, and what main has deferred for it.                *)

\* Sequence q has the members of S, each once.
Covers(q, S) ==
    /\ q \in Seq(Boot!Resources) /\ S \subseteq Boot!Resources
    /\ \A i \in DOMAIN q : q[i] \in S
    /\ \A r \in S : \E i \in DOMAIN q : q[i] = r
    /\ \A i, j \in DOMAIN q : q[i] = q[j] => i = j

\* What is open of what has a closing call.
Closable  == {"tracer", "userClient", "kafkaWriter"}
ToBeClosed(res) == {r \in Closable : res[r] = "open"}

\* The resources that main has not come to.
Unopened ==
    /\ main \in {"config", "vault", "tracing"} => resources["tracer"] = "nil"
    /\ main \in {"config", "vault", "tracing", "db", "mongo", "user"} =>
          resources["userClient"] = "nil"
    /\ main \in Boot!Steps \ {"start", "listen"} =>
          resources["kafkaWriter"] = "nil"

BootInv ==
    /\ Boot!TypeOK
    /\ Covers(deferred, ToBeClosed(resources))
    /\ Unopened
    /\ main \in Boot!Steps \ {"listen"} => workers # Boot!Workers
    /\ main \notin {"unwinding", "over"} =>
          \A r \in Boot!Resources : resources[r] # "closed"
    /\ auditLog = "mongo" => resources["mongoDB"] # "nil"
    /\ exit = "returned" => deferred = <<>>
    /\ Boot!OnlyClientMissed

\* To defer one more closing, and to run the last one deferred.
LEMMA PushCovers ==
    ASSUME NEW q, NEW S, Covers(q, S), NEW r \in Boot!Resources \ S
    PROVE  Covers(<<r>> \o q, S \union {r})
  <1> DEFINE p == <<r>> \o q
  <1>1. /\ q \in Seq(Boot!Resources) /\ S \subseteq Boot!Resources
        /\ \A i \in 1 .. Len(q) : q[i] \in S
        /\ \A s \in S : \E i \in 1 .. Len(q) : q[i] = s
        /\ \A i, j \in 1 .. Len(q) : q[i] = q[j] => i = j
    BY DEF Covers
  <1>2. /\ p \in Seq(Boot!Resources) /\ Len(p) = Len(q) + 1 /\ p[1] = r
        /\ \A i \in 2 .. Len(p) : p[i] = q[i - 1]
        /\ \A i \in 1 .. Len(q) : p[i + 1] = q[i]
        /\ DOMAIN p = 1 .. Len(p) /\ Len(q) \in Nat
    BY <1>1
  <1> HIDE DEF p
  <1>3. \A i \in 1 .. Len(p) :
            i = 1 \/ (i \in 2 .. Len(p) /\ i - 1 \in 1 .. Len(q))
    BY <1>2
  <1>4. \A i \in 1 .. Len(p) : p[i] \in S \union {r}
    BY <1>1, <1>2, <1>3
  <1>5. \A s \in S \union {r} : \E i \in 1 .. Len(p) : p[i] = s
    <2>1. ASSUME NEW s \in S
          PROVE  \E i \in 1 .. Len(p) : p[i] = s
      <3>1. PICK i \in 1 .. Len(q) : q[i] = s
        BY <1>1
      <3>2. i + 1 \in 1 .. Len(p) /\ p[i + 1] = s
        BY <1>2, <3>1
      <3> QED
        BY <3>2
    <2> QED
      BY <1>2, <2>1
  <1>6. \A i, j \in 1 .. Len(p) : p[i] = p[j] => i = j
    <2> SUFFICES ASSUME NEW i \in 1 .. Len(p), NEW j \in 1 .. Len(p),
                        p[i] = p[j]
                 PROVE  i = j
      OBVIOUS
    <2>1. CASE i = 1 /\ j = 1
      BY <2>1
    <2>2. CASE i # 1 /\ j # 1
      <3>1. i - 1 \in 1 .. Len(q) /\ j - 1 \in 1 .. Len(q)
        BY <1>3, <2>2
      <3>2. q[i - 1] = q[j - 1]
        BY <1>2, <2>2
      <3> QED
        BY <1>1, <3>1, <3>2
    <2>3. CASE i = 1 /\ j # 1
      <3>1. j - 1 \in 1 .. Len(q) /\ p[j] = q[j - 1]
        BY <1>2, <1>3, <2>3
      <3> QED
        BY <1>1, <1>2, <2>3, <3>1
    <2>4. CASE i # 1 /\ j = 1
      <3>1. i - 1 \in 1 .. Len(q) /\ p[i] = q[i - 1]
        BY <1>2, <1>3, <2>4
      <3> QED
        BY <1>1, <1>2, <2>4, <3>1
    <2> QED
      BY <2>1, <2>2, <2>3, <2>4
  <1> QED
    BY <1>1, <1>2, <1>4, <1>5, <1>6 DEF Covers, p

\* The other way: the last one deferred is one of S, and the rest is left.
LEMMA PopCovers ==
    ASSUME NEW q, NEW S, Covers(q, S), q # <<>>
    PROVE  Head(q) \in S /\ Covers(Tail(q), S \ {Head(q)})
  <1> DEFINE p == Tail(q)
             h == Head(q)
  <1>1. /\ q \in Seq(Boot!Resources) /\ S \subseteq Boot!Resources
        /\ \A i \in 1 .. Len(q) : q[i] \in S
        /\ \A s \in S : \E i \in 1 .. Len(q) : q[i] = s
        /\ \A i, j \in 1 .. Len(q) : q[i] = q[j] => i = j
    BY DEF Covers
  <1>2. /\ p \in Seq(Boot!Resources) /\ Len(p) = Len(q) - 1 /\ q[1] = h
        /\ 1 \in 1 .. Len(q)
        /\ \A i \in 1 .. Len(p) : p[i] = q[i + 1]
        /\ \A i \in 1 .. Len(p) : i + 1 \in 1 .. Len(q) /\ i + 1 # 1
        /\ \A i \in 1 .. Len(q) :
              i # 1 => i - 1 \in 1 .. Len(p) /\ p[i - 1] = q[i]
        /\ DOMAIN p = 1 .. Len(p) /\ Len(q) \in Nat
    BY <1>1
  <1> HIDE DEF p, h
  <1>3. \A i \in 1 .. Len(p) : p[i] \in S \ {h}
    BY <1>1, <1>2
  <1>4. \A s \in S \ {h} : \E i \in 1 .. Len(p) : p[i] = s
    BY <1>1, <1>2
  <1>5. \A i, j \in 1 .. Len(p) : p[i] = p[j] => i = j
    <2> SUFFICES ASSUME NEW i \in 1 .. Len(p), NEW j \in 1 .. Len(p),
                        p[i] = p[j]
                 PROVE  i = j
      OBVIOUS
    <2>1. q[i + 1] = q[j + 1] /\ i + 1 \in 1 .. Len(q) /\ j + 1 \in 1 .. Len(q)
      BY <1>2
    <2>2. i + 1 = j + 1
      BY <1>1, <2>1
    <2> QED
      BY <2>2
  <1>6. h \in S
    BY <1>1, <1>2
  <1> QED
    BY <1>1, <1>2, <1>3, <1>4, <1>5, <1>6 DEF Covers, p, h

\* There are five workers, and main starts them in this order.
LEMMA StartOrderIs ==
    /\ \A i \in 1 .. 5 : Boot!StartOrder[i] \in Boot!Workers
    /\ IsFiniteSet(Boot!Workers) /\ Cardinality(Boot!Workers) <= 5
    /\ "reconciler" \in Boot!Workers
  <1>1. /\ DOMAIN Boot!StartOrder = 1 .. 5
        /\ Boot!StartOrder[1] = "reconciler" /\ Boot!StartOrder[2] = "pending"
        /\ Boot!StartOrder[3] = "failed" /\ Boot!StartOrder[4] = "sweeper"
        /\ Boot!StartOrder[5] = "consumer"
    BY DEF Boot!StartOrder
  <1>2. Boot!Workers = {"reconciler", "pending", "failed", "sweeper", "consumer"}
    BY <1>1 DEF Boot!Workers
  <1> DEFINE A == {"reconciler"}
             B == A \union {"pending"}
             C == B \union {"failed"}
             D == C \union {"sweeper"}
             E == D \union {"consumer"}
  <1>3. /\ IsFiniteSet({}) /\ Cardinality({}) = 0
        /\ A = {} \union {"reconciler"} /\ Boot!Workers = E
    BY <1>2, FS_EmptySet
  <1> HIDE DEF A, B, C, D, E
  <1>4. IsFiniteSet(A) /\ Cardinality(A) \in 0 .. 1
    BY FS_Singleton DEF A
  <1>5. IsFiniteSet(B) /\ Cardinality(B) \in 0 .. 2
    BY <1>4, FS_AddElement DEF B
  <1>6. IsFiniteSet(C) /\ Cardinality(C) \in 0 .. 3
    BY <1>5, FS_AddElement DEF C
  <1>7. IsFiniteSet(D) /\ Cardinality(D) \in 0 .. 4
    BY <1>6, FS_AddElement DEF D
  <1>8. IsFiniteSet(E) /\ Cardinality(E) \in 0 .. 5
    BY <1>7, FS_AddElement DEF E
  <1>9. \A i \in 1 .. 5 : Boot!StartOrder[i] \in Boot!Workers
    BY <1>1 DEF Boot!Workers
  <1> QED
    BY <1>2, <1>3, <1>8, <1>9

\* While not all of them are started there is a next one.
LEMMA NextWorker ==
    ASSUME workers \subseteq Boot!Workers, workers # Boot!Workers
    PROVE  Boot!StartOrder[Cardinality(workers) + 1] \in Boot!Workers
  <1>1. Cardinality(workers) \in Nat /\ Cardinality(workers) < 5
    BY StartOrderIs, FS_Subset, FS_CardinalityType
  <1> QED
    BY <1>1, StartOrderIs

\* Nothing is deferred for nothing.
LEMMA NothingCovered == Covers(<<>>, {})
  BY DEF Covers

\* The conditional defer of one resource more.
LEMMA PushedCovers ==
    ASSUME NEW res,
           NEW T \in SUBSET Boot!Resources, NEW r \in Boot!Resources \ T,
           NEW q, Covers(q, {x \in T : res[x] = "open"})
    PROVE  Covers(Boot!Pushed(res, r, q),
                  {x \in T \union {r} : res[x] = "open"})
  <1> DEFINE S == {x \in T : res[x] = "open"}
             U == {x \in T \union {r} : res[x] = "open"}
  <1>1. CASE res[r] = "open"
    <2>1. U = S \union {r} /\ r \notin S
      BY <1>1
    <2>2. Boot!Pushed(res, r, q) = <<r>> \o q
      BY <1>1 DEF Boot!Pushed
    <2> HIDE DEF S, U
    <2>3. Covers(q, S)
      BY DEF S
    <2>4. Covers(<<r>> \o q, S \union {r})
      BY <2>1, <2>3, PushCovers
    <2> QED
      BY <2>1, <2>2, <2>4 DEF U
  <1>2. CASE res[r] # "open"
    <2>1. U = S
      BY <1>2
    <2> QED
      BY <1>2, <2>1 DEF Boot!Pushed
  <1> QED
    BY <1>1, <1>2

\* The process that serves, with or without its optional resources.
LEMMA ServingInv ==
    ASSUME NEW optional \in SUBSET {"tracer", "mongoDB", "userClient"},
           Boot!Serving(optional)
    PROVE  BootInv
  <1>1. /\ config \in Boot!Settings /\ main = "serving" /\ secrets = "vault"
        /\ config.mongo = ("mongoDB" \in optional)
        /\ resources = [r \in Boot!Resources |->
              IF r \in {"db", "kafkaWriter"} \union optional THEN "open"
                                                            ELSE "nil"]
        /\ auditLog = (IF config.mongo THEN "mongo" ELSE "noop")
        /\ deferred = Boot!Pushed(resources, "kafkaWriter",
              Boot!Pushed(resources, "userClient",
                     Boot!Pushed(resources, "tracer", <<>>)))
        /\ workers = Boot!Workers /\ exit = "running" /\ culprit = "none"
    BY DEF Boot!Serving
  <1>2. Covers(deferred, ToBeClosed(resources))
    <2> DEFINE q1 == Boot!Pushed(resources, "tracer", <<>>)
               q2 == Boot!Pushed(resources, "userClient", q1)
               On(T) == {x \in T : resources[x] = "open"}
    <2>1. Covers(<<>>, On({}))
      BY NothingCovered
    <2>2. Covers(q1, On({} \union {"tracer"}))
      BY <2>1, PushedCovers DEF Boot!Resources
    <2>3. {} \union {"tracer"} = {"tracer"}
      OBVIOUS
    <2> HIDE DEF q1
    <2>4. Covers(q1, On({"tracer"}))
      BY <2>2, <2>3
    <2>5. Covers(q2, On({"tracer"} \union {"userClient"}))
      BY <2>4, PushedCovers DEF Boot!Resources
    <2> DEFINE U == {"tracer"} \union {"userClient"}
    <2> HIDE DEF q2
    <2>6. Covers(Boot!Pushed(resources, "kafkaWriter", q2),
                 On(U \union {"kafkaWriter"}))
      BY <2>5, PushedCovers DEF Boot!Resources
    <2>8. deferred = Boot!Pushed(resources, "kafkaWriter", q2)
      BY <1>1 DEF q1, q2
    <2>7. {"tracer"} \union {"userClient"} \union {"kafkaWriter"} = Closable
      BY DEF Closable
    <2> QED
      BY <2>6, <2>7, <2>8 DEF ToBeClosed
  <1>3. Boot!TypeOK
    BY <1>1, <1>2 DEF Boot!TypeOK, Covers, Boot!Steps, Boot!Resources
  <1> QED
    BY <1>1, <1>2, <1>3, Zenon
    DEF BootInv, Unopened, Boot!OnlyClientMissed, Boot!Steps, Boot!Resources

\* The process before its first step.
LEMMA BootInit == Boot!Init => BootInv
  <1> SUFFICES ASSUME Boot!Init PROVE BootInv
    OBVIOUS
  <1>1. Covers(deferred, ToBeClosed(resources))
    <2>1. ToBeClosed(resources) = {} /\ deferred = <<>>
      BY DEF Boot!Init, ToBeClosed, Closable, Boot!Resources
    <2> QED
      BY <2>1, NothingCovered
  <1> QED
    BY <1>1, StartOrderIs
    DEF Boot!Init, BootInv, Boot!TypeOK, Covers, Unopened,
        Boot!OnlyClientMissed, Boot!Steps, Boot!Resources

\* The steps of main that open nothing that has a closing call.
LEMMA MainGoesOn ==
    ASSUME BootInv,
           \/ Boot!LoadConfig \/ Boot!LoadVaultSecrets \/ Boot!InitDB
           \/ Boot!InitMongo \/ Boot!AutoMigrate \/ Boot!FailsFatally
           \/ Boot!Listen \/ Boot!ListenerFails \/ Boot!Return
           \/ UNCHANGED Boot!vars
    PROVE  BootInv'
  <1> USE DEF BootInv, Boot!TypeOK, Unopened, Boot!OnlyClientMissed,
              Boot!Steps, Boot!Step, Boot!made
  <1>1. CASE Boot!LoadConfig
    BY <1>1 DEF Boot!LoadConfig
  <1>2. CASE Boot!LoadVaultSecrets
    BY <1>2 DEF Boot!LoadVaultSecrets
  <1>3. CASE Boot!InitDB
    <2>1. ToBeClosed(resources)' = ToBeClosed(resources)
      BY <1>3 DEF Boot!InitDB, Boot!Opens, ToBeClosed, Closable
    <2> QED
      BY <1>3, <2>1 DEF Boot!InitDB, Boot!Opens, Boot!Resources
  <1>4. CASE Boot!InitMongo
    <2>1. ToBeClosed(resources)' = ToBeClosed(resources)
      <3>1. \A r \in Closable : resources'[r] = resources[r]
        BY <1>4 DEF Boot!InitMongo, Boot!Opens, Closable, Boot!Resources
      <3> QED
        BY <3>1 DEF ToBeClosed
    <2> QED
      BY <1>4, <2>1 DEF Boot!InitMongo, Boot!Opens, Boot!Resources
  <1>5. CASE Boot!AutoMigrate
    BY <1>5 DEF Boot!AutoMigrate
  <1>6. CASE Boot!FailsFatally
    BY <1>6 DEF Boot!FailsFatally, Boot!Fatal
  <1>7. CASE Boot!Listen
    BY <1>7 DEF Boot!Listen
  <1>8. CASE Boot!ListenerFails
    BY <1>8 DEF Boot!ListenerFails
  <1>9. CASE Boot!Return
    BY <1>9 DEF Boot!Return
  <1>10. CASE UNCHANGED Boot!vars
    BY <1>10 DEF Boot!vars
  <1> QED
    BY <1>1, <1>2, <1>3, <1>4, <1>5, <1>6, <1>7, <1>8, <1>9, <1>10

\* One goroutine more.
LEMMA StartStep ==
    ASSUME BootInv, Boot!Start
    PROVE  BootInv'
  <1>1. workers' \subseteq Boot!Workers
    BY NextWorker
    DEF Boot!Start, Boot!Cardinality, Cardinality, BootInv, Boot!TypeOK,
        Boot!Steps
  <1> QED
    BY <1>1
    DEF BootInv, Boot!TypeOK, Unopened, Boot!OnlyClientMissed, Boot!Steps,
        Boot!Start

\* The three steps that open a resource and defer its closing.
LEMMA OpeningStep ==
    ASSUME BootInv, Boot!InitTracer \/ Boot!NewUserClient \/ Boot!Wire
    PROVE  BootInv'
  <1>1. PICK r \in Closable :
            /\ resources[r] = "nil" /\ main \in Boot!Steps /\ main' \in Boot!Steps
            /\ \/ UNCHANGED resources
               \/ resources' = [resources EXCEPT ![r] = "open"]
            /\ deferred' = Boot!Pushed(resources', r, deferred)
            /\ UNCHANGED <<config, secrets, workers, exit, culprit>>
    BY DEF Boot!InitTracer, Boot!NewUserClient, Boot!Wire, Boot!Step,
           Boot!Opens, Boot!Defer, Closable, Boot!Steps, BootInv, Unopened
  <1>2. /\ resources \in [Boot!Resources -> {"nil", "open", "closed"}]
        /\ r \in Boot!Resources
    BY DEF BootInv, Boot!TypeOK, Closable, Boot!Resources
  <1>3. Covers(deferred', ToBeClosed(resources'))
    <2> DEFINE T == Closable \ {r}
    <2>5. T \union {r} = Closable /\ resources[r] # "open"
          /\ \A x \in T : resources'[x] = resources[x]
      BY <1>1, <1>2 DEF Closable, Boot!Resources
    <2>1. /\ {x \in T : resources'[x] = "open"} = ToBeClosed(resources)
          /\ {x \in T \union {r} : resources'[x] = "open"} = ToBeClosed(resources')
      BY <2>5 DEF ToBeClosed
    <2>2. T \in SUBSET Boot!Resources /\ r \in Boot!Resources \ T
      BY <1>2 DEF Closable, Boot!Resources
    <2>3. Covers(deferred, {x \in T : resources'[x] = "open"})
      BY <2>1 DEF BootInv
    <2> HIDE DEF T
    <2>4. Covers(deferred', {x \in T \union {r} : resources'[x] = "open"})
      BY <1>1, <2>2, <2>3, PushedCovers
    <2> QED
      BY <2>1, <2>4
  <1>4. resources' \in [Boot!Resources -> {"nil", "open", "closed"}]
        /\ \A x \in Boot!Resources : x # r => resources'[x] = resources[x]
        /\ resources'[r] \in {"nil", "open"}
    BY <1>1, <1>2
  <1>5. Boot!TypeOK'
    BY <1>1, <1>3, <1>4
    DEF BootInv, Boot!TypeOK, Covers, Boot!Wire, Boot!InitTracer,
        Boot!NewUserClient, Boot!NewAuditLogRepository, Boot!Steps
  <1>6. Unopened'
    BY <1>4
    DEF BootInv, Unopened, Boot!InitTracer, Boot!NewUserClient, Boot!Wire,
        Boot!Opens, Boot!Step, Boot!Steps, Boot!Resources
  <1>7. auditLog' = "mongo" => resources'["mongoDB"] # "nil"
    BY <1>4
    DEF BootInv, Boot!InitTracer, Boot!NewUserClient, Boot!Wire, Boot!Opens,
        Boot!NewAuditLogRepository, Boot!Resources
  <1>8. Boot!OnlyClientMissed' /\ (exit' = "returned" => deferred' = <<>>)
    BY DEF BootInv, Boot!OnlyClientMissed, Boot!InitTracer, Boot!NewUserClient,
           Boot!Wire, Boot!Step
  <1>9. /\ main' \in Boot!Steps \ {"listen"} => workers' # Boot!Workers
        /\ \A x \in Boot!Resources : resources'[x] # "closed"
    BY <1>1, <1>4
    DEF BootInv, Boot!InitTracer, Boot!NewUserClient, Boot!Wire, Boot!Step,
        Boot!Steps
  <1> QED
    BY <1>3, <1>5, <1>6, <1>7, <1>8, <1>9 DEF BootInv

\* A deferred call of main: what it closes is open, so it does not panic.
LEMMA DeferredStep ==
    ASSUME BootInv, Boot!RunDeferred
    PROVE  BootInv'
  <1> DEFINE h == Head(deferred)
  <1>1. /\ exit = "running" /\ main = "unwinding" /\ deferred # <<>>
        /\ resources \in [Boot!Resources -> {"nil", "open", "closed"}]
        /\ Covers(deferred, ToBeClosed(resources))
    BY DEF Boot!RunDeferred, BootInv, Boot!TypeOK
  <1>2. /\ h \in ToBeClosed(resources)
        /\ Covers(Tail(deferred), ToBeClosed(resources) \ {h})
    BY <1>1, PopCovers
  <1>3. h \in Closable /\ resources[h] = "open" /\ h # "mongoDB"
    BY <1>2 DEF ToBeClosed, Closable
  <1>4. /\ resources' = [resources EXCEPT ![h] = "closed"]
        /\ deferred' = Tail(deferred)
        /\ UNCHANGED <<config, main, secrets, auditLog, workers, exit, culprit>>
    BY <1>3 DEF Boot!RunDeferred
  <1> HIDE DEF h
  <1>5. h \in Boot!Resources
    BY <1>3 DEF Closable, Boot!Resources
  <1>6. /\ resources' \in [Boot!Resources -> {"nil", "open", "closed"}]
        /\ resources'[h] = "closed"
        /\ \A x \in Boot!Resources : x # h => resources'[x] = resources[x]
    BY <1>1, <1>4, <1>5
  <1>7. ToBeClosed(resources') = ToBeClosed(resources) \ {h}
    BY <1>6 DEF ToBeClosed, Closable, Boot!Resources
  <1>8. Covers(deferred', ToBeClosed(resources'))
    BY <1>2, <1>4, <1>7
  <1> QED
    BY <1>1, <1>3, <1>4, <1>6, <1>8
    DEF BootInv, Boot!TypeOK, Covers, Unopened, Boot!OnlyClientMissed,
        Boot!Steps, Boot!Resources

\* A panic of a worker: the user client was missing, nothing else can be.
LEMMA PanicStep ==
    ASSUME BootInv, NEW w \in Boot!Workers, Boot!WorkerPanics(w)
    PROVE  BootInv'
  <1>1. /\ resources["userClient"] = "nil" /\ w \in {"pending", "consumer"}
        /\ w = "consumer" => ~ config.disable_create_invoice_directly
    BY DEF Boot!WorkerPanics, Boot!Dereferences, Boot!LooksUp, BootInv
  <1> QED
    BY <1>1 DEF Boot!WorkerPanics, Boot!Panics, BootInv, Boot!TypeOK, Unopened,
                Boot!OnlyClientMissed, Boot!Steps, Boot!made

\* The steps of main and of its workers keep the invariant.
LEMMA BootInvStep ==
    ASSUME BootInv, [Boot!Next]_(Boot!vars)
    PROVE  BootInv'
  BY MainGoesOn, StartStep, OpeningStep, DeferredStep, PanicStep DEF Boot!Next

\* With nothing deferred, nothing is left to be closed.
LEMMA BootInvReleased == BootInv => Boot!ReleasedOnReturn
  <1> SUFFICES ASSUME BootInv PROVE Boot!ReleasedOnReturn
    OBVIOUS
  <1>1. exit = "returned" => \A r \in Closable : resources[r] # "open"
    BY DEF BootInv, Covers, ToBeClosed, Closable
  <1>2. main \notin {"unwinding", "over"} =>
           \A r \in Boot!Resources : resources[r] # "closed"
    BY DEF BootInv
  <1>3. Boot!Resources \ Closable = {"db", "mongoDB"}
    BY DEF Boot!Resources, Closable
  <1> QED
    BY <1>1, <1>2, <1>3 DEF Boot!ReleasedOnReturn

\* Every activity but "boot" begins with a process that serves.
LEMMA BootKept ==
    /\ Init => BootInv
    /\ BootInv /\ [Next]_vars => BootInv'
  <1>1. ASSUME Init PROVE BootInv
    <2> DEFINE All == {"tracer", "mongoDB", "userClient"}
    <2>1. CASE activity = "boot"
      <3>1. Boot!Init
        BY <1>1, <2>1, Zenon DEF Init
      <3> QED
        BY <3>1, BootInit
    <2>2. CASE activity = "rest"
      <3>1. \E optional \in SUBSET All : Boot!Serving(optional)
        BY <1>1, <2>2, Zenon DEF Init
      <3> QED
        BY <3>1, ServingInv
    <2>3. CASE activity \notin {"boot", "rest"}
      <3>1. Boot!Serving(All)
        BY <1>1, <2>3, Zenon DEF Init
      <3>2. All \in SUBSET All
        BY Zenon
      <3> QED
        BY <3>1, <3>2, ServingInv
    <2> QED
      BY <2>1, <2>2, <2>3
  <1>2. BootInv /\ [Next]_vars => BootInv'
    BY ComponentSteps, BootInvStep
  <1> QED
    BY <1>1, <1>2

\* Of all that main can go on without (MongoDB, tracing, the user client), only
\* the last brings the process down, through the goroutines that ask it for an
\* address (main.go; ProcessPendingPaymentRequests and the consumer).
THEOREM ClientAloneMissed == Spec => []OnlyClientMissed
  <1>1. BootInv => OnlyClientMissed
    BY DEF BootInv, OnlyClientMissed
  <1> QED
    BY <1>1, BootKept, PTL DEF Spec

\* When main returns, its deferred calls have closed all that it had opened but
\* the two databases, and nothing was closed before it gave up serving (main.go).
THEOREM AllReleased == Spec => []ReleasedOnReturn
  <1>1. BootInv => ReleasedOnReturn
    BY BootInvReleased DEF ReleasedOnReturn
  <1> QED
    BY <1>1, BootKept, PTL DEF Spec

-----------------------------------------------------------------------------
(* Downloads of one invoice.                                                 *)

\* A row's status is none of the states a file can be in without one.
LEMMA RowsDistinct ==
    /\ Pdf!NoRow \notin Pdf!Rows /\ Pdf!NoFile \notin Pdf!Rows
    /\ Pdf!Empty \notin Pdf!Rows /\ Pdf!Torn \notin Pdf!Rows
    /\ Pdf!Empty # Pdf!NoFile /\ Pdf!Empty # Pdf!NoRow
  BY DEF Pdf!Rows, Pdf!NoRow, Pdf!NoFile, Pdf!Empty, Pdf!Torn,
         Pdf!PaymentStatusPending, Pdf!PaymentStatusPaid,
         Pdf!PaymentStatusFailed, Pdf!PaymentStatusExpired

\* What a download that nobody has disturbed can rely on: between its own calls
\* the file is as it left it, and once past its query it has read a row.
Undisturbed(d) ==
    /\ download[d] = "write" => file = Pdf!Empty
    /\ download[d] = "open"  => file = payment[d]
    /\ download[d] = "copy"  => file = payment[d] /\ opened[d] = payment[d]
    /\ download[d] = "served" => sent[d] = payment[d]

PdfInv ==
    /\ Pdf!TypeOK
    /\ \A d \in Downloads :
          download[d] \in {"create", "write", "open", "copy"} =>
             payment[d] \in Pdf!Rows
    /\ \A d \in Downloads \ disturbed : Undisturbed(d)

\* Nothing is read or written yet.
LEMMA InitPdfInv == Pdf!Init => PdfInv
  BY RowsDistinct DEF Pdf!Init, PdfInv, Pdf!TypeOK, Undisturbed, Pdf!Rows

\* Whoever writes to the file marks all others that depend on it.
LEMMA PdfInvStep == PdfInv /\ [Pdf!Next]_(Pdf!vars) => PdfInv'
  <1> SUFFICES ASSUME PdfInv, [Pdf!Next]_(Pdf!vars) PROVE PdfInv'
    OBVIOUS
  <1> USE RowsDistinct
      DEF PdfInv, Pdf!TypeOK, Undisturbed, Pdf!Goto, Pdf!Disturb, Pdf!Busy
  <1>1. CASE Pdf!StatusChanges
    BY <1>1 DEF Pdf!StatusChanges
  <1>2. ASSUME NEW d \in Downloads, Pdf!GetPaymentByOrderID(d) PROVE PdfInv'
    BY <1>2 DEF Pdf!GetPaymentByOrderID
  <1>3. ASSUME NEW d \in Downloads, Pdf!CreateFile(d) PROVE PdfInv'
    BY <1>3 DEF Pdf!CreateFile, Pdf!Created
  <1>4. ASSUME NEW d \in Downloads, Pdf!WriteFile(d) PROVE PdfInv'
    BY <1>4 DEF Pdf!WriteFile, Pdf!Written, Pdf!PartlyWritten
  <1>5. ASSUME NEW d \in Downloads, Pdf!OpenFile(d) PROVE PdfInv'
    BY <1>5 DEF Pdf!OpenFile
  <1>6. ASSUME NEW d \in Downloads, Pdf!CopyFile(d) PROVE PdfInv'
    BY <1>6 DEF Pdf!CopyFile
  <1>7. CASE UNCHANGED Pdf!vars
    BY <1>7 DEF Pdf!vars
  <1> QED
    BY <1>1, <1>2, <1>3, <1>4, <1>5, <1>6, <1>7 DEF Pdf!Next

\* The downloads of the process are those of InvoicePdf.
LEMMA PdfKept ==
    /\ Init => PdfInv
    /\ PdfInv /\ [Next]_vars => PdfInv'
  <1>1. Init => PdfInv
    BY InitPdfInv DEF Init
  <1>2. PdfInv /\ [Next]_vars => PdfInv'
    BY ComponentSteps, PdfInvStep
  <1> QED
    BY <1>1, <1>2

\* A download that no other one has disturbed serves the whole invoice with the
\* status it has read (pdf/invoice_generator.go), whatever is left in the file by others.
THEOREM AloneIsWhole == Spec => []PdfAlone
  <1>1. PdfInv => PdfAlone
    BY DEF PdfInv, Undisturbed, PdfAlone, Pdf!PdfAlone
  <1> QED
    BY <1>1, PdfKept, PTL DEF Spec

-----------------------------------------------------------------------------
(* All of it together.                                                       *)

\* Every variable of the process, in all its components, keeps its type.
THEOREM TypeCorrect == Spec => []TypeOK
  <1> DEFINE Inv == /\ activity \in Activities
                    /\ GinInv /\ BootInv /\ PdfInv
                    /\ StreamProofs!IInv /\ PagingProofs!IInv
                    /\ MonitorProofs!IInv /\ RetryProofs!IInv
  <1>1. Init => Inv
    <2>1. Init => activity \in Activities
      BY DEF Init
    <2> QED
      BY <2>1, InitGin, BootKept, PdfKept, StreamKept, PagingKept, MonitorKept,
         RetryKept
  <1>2. Inv /\ [Next]_vars => Inv'
    <2>1. [Next]_vars => activity' = activity
      BY DEF Next, Arrive, GinStep, EnterPlain, EnterTracing,
             EnterRequestLogger, Refuse, NoUserId, EnterAuth, Enters,
             CallHandler, HandlePing, HandleUnmatched, HandleCreateInvoice,
             HandleFailedPayments, HandleAuditQuery, HandleQueries,
             AnswerWebhook, LeaveAuth, LeaveRequestLogger, LeaveTracing,
             LeavePrometheusRED, LeaveRecovery, LeaveLogger, Leaves,
             HandleAuditLogStream, StreamStep, AnnounceOutcome, Beside,
             OnlyBoot, OnlyStream, OnlyPaging, OnlyMonitor, OnlyRetry, OnlyPdf,
             vars
    <2> QED
      BY <2>1, GinInvStep, BootKept, PdfKept, StreamKept, PagingKept,
         MonitorKept, RetryKept
  <1>3. Inv => TypeOK
    <2> SUFFICES ASSUME Inv PROVE TypeOK
      OBVIOUS
    <2>1. activity \in Activities /\ c \in Request
      BY DEF GinInv
    <2>2. Boot!TypeOK
      BY DEF BootInv
    <2>3. Stream!TypeOK
      BY SameStream DEF StreamProofs!IInv
    <2>4. Paging!TypeOK
      BY SamePaging, PagingProofs!IInvTypes, HttpAssumption
    <2>5. Monitor!TypeOK
      BY SameMonitor DEF MonitorProofs!IInv, MonitorProofs!Coherent
    <2>6. Retry!TypeOK
      BY SameRetry DEF RetryProofs!IInv
    <2>7. Pdf!TypeOK
      BY DEF PdfInv
    <2> HIDE DEF Inv
    <2> QED
      BY <2>1, <2>2, <2>3, <2>4, <2>5, <2>6, <2>7 DEF TypeOK
  <1> QED
    BY <1>1, <1>2, <1>3, PTL DEF Spec
=============================================================================
