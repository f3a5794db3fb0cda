------------------------------ MODULE Startup ------------------------------
(***************************************************************************)
(* main(): reads the configuration, opens what the service needs, starts   *)
(* the four loops and the consumer, and serves HTTP until the listener     *)
(* fails.  Some resources are optional, and main goes on without them; the *)
(* goroutines it has started then find nil where they expect a client.     *)
(***************************************************************************)
EXTENDS Naturals, Sequences, FiniteSets

VARIABLES
    config,      \* what is set: a record of Booleans, see Settings
    pc,          \* the step main takes next: one of Steps, "serving",
                 \* "unwinding" (the deferred calls) or "over"
    secrets,     \* where passwords and keys come from: "file" or "vault"
    resources,   \* each "nil", "open" or "closed"
    auditLog,    \* the repository behind its interface, "none" before it is
    deferred,    \* main's deferred calls, by what they close, last one first
    workers,     \* goroutines started
    exit,        \* "running", "returned", "fatal" (os.Exit) or "crashed"
    culprit      \* the goroutine whose panic ended the process, or "none"

made == <<secrets, resources, auditLog, deferred, workers>>
vars == <<config, pc, made, exit, culprit>>

\* vault.host, mongo.uri, tracing.enabled, and the toggle of the consumer.
Settings  == [vault : BOOLEAN, mongo : BOOLEAN, tracing : BOOLEAN,
              disable_create_invoice_directly : BOOLEAN]
Resources == {"tracer", "db", "mongoDB", "userClient", "kafkaWriter"}
StartOrder == <<"reconciler", "pending", "failed", "sweeper", "consumer">>
Workers   == {StartOrder[i] : i \in DOMAIN StartOrder}
Steps     == {"config", "vault", "tracing", "db", "mongo", "user", "migrate",
              "wire", "start", "listen"}

Init ==
    /\ config \in Settings
    /\ pc = "config" /\ secrets = "file"
    /\ resources = [r \in Resources |-> "nil"] /\ auditLog = "none"
    /\ deferred = <<>> /\ workers = {}
    /\ exit = "running" /\ culprit = "none"

\* The closing call is deferred only for what was opened.
Pushed(res, r, q) == IF res[r] = "open" THEN <<r>> \o q ELSE q

\* The process when it serves, with or without its optional resources.  Tracing
\* may be enabled and InitTracer have failed.
Serving(optional) ==
    /\ config \in Settings /\ config.vault /\ config.disable_create_invoice_directly
    /\ config.mongo = ("mongoDB" \in optional)
    /\ "tracer" \in optional => config.tracing
    /\ pc = "serving" /\ secrets = "vault"
    /\ resources = [r \in Resources |->
          IF r \in {"db", "kafkaWriter"} \union optional THEN "open" ELSE "nil"]
    /\ auditLog = IF config.mongo THEN "mongo" ELSE "noop"
    /\ deferred = LET P(r, q) == Pushed(resources, r, q)
                  IN  P("kafkaWriter", P("userClient", P("tracer", <<>>)))
    /\ workers = Workers
    /\ exit = "running" /\ culprit = "none"

-----------------------------------------------------------------------------
(* The steps of main, up to the listener. *)

Step(from, to) == exit = "running" /\ pc = from /\ pc' = to

\* log.Fatal: the process exits with status 1, and no deferred call runs.
Fatal ==
    /\ pc' = "over" /\ exit' = "fatal"
    /\ UNCHANGED <<config, made, culprit>>

Opens(r) == resources' = [resources EXCEPT ![r] = "open"]

\* Mutant: main forgets the defer.
DeferForgotten(r) == deferred' = deferred

Defer(r) == deferred' = Pushed(resources', r, deferred)

LoadConfig ==
    /\ Step("config", "vault")
    /\ UNCHANGED <<config, made, exit, culprit>>

\* Any error of Vault leaves the values of the file in place.
LoadVaultSecrets ==
    /\ Step("vault", "tracing")
    /\ secrets' \in IF config.vault THEN {"file", "vault"} ELSE {"file"}
    /\ UNCHANGED <<config, resources, auditLog, deferred, workers,
                   exit, culprit>>

\* With tracing disabled what is deferred does nothing, and stays out here.
InitTracer ==
    /\ Step("tracing", "db")
    /\ UNCHANGED resources \/ (config.tracing /\ Opens("tracer"))
    /\ Defer("tracer")
    /\ UNCHANGED <<config, secrets, auditLog, workers, exit, culprit>>

InitDB ==
    /\ Step("db", "mongo") /\ Opens("db")
    /\ UNCHANGED <<config, secrets, auditLog, deferred, workers,
                   exit, culprit>>

\* Connect and Ping share ten seconds; with no URI the result is nil.
InitMongo ==
    /\ Step("mongo", "user")
    /\ IF config.mongo THEN Opens("mongoDB") ELSE UNCHANGED resources
    /\ UNCHANGED <<config, secrets, auditLog, deferred, workers,
                   exit, culprit>>

\* grpc.NewClient does not dial: it fails for an address it cannot parse.
NewUserClient ==
    /\ Step("user", "migrate")
    /\ UNCHANGED resources \/ Opens("userClient")
    /\ Defer("userClient")
    /\ UNCHANGED <<config, secrets, auditLog, workers, exit, culprit>>

AutoMigrate ==
    /\ Step("migrate", "wire")
    /\ UNCHANGED <<config, made, exit, culprit>>

\* Mutant: a repository is made around whatever InitMongo has returned.
UncheckedRepository == "mongo"

\* The parameter is a pointer, and its comparison with nil works.
NewAuditLogRepository ==
    IF resources["mongoDB"] = "nil" THEN "noop" ELSE "mongo"

Wire ==
    /\ Step("wire", "start")
    /\ Opens("kafkaWriter") /\ Defer("kafkaWriter")
    /\ auditLog' = NewAuditLogRepository
    /\ UNCHANGED <<config, secrets, workers, exit, culprit>>

Start ==
    /\ exit = "running" /\ pc = "start"
    /\ workers' = workers \union {StartOrder[Cardinality(workers) + 1]}
    /\ pc' = IF workers' = Workers THEN "listen" ELSE "start"
    /\ UNCHANGED <<config, secrets, resources, auditLog, deferred,
                   exit, culprit>>

FailsFatally ==
    /\ exit = "running"
    /\ pc \in {"config", "db", "migrate"} \/ (pc = "mongo" /\ config.mongo)
    /\ Fatal

-----------------------------------------------------------------------------
(* Serving, and the end. *)

\* What router.Run returns is ignored: the port may be taken, and then the
\* goroutines have been at work before main returns.
Listen ==
    /\ exit = "running" /\ pc = "listen"
    /\ pc' \in {"serving", "unwinding"}
    /\ UNCHANGED <<config, made, exit, culprit>>

ListenerFails ==
    /\ Step("serving", "unwinding")
    /\ UNCHANGED <<config, made, exit, culprit>>

Panics(g) ==
    /\ exit' = "crashed" /\ culprit' = g /\ pc' = "over"
    /\ UNCHANGED <<config, made>>

\* Close() and the shut-down function of a resource that is nil panic.
RunDeferred ==
    /\ exit = "running" /\ pc = "unwinding" /\ deferred # <<>>
    /\ IF resources[Head(deferred)] = "nil"
       THEN Panics("main")
       ELSE /\ resources' = [resources EXCEPT ![Head(deferred)] = "closed"]
            /\ deferred'  = Tail(deferred)
            /\ UNCHANGED <<config, pc, secrets, auditLog, workers,
                           exit, culprit>>

\* The goroutines end with the process, wherever they are.
Return ==
    /\ Step("unwinding", "over") /\ deferred = <<>>
    /\ exit' = "returned"
    /\ UNCHANGED <<config, made, culprit>>

\* Who asks the user service for an e-mail address, and who writes to the
\* audit log.  The reconciler does so in ProcessPaymentSuccess.
LooksUp(w) == \/ w = "pending"
              \/ w = "consumer" /\ ~ config.disable_create_invoice_directly
Audits(w)  == w # "consumer" \/ config.disable_create_invoice_directly

\* The code compares the interface with nil, and the interface holds a pointer
\* type: that the pointer is nil does not make the interface nil.
ClientMissing == FALSE

Dereferences(w) ==
    \/ LooksUp(w) /\ ~ ClientMissing /\ resources["userClient"] = "nil"
    \/ Audits(w) /\ auditLog = "mongo" /\ resources["mongoDB"] = "nil"

\* Nothing recovers a panic outside the HTTP handlers.
WorkerPanics(w) ==
    /\ exit = "running" /\ w \in workers
    /\ Dereferences(w)
    /\ Panics(w)

Next ==
    \/ LoadConfig \/ LoadVaultSecrets \/ InitTracer \/ InitDB \/ InitMongo
    \/ NewUserClient \/ AutoMigrate \/ Wire \/ Start \/ FailsFatally
    \/ Listen \/ ListenerFails \/ RunDeferred \/ Return
    \/ \E w \in Workers : WorkerPanics(w)

Spec == Init /\ [][Next]_vars

-----------------------------------------------------------------------------
(* Properties. *)

TypeOK ==
    /\ config \in Settings
    /\ pc \in Steps \union {"serving", "unwinding", "over"}
    /\ secrets \in {"file", "vault"}
    /\ resources \in [Resources -> {"nil", "open", "closed"}]
    /\ auditLog \in {"none", "mongo", "noop"}
    /\ deferred \in Seq(Resources) /\ workers \subseteq Workers
    /\ exit \in {"running", "returned", "fatal", "crashed"}
    /\ culprit \in Workers \union {"main", "none"}

\* Of all that main can go on without, only the user client brings the process
\* down: without MongoDB and without tracing every goroutine and main's own
\* deferred calls work, and without the user client only those panic that ask
\* it for an address.
OnlyClientMissed ==
    exit = "crashed" =>
        /\ resources["userClient"] = "nil"
        /\ culprit \in {"pending", "consumer"}
        /\ culprit = "consumer" => ~ config.disable_create_invoice_directly

\* When main returns, only the two databases are still open, for which it has
\* no closing call: it has closed all else that it had opened, in particular what
\* was opened before a resource that failed.  And nothing is closed before main
\* has given up serving.
ReleasedOnReturn ==
    /\ exit = "returned" =>
          {r \in Resources : resources[r] = "open"} \subseteq {"db", "mongoDB"}
    /\ pc \notin {"unwinding", "over"} =>
          \A r \in Resources : resources[r] # "closed"

\* main.go:59 logs "continuing without user service" when there is no client.
\* The code does not keep this: the first pending request ends the process.
ContinuesWithoutUserService == exit # "crashed"
=============================================================================
