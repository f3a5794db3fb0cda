---------------------------- MODULE PublishRetry ----------------------------
(***************************************************************************)
(* One announcement in real time: retryPublishPayment with its back-off,   *)
(* called under the two seconds that RequestLogger gives a webhook, or     *)
(* under the context without a deadline of the background loops.           *)
(* Settlement has the same calls without the clock.                        *)
(*                                                                         *)
(* Time is counted in whole seconds since the caller began, rounded down.  *)
(***************************************************************************)
EXTENDS Naturals, Sequences

CONSTANTS
    MaxRetryPublish,  \* attempts (3 in the code)
    RequestTimeout,   \* seconds of a webhook's context (2)
    MaxElapsed,       \* bound: no call takes time beyond this second
    DbOutcomes        \* how a write to PostgreSQL can end

PublishAssumption ==
    /\ MaxRetryPublish \in Nat \ {0}
    /\ RequestTimeout \in Nat \ {0} /\ MaxElapsed \in Nat
    /\ "ok" \in DbOutcomes /\ DbOutcomes \subseteq {"ok", "err"}

\* Who announces: a PAID or FAILED webhook, the reconciler or the sweeper.
Webhooks == {"webhook_paid", "webhook_failed"}
Callers  == Webhooks \union {"reconciler", "sweeper"}

VARIABLES
    caller,       \* one of Callers
    now,          \* seconds since the caller began
    pc,           \* "idle", "publish", "sleep", "save_failed", "mark" and
                  \* "returned"
    began,        \* began[i]: when attempt i began
    wakeAt,       \* when time.Sleep returns
    delivered,    \* Kafka has the event
    failedEvent,  \* the row in failed_events is written
    marked        \* how MarkPaid, MarkFailed or MarkExpired has ended, one of
                  \* DbOutcomes, or "none"

vars == <<caller, now, pc, began, wakeAt, delivered, failedEvent, marked>>

Init ==
    /\ caller \in Callers
    /\ now = 0 /\ pc = "idle" /\ began = <<>> /\ wakeAt = 0
    /\ delivered = FALSE /\ failedEvent = FALSE /\ marked = "none"

\* context.WithTimeout: every call that is handed the context fails from then
\* on.  MarkPaid and MarkFailed are not handed it.
ContextDead == caller \in Webhooks /\ now >= RequestTimeout

-----------------------------------------------------------------------------
Attempt == began' = Append(began, now) /\ pc' = "publish"

Begin ==
    /\ pc = "idle"
    /\ Attempt
    /\ UNCHANGED <<caller, now, wakeAt, delivered, failedEvent, marked>>

PublishAcked ==
    /\ pc = "publish" /\ ~ ContextDead
    /\ pc' = "mark" /\ delivered' = TRUE
    /\ UNCHANGED <<caller, now, began, wakeAt, failedEvent, marked>>

\* math.Pow(2, i), by recursion.
Pow2[i \in Nat] == IF i = 0 THEN 1 ELSE 2 * Pow2[i - 1]

\* Mutants: a constant back-off; a sleep after the last attempt as well.
OneSecond(i) == 1
SleepAlways(i) == i <= MaxRetryPublish

\* Seconds slept after the attempt with this number (from 1).
Wait(i) == Pow2[i - 1]

TriesAgain(i) == i < MaxRetryPublish

\* ProcessPaymentSuccess stores the failure, the other two only return it.
GiveUp == IF caller \in {"webhook_paid", "reconciler"}
          THEN "save_failed" ELSE "returned"

\* Refused by the broker, or cut short by the context: WriteMessages returns
\* without an answer, and what it has queued may still be sent.
PublishFails ==
    LET i == Len(began) IN
    /\ pc = "publish"
    /\ delivered' \in {delivered, TRUE}
    /\ IF TriesAgain(i)
       THEN pc' = "sleep" /\ wakeAt' = now + Wait(i)
       ELSE pc' = GiveUp /\ UNCHANGED wakeAt
    /\ UNCHANGED <<caller, now, began, failedEvent, marked>>

\* time.Sleep does not look at the context.
Wake ==
    /\ pc = "sleep" /\ now = wakeAt
    /\ Attempt
    /\ UNCHANGED <<caller, now, wakeAt, delivered, failedEvent, marked>>

\* The error of the INSERT is only logged.
SaveFailedPublishEvent ==
    /\ pc = "save_failed"
    /\ \E r \in DbOutcomes : failedEvent' = (r = "ok" /\ ~ ContextDead)
    /\ pc' = "returned"
    /\ UNCHANGED <<caller, now, began, wakeAt, delivered, marked>>

Mark ==
    /\ pc = "mark"
    /\ marked' \in DbOutcomes /\ pc' = "returned"
    /\ UNCHANGED <<caller, now, began, wakeAt, delivered, failedEvent>>

\* Time passes in a sleep, not beyond its end; in a call that is handed the
\* context, not once the context has ended it; and in a mark, which nothing
\* ends but the database.  At "idle" it is the calls before the announcement.
Tick ==
    /\ \/ pc = "sleep" /\ now < wakeAt
       \/ /\ now < MaxElapsed
          /\ \/ pc \in {"idle", "publish", "save_failed"} /\ ~ ContextDead
             \/ pc = "mark"
    /\ now' = now + 1
    /\ UNCHANGED <<caller, pc, began, wakeAt, delivered, failedEvent, marked>>

Next == \/ Begin \/ PublishAcked \/ PublishFails \/ Wake
        \/ SaveFailedPublishEvent \/ Mark \/ Tick

Spec == Init /\ [][Next]_vars

-----------------------------------------------------------------------------
(* Properties. *)

TypeOK ==
    /\ caller \in Callers /\ now \in Nat /\ wakeAt \in Nat
    /\ pc \in {"idle", "publish", "sleep", "save_failed", "mark", "returned"}
    /\ began \in Seq(Nat) /\ Len(began) <= MaxRetryPublish
    /\ delivered \in BOOLEAN /\ failedEvent \in BOOLEAN
    /\ marked \in DbOutcomes \union {"none"}

\* Until it has an acknowledgement, or has given up and returned, the handler of
\* a webhook outlives its own time-out by no more than the sleeps: an attempt
\* under a dead context returns at once, as does the row in failed_events, and
\* there is no sleep after the last attempt.  Nobody waits longer for a dead
\* broker.  The mark has no context: how long that takes is up to the database.
WebhookBounded ==
    caller \in Webhooks /\ pc # "mark" /\ marked = "none" =>
        now <= RequestTimeout + Pow2[MaxRetryPublish - 1] - 1

\* The back-off doubles, whoever calls: attempt i + 1 begins at least 2^(i-1)
\* seconds after attempt i, so a broker that is away for a moment is not asked
\* again at once.
BackoffKept ==
    \A i \in 1 .. Len(began) - 1 : began[i + 1] >= began[i] + Pow2[i - 1]

\* payment_service_test.go:53: a PAID outcome that could not be published is
\* recorded in failed_events, for somebody to look at (models/failed_event.go:5).
\* The code does not keep this, even with a database that never fails: the sleeps
\* of three attempts outlast a webhook's context, and the row is written under it.
FailureRecorded ==
    /\ caller \in {"webhook_paid", "reconciler"}
    /\ pc = "returned" /\ marked = "none"
    => failedEvent
=============================================================================
