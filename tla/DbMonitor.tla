----------------------------- MODULE DbMonitor -----------------------------
(***************************************************************************)
(* The gorm plugin behind /debug/queries.  Callbacks before and after each *)
(* statement time it, in the goroutine that runs it; what they collect is  *)
(* guarded by a mutex, and GetDebugInfo copies it out under the read lock. *)
(* A critical section is one action.  The pool statistics of sql.DB, which *)
(* the response also carries, and the text of a record are left out.       *)
(***************************************************************************)
EXTENDS Integers, SequencesExt

CONSTANTS
    Sessions,       \* goroutines that can run a statement at the same time
    Durations,      \* how long a statement can take
    slowThreshold,  \* a statement this long is slow (100 ms in the code)
    maxRecent,      \* capacity of recent (100)
    maxSlow,        \* capacity of slowQueries (50)
    MaxStatements   \* bound: statements recorded

MonitorAssumption ==
    /\ Durations \subseteq Nat /\ slowThreshold \in Nat
    /\ maxRecent \in Nat \ {0} /\ maxSlow \in Nat \ {0}
    /\ MaxStatements \in Nat

VARIABLES
    session,        \* session[s]: "idle", "running" (before the end of its
                    \* statement), or "locking" (its record is made)
    record,         \* record[s]: duration in that record, NoRecord before
    recent,         \* the last records, in the order of the lock
    slowQueries,    \* the last slow ones
    totalQueries, totalDuration, maxDuration,
    history,        \* all records in the order of the lock; not in the code
    response        \* the last answer of GetDebugInfo: a sequence of 0 or 1

statements == <<session, record>>
stats      == <<totalQueries, totalDuration, maxDuration>>
vars       == <<statements, recent, slowQueries, stats, history, response>>

NoRecord == -1

Init ==
    /\ session = [s \in Sessions |-> "idle"]
    /\ record  = [s \in Sessions |-> NoRecord]
    /\ recent = <<>> /\ slowQueries = <<>>
    /\ totalQueries = 0 /\ totalDuration = 0 /\ maxDuration = 0
    /\ history = <<>> /\ response = <<>>

\* The last n elements of q, or all of it.
LastOf(q, n) == IF Len(q) <= n THEN q ELSE SubSeq(q, Len(q) - n + 1, Len(q))

-----------------------------------------------------------------------------
Before(s) ==
    /\ session[s] = "idle"
    /\ session' = [session EXCEPT ![s] = "running"]
    /\ UNCHANGED <<record, recent, slowQueries, stats, history, response>>

\* No SQL was built for the statement: after() returns early.
AfterUnrecorded(s) ==
    /\ session[s] = "running"
    /\ session' = [session EXCEPT ![s] = "idle"]
    /\ UNCHANGED <<record, recent, slowQueries, stats, history, response>>

\* The first half of after(): the duration is taken before m.mu.Lock().
AfterMeasures(s) ==
    /\ session[s] = "running"
    /\ session' = [session EXCEPT ![s] = "locking"]
    /\ \E d \in Durations : record' = [record EXCEPT ![s] = d]
    /\ UNCHANGED <<recent, slowQueries, stats, history, response>>

\* Mutants: the list is cut only when it is too long by two; slow is more than
\* the threshold.
CutLate(q, n) == IF Len(q) <= n + 1 THEN q ELSE LastOf(q, n)
OverThreshold(d) == d > slowThreshold

Cut(q, n) == LastOf(q, n)
Slow(d) == d >= slowThreshold

\* The second half, under the lock.
AfterRecords(s) ==
    LET d == record[s] IN
    /\ session[s] = "locking" /\ Len(history) < MaxStatements
    /\ session' = [session EXCEPT ![s] = "idle"]
    /\ record'  = [record  EXCEPT ![s] = NoRecord]
    /\ totalQueries'  = totalQueries + 1
    /\ totalDuration' = totalDuration + d
    /\ maxDuration'   = IF d > maxDuration THEN d ELSE maxDuration
    /\ recent' = Cut(Append(recent, d), maxRecent)
    /\ slowQueries' = IF Slow(d) THEN Cut(Append(slowQueries, d), maxSlow)
                                 ELSE slowQueries
    /\ history' = Append(history, d)
    /\ UNCHANGED response

\* Mutant: the copy is returned as it is kept, oldest first.
OldestFirst(q) == q

NewestFirst(q) == Reverse(q)

GetDebugInfo ==
    /\ response' = <<[TotalQueries  |-> totalQueries,
                      SlowQueries   |-> Len(slowQueries),
                      MaxDuration   |-> maxDuration,
                      TotalDuration |-> totalDuration,
                      slow          |-> slowQueries,
                      recent        |-> NewestFirst(recent)]>>
    /\ UNCHANGED <<statements, recent, slowQueries, stats, history>>

Statement(s) == \/ Before(s) \/ AfterUnrecorded(s)
                \/ AfterMeasures(s) \/ AfterRecords(s)

Next == (\E s \in Sessions : Statement(s)) \/ GetDebugInfo

Spec == Init /\ [][Next]_vars

-----------------------------------------------------------------------------
(* Properties. *)

TypeOK ==
    /\ session \in [Sessions -> {"idle", "running", "locking"}]
    /\ record \in [Sessions -> Durations \union {NoRecord}]
    /\ recent \in Seq(Durations) /\ slowQueries \in Seq(Durations)
    /\ totalQueries \in Nat /\ totalDuration \in Nat /\ maxDuration \in Nat
    /\ history \in Seq(Durations)
    /\ \A s \in Sessions : session[s] = "locking" => record[s] \in Durations

\* The sums of the beginnings of q, and the slow ones in them.
Totals(q) ==
    LET t[n \in 0 .. Len(q)] == IF n = 0 THEN 0 ELSE t[n - 1] + q[n]
    IN  t

Slows(q) ==
    LET t[n \in 0 .. Len(q)] ==
            IF n = 0 THEN <<>>
            ELSE IF q[n] >= slowThreshold THEN Append(t[n - 1], q[n])
                                          ELSE t[n - 1]
    IN  t

SlowOf(q) == Slows(q)[Len(q)]

\* What a monitor that had forgotten nothing would answer after history q.
IdealAnswer(q) ==
    [TotalQueries  |-> Len(q),
     MaxDuration   |-> Max({0} \union ToSet(q)),
     TotalDuration |-> Totals(q)[Len(q)],
     slow          |-> LastOf(SlowOf(q), maxSlow),
     recent        |-> Reverse(LastOf(q, maxRecent)),
     SlowQueries   |-> Min({Len(SlowOf(q)), maxSlow})]

\* The counters and the two capped lists, which are updated one after the
\* other, never disagree: every response is the digest of one and the same
\* prefix of the statements, whatever runs beside it.  SlowQueries is the
\* length of a capped list, so it stops at maxSlow while TotalQueries goes on.
ResponseIsDigest ==
    \A i \in DOMAIN response :
        \E n \in 0 .. Len(history) :
            response[i] = IdealAnswer(SubSeq(history, 1, n))

\* The average that is shown, totalDuration / totalQueries, is no more than
\* the maximum, and no list outgrows its capacity or contains what the
\* maximum does not bound.
StatsCoherent ==
    /\ totalDuration <= maxDuration * totalQueries
    /\ Len(recent) <= maxRecent /\ Len(slowQueries) <= maxSlow
    /\ Len(slowQueries) <= totalQueries
    /\ \A i \in DOMAIN recent : recent[i] <= maxDuration
    /\ \A i \in DOMAIN slowQueries :
          slowThreshold <= slowQueries[i] /\ slowQueries[i] <= maxDuration
=============================================================================
