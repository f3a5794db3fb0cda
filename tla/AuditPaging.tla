---------------------------- MODULE AuditPaging ----------------------------
(***************************************************************************)
(* The two queries of the audit log.  A client reads it newest first, page *)
(* by page, each page a request that carries the cursor of the one before, *)
(* while entries are inserted (not always in the order of their ids) and   *)
(* MongoDB deletes what is too old.  The daily report counts by day.       *)
(*                                                                         *)
(* Entries are told apart by _id, event and create_time; filters on actor, *)
(* order_id and user_id work like the one on event.                        *)
(***************************************************************************)
EXTENDS Integers, Sequences, FiniteSetsExt

CONSTANTS
    MaxId,          \* bound: ids of entries are 1..MaxId, as ObjectIDs sort
    Events,         \* values of field event
    DayLength,      \* moments in a day
    MaxTime,        \* bound: moments are 0..MaxTime
    TTL,            \* moments an entry is kept (90 days in the code)
    DefaultLimit,   \* page size if none is asked for (20)
    MaxLimit,       \* a larger one is not granted (100)
    Limits,         \* what clients ask for; 0 stands for nothing or nonsense
    Absent          \* a query parameter that is missing or cannot be parsed

Ids == 1 .. MaxId
Times == 0 .. MaxTime

PagingAssumption ==
    /\ MaxId \in Nat /\ MaxTime \in Nat /\ TTL \in Nat
    /\ DayLength \in Nat \ {0}
    /\ DefaultLimit \in Nat \ {0} /\ MaxLimit \in Nat \ {0}
    /\ Limits \subseteq Nat
    /\ Absent \notin Events \union Nat

VARIABLES
    now,       \* the clock
    log,       \* the entries in collection payment_audit_logs
    used,      \* ids given to an entry
    filter,    \* the query parameters of the client's walk
    cursor,    \* the cursor it sends next
    walk,      \* "off", "reading" or "done"
    pages,     \* the pages it has got: a sequence of sets of entries
    steady     \* matching entries that have been in the log since it began;
               \* not in the code

client == <<filter, cursor, walk, pages, steady>>
vars   == <<now, log, used, client>>

Entry  == [id : Ids, event : Events, time : Times]
Filter == [event : Events \union {Absent}, limit : Limits \union {0},
           from : Nat \union {Absent}, to : Nat \union {Absent}]

NoFilter == [event |-> Absent, limit |-> 0, from |-> Absent, to |-> Absent]

Init ==
    /\ now = 0 /\ log = {} /\ used = {}
    /\ filter = NoFilter /\ cursor = Absent /\ walk = "off"
    /\ pages = <<>> /\ steady = {}

-----------------------------------------------------------------------------
(* The collection. *)

\* The driver makes the id before it sends the entry, and replicas of the
\* service make theirs apart: a lower id may come later.
InsertOne ==
    \E i \in Ids \ used, e \in Events :
        /\ log'  = log \union {[id |-> i, event |-> e, time |-> now]}
        /\ used' = used \union {i}
        /\ UNCHANGED <<now, client>>

Tick ==
    /\ now < MaxTime
    /\ now' = now + 1
    /\ UNCHANGED <<log, used, client>>

\* The index on create_time deletes what is old enough, at some later time.
Expire ==
    \E d \in log :
        /\ d.time + TTL < now
        /\ log'    = log \ {d}
        /\ steady' = steady \ {d}
        /\ UNCHANGED <<now, used, filter, cursor, walk, pages>>

-----------------------------------------------------------------------------
(* ListAuditLogs. *)

\* The handler replaces what is not positive, the repository what is too large.
PageSize(n) == IF n = 0 \/ n > MaxLimit THEN DefaultLimit ELSE n

\* A date parses as the midnight at its beginning.
Midnight(day) == day * DayLength

Within(t, f) == /\ f.from # Absent => f.from <= t
                /\ f.to   # Absent => t <= f.to

Matches(d, f) == (f.event # Absent => d.event = f.event) /\ Within(d.time, f)

\* Mutants: _id $lte the cursor; the cursor is the first entry of the next page.
NotAbove(d, c) == c # Absent => d.id <= c
NextCursorOfProbe(got, limit) ==
    IF Cardinality(got) > limit
    THEN Min({d.id : d \in got}) ELSE Absent

Below(d, c) == c # Absent => d.id < c

\* Sort by _id descending, limit n.
Newest(S, n) == {d \in S : Cardinality({x \in S : x.id > d.id}) < n}

\* One entry more than the page is read, to see whether there is a next page.
\* If so the cursor is the last entry of this one.
Find(f, c) ==
    Newest({d \in log : Matches(d, f) /\ Below(d, c)}, PageSize(f.limit) + 1)

NextCursor(got, limit) ==
    IF Cardinality(got) > limit
    THEN Min({d.id : d \in Newest(got, limit)}) ELSE Absent

\* The first request of a walk, whose cursor is absent or not an ObjectID.
StartWalk(f) ==
    /\ walk = "off"
    /\ walk' = "reading" /\ filter' = f /\ cursor' = Absent
    /\ pages' = <<>>
    /\ steady' = {d \in log : Matches(d, f)}
    /\ UNCHANGED <<now, log, used>>

\* A request that fails returns no page, and the client repeats it.
ListAuditLogs ==
    LET limit == PageSize(filter.limit)
        got   == Find(filter, cursor)
    IN  /\ walk = "reading"
        /\ pages'  = Append(pages, Newest(got, limit))
        /\ cursor' = NextCursor(got, limit)
        /\ walk'   = IF cursor' = Absent THEN "done" ELSE "reading"
        /\ UNCHANGED <<now, log, used, filter, steady>>

-----------------------------------------------------------------------------
(* GetDailyReport.  It changes nothing. *)

\* Mutant: the bounds of the range are exclusive.
OpenRange(from, to) == {d \in log : from < d.time /\ d.time < to}

InRange(from, to) == {d \in log : from <= d.time /\ d.time <= to}

Day(t) == t \div DayLength

\* One item per day and event that occurs; sorting them is left out.
GetDailyReport(from, to) ==
    LET found == InRange(from, to)
    IN  {[date |-> Day(d.time), event |-> d.event,
          count |-> Cardinality({x \in found : /\ Day(x.time) = Day(d.time)
                                               /\ x.event = d.event})] :
             d \in found}

-----------------------------------------------------------------------------
\* Clients filter by the time of a whole day, or not at all.
Requests == [event : Events \union {Absent}, limit : Limits,
             from : {Absent, Midnight(1)}, to : {Absent, Midnight(1)}]

Next ==
    \/ InsertOne \/ Tick \/ Expire
    \/ \E f \in Requests : StartWalk(f)
    \/ ListAuditLogs

Spec == Init /\ [][Next]_vars

-----------------------------------------------------------------------------
(* Properties. *)

TypeOK ==
    /\ now \in Times /\ log \subseteq Entry /\ used \subseteq Ids
    /\ filter \in Filter /\ cursor \in Ids \union {Absent}
    /\ walk \in {"off", "reading", "done"}
    /\ pages \in Seq(SUBSET Entry) /\ steady \subseteq log
    /\ \A d \in log : d.id \in used
    /\ \A c, d \in log : c.id = d.id => c = d

Got == UNION {pages[i] : i \in DOMAIN pages}

\* No entry is skipped at a page boundary.  What matched when the walk began
\* and was not deleted since is on a page as soon as the cursor has passed it,
\* whatever is inserted or deleted between two requests: above the cursor,
\* below it, or in the place of the entry the cursor was taken from.
WalkComplete ==
    /\ walk = "done" => steady \subseteq Got
    /\ cursor # Absent => \A d \in steady : d.id >= cursor => d \in Got

\* No entry is repeated or out of place: each page is older, by id, than those
\* before it, and only the last one is not full.
WalkDescends ==
    /\ \A i, j \in DOMAIN pages :
          i < j => \A c \in pages[i], d \in pages[j] : c.id > d.id
    /\ \A i \in DOMAIN pages :
          /\ Cardinality(pages[i]) <= PageSize(filter.limit)
          /\ i < Len(pages) => Cardinality(pages[i]) = PageSize(filter.limit)

\* The two queries, one an aggregation and one a search, agree on every range:
\* per event the report counts what the list would show, and a day that lies
\* in the range as a whole is counted as a whole.
ReportMatchesList ==
    \A from, to \in Times :
        LET items == GetDailyReport(from, to)
            listed(e) == {d \in log : Matches(d, [event |-> e, limit |-> 0,
                                                 from |-> from, to |-> to])}
        IN  /\ \A e \in Events :
                  MapThenSumSet(LAMBDA i : i.count,
                                {i \in items : i.event = e})
                     = Cardinality(listed(e))
            /\ \A i \in items :
                  from <= Midnight(i.date) /\ Midnight(i.date + 1) - 1 <= to =>
                     i.count = Cardinality({d \in log :
                                   d.event = i.event /\ Day(d.time) = i.date})
=============================================================================
