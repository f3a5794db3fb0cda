---------------------------- MODULE AuditStream ----------------------------
(***************************************************************************)
(* One request to /debug/mongo/stream: the handler, which writes server    *)
(* sent events to the client, and the goroutine it starts, which watches   *)
(* the audit log.  They meet in a channel of documents, a channel of one   *)
(* error and the context of the request.                                   *)
(***************************************************************************)
EXTENDS Naturals, SequencesExt

CONSTANTS
    MaxInserts,   \* bound: documents are the numbers 1..MaxInserts, in order
    Cap,          \* capacity of channel events (32 in the code)
    Undecodable   \* documents for which stream.Decode fails

StreamAssumption ==
    /\ MaxInserts \in Nat
    /\ Cap \in Nat \ {0}
    /\ Undecodable \subseteq 1..MaxInserts

VARIABLES
    inserted,   \* documents 1..inserted are in the audit log
    first,      \* the change stream delivers documents after this one
    last,       \* the last document stream.Next has returned
    watcher,    \* where the goroutine is: "open", "next", "send" (its select),
                \* "cancelled" (it took the branch Done there) or "ended"
    events,     \* the buffer of channel events
    errCh,      \* the buffer of channel errCh: "empty", "nil" or "err"
    handler,    \* where the handler is: "busy" (not at its select), "select",
                \* "done" and "report" (it took the branch Done, or the one
                \* of errCh), "returned" or "panicked"
    current,    \* the document the handler is writing: a sequence of 0 or 1
    out,        \* the documents written to the client
    ctxDone     \* the context of the request is cancelled or has expired

stream == <<first, last, watcher>>
client == <<handler, current, out>>
vars   == <<inserted, stream, events, errCh, client, ctxDone>>

Init ==
    /\ inserted \in 0..MaxInserts
    /\ first = 0 /\ last = 0 /\ watcher = "open"
    /\ events = <<>> /\ errCh = "empty"
    /\ handler = "busy" /\ current = <<>> /\ out = <<>>
    /\ ctxDone = FALSE

\* A select with no branch ready sleeps.  What wakes it decides the branch,
\* whatever else becomes ready before it runs again.
HandlerSleeps ==
    handler = "select" /\ events = <<>> /\ errCh = "empty" /\ ~ ctxDone
WatcherSleeps == watcher = "send" /\ Len(events) = Cap /\ ~ ctxDone

-----------------------------------------------------------------------------
(* Around the request. *)

\* What is inserted after the request has ended cannot reach it any more.
SaveAuditLog ==
    /\ inserted < MaxInserts /\ ~ ctxDone
    /\ inserted' = inserted + 1
    /\ UNCHANGED <<stream, events, errCh, client, ctxDone>>

\* RequestLogger gives the request two seconds.  Its context descends from
\* context.Background(), so a client that goes away does not cancel it.
Timeout ==
    /\ ~ ctxDone
    /\ ctxDone' = TRUE
    /\ handler' = IF HandlerSleeps THEN "done" ELSE handler
    /\ watcher' = IF WatcherSleeps THEN "cancelled" ELSE watcher
    /\ UNCHANGED <<inserted, first, last, events, errCh, current, out>>

-----------------------------------------------------------------------------
(* WatchInsertStream, in the goroutine. *)

\* The goroutine ends, and what it returns goes through errCh.
WatcherReturns(err) ==
    /\ watcher' = "ended"
    /\ IF HandlerSleeps THEN handler' = "report" /\ UNCHANGED errCh
                        ELSE errCh' = err /\ UNCHANGED handler
    /\ UNCHANGED <<inserted, first, last, events, current, out, ctxDone>>

OpenStream ==
    /\ watcher = "open" /\ ~ ctxDone
    /\ watcher' = "next"
    /\ first' = inserted /\ last' = inserted
    /\ UNCHANGED <<inserted, events, errCh, client, ctxDone>>

\* No replica set, no MongoDB (the no-op repository), or a dead context.
OpenFails ==
    /\ watcher = "open"
    /\ WatcherReturns("err")

\* The driver may have fetched the document before the context was done.
ReadDocument ==
    /\ watcher = "next" /\ last < inserted
    /\ last' = last + 1
    /\ watcher' = IF last' \in Undecodable THEN "next" ELSE "send"
    /\ UNCHANGED <<inserted, first, events, errCh, client, ctxDone>>

\* stream.Next is false, because the server failed or the context is done: in
\* both cases stream.Err() has an error.
NextFails ==
    /\ watcher = "next"
    /\ WatcherReturns("err")

\* Mutants: a send that drops the document when the buffer is full; a channel
\* one place too large.
BufferOrDrop ==
    events' = IF Len(events) < Cap THEN Append(events, last) ELSE events
BufferOneMore ==
    /\ Len(events) <= Cap
    /\ events' = Append(events, last)

\* The channel is full while Cap documents wait in it.
Buffer ==
    /\ Len(events) < Cap
    /\ events' = Append(events, last)

Send ==
    /\ watcher = "send"
    /\ IF HandlerSleeps
       THEN handler' = "busy" /\ current' = <<last>> /\ UNCHANGED events
       ELSE Buffer /\ UNCHANGED <<handler, current>>
    /\ watcher' = "next"
    /\ UNCHANGED <<inserted, first, last, errCh, out, ctxDone>>

\* Mutant: a plain send in place of the select.
NotCancellable == FALSE

SendCancelled == watcher = "cancelled" \/ (watcher = "send" /\ ctxDone)

CancelSend ==
    /\ SendCancelled
    /\ WatcherReturns("nil")

-----------------------------------------------------------------------------
(* HandleAuditLogStream: the branches of its select, and what follows them. *)

\* The handler returns, and RequestLogger's deferred cancel() runs.
HandlerReturns ==
    /\ handler' = "returned"
    /\ ctxDone' = TRUE
    /\ UNCHANGED <<inserted, stream, events, errCh, current>>

SelectDone ==
    /\ handler = "done" \/ (handler = "select" /\ ctxDone)
    /\ HandlerReturns
    /\ UNCHANGED out

SelectErr ==
    /\ handler = "select" /\ errCh = "err"
    /\ errCh'   = "empty"
    /\ handler' = "report"
    /\ UNCHANGED <<inserted, stream, events, current, out, ctxDone>>

\* err.Error() of a nil error panics; the deferred cancel() runs all the same,
\* and gin's recovery ends the request.
SelectNilErr ==
    /\ handler = "select" /\ errCh = "nil"
    /\ errCh'   = "empty"
    /\ handler' = "panicked"
    /\ ctxDone' = TRUE
    /\ UNCHANGED <<inserted, stream, events, current, out>>

\* A sender that sleeps at the full channel is served by the same receive.
SelectEvent ==
    /\ handler = "select" /\ events # <<>>
    /\ current' = <<Head(events)>>
    /\ handler' = "busy"
    /\ IF WatcherSleeps
       THEN events' = Append(Tail(events), last) /\ watcher' = "next"
       ELSE events' = Tail(events) /\ UNCHANGED watcher
    /\ UNCHANGED <<inserted, first, last, errCh, out, ctxDone>>

WriteEvent ==
    /\ handler = "busy"
    /\ out'     = out \o current
    /\ current' = <<>>
    /\ handler' = "select"
    /\ UNCHANGED <<inserted, stream, events, errCh, ctxDone>>

WriteError ==
    /\ handler = "report"
    /\ HandlerReturns
    /\ UNCHANGED out

-----------------------------------------------------------------------------
Next ==
    \/ SaveAuditLog \/ Timeout
    \/ OpenStream \/ OpenFails \/ ReadDocument \/ NextFails
    \/ Send \/ CancelSend
    \/ SelectDone \/ SelectErr \/ SelectNilErr \/ SelectEvent
    \/ WriteEvent \/ WriteError

Spec == Init /\ [][Next]_vars

\* The timer fires, MongoDB notices a dead context, and goroutines that can go
\* on do.  Of the branches of a select that are ready Go takes any: no branch
\* has fairness of its own.
OpenEnds    == OpenStream \/ OpenFails
NextEnds    == ReadDocument \/ (ctxDone /\ NextFails)
SendEnds    == Send \/ CancelSend
HandlerStep == \/ SelectDone \/ SelectErr \/ SelectNilErr \/ SelectEvent
               \/ WriteEvent \/ WriteError

Fairness ==
    /\ WF_vars(Timeout)
    /\ WF_vars(OpenEnds) /\ WF_vars(NextEnds) /\ WF_vars(SendEnds)
    /\ WF_vars(HandlerStep)

FairSpec == Spec /\ Fairness

-----------------------------------------------------------------------------
(* Properties. *)

TypeOK ==
    /\ inserted \in 0..MaxInserts
    /\ first \in 0..inserted /\ last \in first..inserted
    /\ watcher \in {"open", "next", "send", "cancelled", "ended"}
    /\ events \in Seq(1..MaxInserts) /\ Len(events) <= Cap
    /\ errCh \in {"empty", "nil", "err"}
    /\ handler \in {"busy", "select", "done", "report", "returned",
                   "panicked"}
    /\ current \in Seq(1..MaxInserts) /\ Len(current) <= 1
    /\ out \in Seq(1..MaxInserts)
    /\ ctxDone \in BOOLEAN

\* The documents the watcher has read and could decode.
Read == (first + 1 .. last) \ Undecodable

\* Where they are on their way to the client.
Held     == IF watcher \in {"send", "cancelled"} THEN <<last>> ELSE <<>>
InFlight == out \o current \o events \o Held

\* Sequence q has the numbers in S, each once and in their order.
Enumerates(q, S) ==
    ToSet(q) = S /\ \A i, j \in DOMAIN q : i < j => q[i] < q[j]

\* Through buffer, back-pressure and select, the client sees the documents
\* inserted since the stream was opened in their order, each once and with no
\* gap.  The end of the request cuts the sequence off: the document in the
\* watcher's hands and those still in the buffer are not written.
StreamFaithful ==
    \/ Enumerates(InFlight, Read)
    \/ /\ watcher = "ended" /\ ctxDone
       /\ \E d \in 1..MaxInserts : Enumerates(Append(InFlight, d), Read)

\* What the handler takes from errCh is an error it can pass on before it ends,
\* as the comment at handler.go:295 has it.  The code does not keep this: a
\* watcher cancelled in its select returns nil (audit_log.go:173).
NeverPanics == handler # "panicked"

\* No goroutine is left behind: handler and watcher both end, also when the
\* watcher waits at a full channel that nobody reads any more.
BothEnd == <>[](watcher = "ended" /\ handler \in {"returned", "panicked"})

=============================================================================
