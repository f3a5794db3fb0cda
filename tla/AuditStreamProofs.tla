--------------------------- MODULE AuditStreamProofs ---------------------------
(***************************************************************************)
(* Proofs about AuditStream, for any number of documents, any capacity of  *)
(* the channel, and any of the documents undecodable.                      *)
(***************************************************************************)
EXTENDS AuditStream, Integers, SequenceTheorems, TLAPS

-----------------------------------------------------------------------------
(* Sequences.                                                                *)

\* A document that follows all others goes to the end.
LEMMA EnumeratesAppend ==
    ASSUME NEW q \in Seq(Nat), NEW S, Enumerates(q, S), NEW n \in Nat,
           \A d \in S : d < n
    PROVE  Enumerates(Append(q, n), S \union {n})
  <1> DEFINE r == Append(q, n)
             k == Len(q)
  <1>1. /\ k \in Nat /\ DOMAIN q = 1 .. k /\ \A i \in 1 .. k : q[i] \in Nat
        /\ DOMAIN r = 1 .. k + 1 /\ r[k + 1] = n /\ \A i \in 1 .. k : r[i] = q[i]
    BY AppendProperties, LenProperties
  <1> HIDE DEF r, k
  <1>2. ToSet(r) = S \union {n}
    <2>1. S = {q[i] : i \in 1 .. k}
      BY <1>1 DEF Enumerates, ToSet
    <2>2. {r[i] : i \in 1 .. k + 1} = {q[i] : i \in 1 .. k} \union {n}
      BY <1>1
    <2> QED
      BY <1>1, <2>1, <2>2 DEF ToSet
  <1>3. ASSUME NEW i \in 1 .. k + 1, NEW j \in 1 .. k + 1, i < j
        PROVE  r[i] < r[j]
    <2>1. i \in 1 .. k
      BY <1>1, <1>3
    <2>2. r[i] = q[i] /\ q[i] \in S
      BY <1>1, <2>1 DEF Enumerates, ToSet
    <2>3. CASE j = k + 1
      BY <1>1, <2>1, <2>2, <2>3
    <2>4. CASE j \in 1 .. k
      BY <1>1, <1>3, <2>1, <2>2, <2>4 DEF Enumerates
    <2> QED
      BY <1>1, <2>3, <2>4
  <1> QED
    BY <1>1, <1>2, <1>3 DEF Enumerates, r

\* An element on its way from one sequence to the next.
LEMMA Moves ==
    ASSUME NEW S, NEW a \in Seq(S), NEW b \in Seq(S), NEW x \in S
    PROVE  /\ a \o <<>> = a /\ <<>> \o a = a /\ <<x>> \in Seq(S)
           /\ a \o b \in Seq(S)
           /\ Append(a, x) = a \o <<x>>
           /\ (a \o <<x>>) \o b = a \o (<<x>> \o b)
           /\ a # <<>> => /\ Head(a) \in S /\ Tail(a) \in Seq(S)
                          /\ a = <<Head(a)>> \o Tail(a)
  <1>1. <<x>> \in Seq(S) /\ a \o b \in Seq(S)
    OBVIOUS
  <1>2. a \o <<>> = a /\ <<>> \o a = a
    BY ConcatEmptySeq
  <1>3. Append(a, x) = a \o <<x>>
    BY AppendIsConcat
  <1>4. (a \o <<x>>) \o b = a \o (<<x>> \o b)
    BY <1>1, ConcatAssociative
  <1>5. ASSUME a # <<>>
        PROVE  /\ Head(a) \in S /\ Tail(a) \in Seq(S)
               /\ a = <<Head(a)>> \o Tail(a)
    <2>1. Head(a) \in S /\ Tail(a) \in Seq(S) /\ Tail(a) = SubSeq(a, 2, Len(a))
      BY <1>5, HeadTailProperties, TailIsSubSeq
    <2>2. 1 \in 1 .. Len(a) /\ Len(a) \in 1 .. Len(a) /\ a[1] = Head(a)
      BY <1>5
    <2>3. SubSeq(a, 1, Len(a)) = <<a[1]>> \o SubSeq(a, 1 + 1, Len(a))
      BY <2>2, SubSeqRecursiveFirst
    <2>4. SubSeq(a, 1, Len(a)) = a
      BY SubSeqFull
    <2> QED
      BY <2>1, <2>2, <2>3, <2>4
  <1> QED
    BY <1>1, <1>2, <1>3, <1>4, <1>5
-----------------------------------------------------------------------------
(* The inductive invariant.                                                  *)

Docs == 1 .. MaxInserts

\* Nothing moves before the stream is open; the handler holds a document only
\* while it writes; what the watcher holds it has read and decoded.
Positions ==
    /\ handler # "busy" => current = <<>>
    /\ watcher = "open" => /\ first = 0 /\ last = 0
                          /\ out = <<>> /\ current = <<>> /\ events = <<>>
    /\ watcher \in {"send", "cancelled"} =>
          first < last /\ last \notin Undecodable
    /\ watcher = "cancelled" => ctxDone

IInv == TypeOK /\ Positions /\ StreamFaithful

\* No document is on its way.
LEMMA InitIInv == ASSUME StreamAssumption PROVE Init => IInv
  <1> SUFFICES ASSUME Init PROVE IInv
    OBVIOUS
  <1>1. TypeOK
    <2>1. ctxDone \in BOOLEAN
      BY Zenon DEF Init
    <2>2. Len(events) <= Cap /\ Len(current) <= 1
      BY DEF Init, StreamAssumption
    <2>3. /\ events \in Seq(1..MaxInserts) /\ current \in Seq(1..MaxInserts)
          /\ out \in Seq(1..MaxInserts)
      BY DEF Init
    <2>4. /\ inserted \in 0..MaxInserts /\ first = 0 /\ last = 0
          /\ watcher = "open" /\ errCh = "empty" /\ handler = "busy"
      BY DEF Init
    <2> QED
      BY <2>1, <2>2, <2>3, <2>4 DEF StreamAssumption, TypeOK
  <1>2. Positions
    BY DEF Init, Positions
  <1>3. InFlight = <<>> /\ Read = {}
    <2>1. out = <<>> /\ current = <<>> /\ events = <<>> /\ Held = <<>>
      BY DEF Init, Held
    <2>2. <<>> \in Seq(Nat)
      OBVIOUS
    <2>3. <<>> \o <<>> = <<>>
      BY <2>2, ConcatEmptySeq
    <2>4. first = 0 /\ last = 0
      BY DEF Init
    <2> QED
      BY <2>1, <2>3, <2>4 DEF InFlight, Read
  <1>4. StreamFaithful
    BY <1>3 DEF StreamFaithful, Enumerates, ToSet
  <1> QED
    BY <1>1, <1>2, <1>4 DEF IInv

\* The types of what is concatenated.
LEMMA FlightTypes ==
    ASSUME StreamAssumption, TypeOK, Positions
    PROVE  /\ out \in Seq(Docs) /\ current \in Seq(Docs) /\ events \in Seq(Docs)
           /\ Held \in Seq(Docs)
           /\ watcher \in {"send", "cancelled"} => last \in Docs
           /\ InFlight \in Seq(Docs)
  <1>1. out \in Seq(Docs) /\ current \in Seq(Docs) /\ events \in Seq(Docs)
    BY DEF TypeOK, Docs
  <1>2. watcher \in {"send", "cancelled"} => last \in Docs
    BY DEF StreamAssumption, TypeOK, Positions, Docs
  <1>3. Held \in Seq(Docs)
    BY <1>2 DEF Held
  <1> QED
    BY <1>1, <1>2, <1>3 DEF InFlight

\* Types and positions are kept by every step.
LEMMA ShapeStep ==
    ASSUME StreamAssumption, TypeOK, Positions, [Next]_vars
    PROVE  TypeOK' /\ Positions'
  <1> USE DEF StreamAssumption, TypeOK, Positions, HandlerSleeps, WatcherSleeps
  <1>1. CASE SaveAuditLog
    BY <1>1 DEF SaveAuditLog, stream, client
  <1>2. CASE Timeout
    BY <1>2 DEF Timeout
  <1>3. CASE OpenStream
    BY <1>3 DEF OpenStream, client
  <1>4. CASE OpenFails
    BY <1>4 DEF OpenFails, WatcherReturns
  <1>5. CASE ReadDocument
    BY <1>5 DEF ReadDocument, client
  <1>6. CASE NextFails
    BY <1>6 DEF NextFails, WatcherReturns
  <1>7. CASE Send
    <2>1. /\ watcher = "send" /\ watcher' = "next" /\ last \in Docs
          /\ UNCHANGED <<inserted, first, last, errCh, out, ctxDone>>
      BY <1>7, FlightTypes DEF Send
    <2>2. CASE HandlerSleeps
      <3>1. /\ handler' = "busy" /\ current' = <<last>> /\ events' = events
            /\ handler = "select"
        BY <1>7, <2>2 DEF Send
      <3>2. <<last>> \in Seq(Docs) /\ Len(<<last>>) = 1
        BY <2>1
      <3> QED
        BY <2>1, <3>1, <3>2 DEF Docs
    <2>3. CASE ~ HandlerSleeps
      <3>1. Len(events) < Cap /\ events' = Append(events, last)
        BY <1>7, <2>3 DEF Send, Buffer
      <3>2. events' \in Seq(Docs) /\ Len(events') = Len(events) + 1
        BY <2>1, <3>1, AppendProperties DEF Docs
      <3>3. handler' = handler /\ current' = current
        BY <1>7, <2>3 DEF Send
      <3> QED
        BY <2>1, <3>1, <3>2, <3>3 DEF Docs
    <2> QED
      BY <2>2, <2>3
  <1>8. CASE CancelSend
    BY <1>8 DEF CancelSend, SendCancelled, WatcherReturns
  <1>9. CASE SelectDone
    BY <1>9 DEF SelectDone, HandlerReturns, stream
  <1>10. CASE SelectErr
    BY <1>10 DEF SelectErr, stream
  <1>11. CASE SelectNilErr
    BY <1>11 DEF SelectNilErr, stream
  <1>12. CASE SelectEvent
    <2>1. /\ handler = "select" /\ handler' = "busy" /\ events # <<>>
          /\ current' = <<Head(events)>>
          /\ UNCHANGED <<inserted, first, last, errCh, out, ctxDone>>
      BY <1>12 DEF SelectEvent
    <2>2. /\ Head(events) \in Docs /\ Tail(events) \in Seq(Docs)
          /\ Len(Tail(events)) = Len(events) - 1
      BY <2>1, HeadTailProperties DEF Docs
    <2>3. CASE WatcherSleeps
      <3>1. /\ events' = Append(Tail(events), last) /\ watcher' = "next"
            /\ last \in Docs /\ watcher = "send"
        BY <1>12, <2>3, FlightTypes DEF SelectEvent
      <3>2. events' \in Seq(Docs) /\ Len(events') = Len(events)
        BY <2>2, <3>1, AppendProperties
      <3> QED
        BY <2>1, <2>2, <3>1, <3>2 DEF Docs
    <2>4. CASE ~ WatcherSleeps
      <3>1. events' = Tail(events) /\ watcher' = watcher
        BY <1>12, <2>4 DEF SelectEvent
      <3>2. watcher # "open"
        BY <2>1
      <3> QED
        BY <2>1, <2>2, <3>1, <3>2 DEF Docs
    <2> QED
      BY <2>3, <2>4
  <1>13. CASE WriteEvent
    BY <1>13 DEF WriteEvent, stream
  <1>14. CASE WriteError
    BY <1>14 DEF WriteError, HandlerReturns, stream
  <1>15. CASE UNCHANGED vars
    BY <1>15 DEF vars, stream, client
  <1> QED
    BY <1>1, <1>2, <1>3, <1>4, <1>5, <1>6, <1>7, <1>8, <1>9, <1>10, <1>11,
       <1>12, <1>13, <1>14, <1>15 DEF Next

-----------------------------------------------------------------------------
(* The sequence of the documents on their way.                               *)

\* All sets and sequences of documents are those of numbers.
LEMMA DocsInNat ==
    ASSUME NEW q \in Seq(Docs)
    PROVE  q \in Seq(Nat)
  <1>1. Docs \subseteq Nat
    BY DEF Docs
  <1> QED
    BY <1>1, SeqMonotonic

\* In buffer, select and handler a document only moves on.
LEMMA MovesOn ==
    ASSUME StreamAssumption, TypeOK, Positions, Send \/ SelectEvent \/ WriteEvent
    PROVE  InFlight' = InFlight
  <1> DEFINE D == Docs
             h == <<Head(events)>>
             t == Tail(events)
             l == <<last>>
  <1>1. /\ out \in Seq(D) /\ current \in Seq(D) /\ events \in Seq(D)
        /\ Held \in Seq(D)
        /\ watcher \in {"send", "cancelled"} => last \in D
    BY FlightTypes
  <1>2. CASE Send
    <2>1. /\ watcher = "send" /\ Held = l /\ Held' = <<>> /\ out' = out
          /\ last \in D /\ l \in Seq(D)
      BY <1>1, <1>2 DEF Send, Held
    <2>2. CASE HandlerSleeps
      <3>1. current = <<>> /\ events = <<>> /\ events' = <<>> /\ current' = l
        BY <1>2, <2>2 DEF Send, HandlerSleeps, Positions
      <3>2. /\ InFlight = ((out \o <<>>) \o <<>>) \o l
            /\ InFlight' = ((out \o l) \o <<>>) \o <<>>
        BY <2>1, <3>1 DEF InFlight
      <3>3. out \o l \in Seq(D)
        BY <1>1, <2>1
      <3> HIDE DEF l
      <3> QED
        BY <1>1, <2>1, <3>2, <3>3, ConcatEmptySeq
    <2>3. CASE ~ HandlerSleeps
      <3>1. events' = Append(events, last) /\ current' = current
        BY <1>2, <2>3 DEF Send, Buffer
      <3>2. events' = events \o l
        BY <1>1, <2>1, <3>1, AppendIsConcat
      <3>3. /\ InFlight = ((out \o current) \o events) \o l
            /\ InFlight' = ((out \o current) \o (events \o l)) \o <<>>
        BY <2>1, <3>1, <3>2 DEF InFlight
      <3> DEFINE o == out \o current
      <3>4. o \in Seq(D) /\ events \in Seq(D) /\ l \in Seq(D) /\ events \o l \in Seq(D)
        BY <1>1, <2>1
      <3> HIDE DEF l, o, D
      <3>5. (o \o events) \o l = o \o (events \o l)
        BY <3>4, ConcatAssociative
      <3>6. o \o (events \o l) \in Seq(D)
        BY <3>4
      <3> QED
        BY <3>3, <3>5, <3>6, ConcatEmptySeq DEF o
    <2> QED
      BY <2>2, <2>3
  <1>3. CASE SelectEvent
    <2>1. /\ events # <<>> /\ current = <<>> /\ current' = h /\ out' = out
          /\ last' = last
      BY <1>3 DEF SelectEvent, Positions
    <2>2. events = h \o t /\ h \in Seq(D) /\ t \in Seq(D)
      <3>1. Head(events) \in D
        BY <1>1, <2>1, Moves
      <3> QED
        BY <1>1, <2>1, <3>1, Moves
    <2> DEFINE oh == out \o h
    <2>3. oh \in Seq(D) /\ oh \o t \in Seq(D)
      BY <1>1, <2>2
    <2>4. (out \o <<>>) \o (h \o t) = oh \o t
      <3>1. out \in Seq(D) /\ h \in Seq(D) /\ t \in Seq(D)
        BY <1>1, <2>2
      <3> HIDE DEF h, t, D
      <3>2. out \o <<>> = out
        BY <3>1, ConcatEmptySeq
      <3>3. (out \o h) \o t = out \o (h \o t)
        BY <3>1, ConcatAssociative
      <3> QED
        BY <3>2, <3>3
    <2>5. InFlight = (oh \o t) \o Held
      <3> HIDE DEF h, t, oh
      <3> QED
        BY <2>1, <2>2, <2>4 DEF InFlight
    <2>6. CASE WatcherSleeps
      <3>1. /\ events' = Append(t, last) /\ last \in D /\ Held = l /\ Held' = <<>>
            /\ l \in Seq(D)
        BY <1>1, <1>3, <2>6 DEF SelectEvent, WatcherSleeps, Held
      <3>2. events' = t \o l /\ t \o l \in Seq(D)
        <4>1. t \in Seq(D) /\ last \in D /\ l \in Seq(D)
          BY <2>2, <3>1
        <4>2. Append(t, last) = t \o l
          <5> HIDE DEF t, D
          <5> QED
            BY <4>1, AppendIsConcat
        <4> QED
          BY <3>1, <4>1, <4>2
      <3>3. InFlight' = (oh \o (t \o l)) \o <<>>
        BY <2>1, <3>1, <3>2 DEF InFlight
      <3>4. oh \in Seq(D) /\ t \in Seq(D) /\ l \in Seq(D) /\ t \o l \in Seq(D)
        BY <2>2, <2>3, <3>1, <3>2
      <3> HIDE DEF h, t, oh, l, D
      <3>5. oh \o (t \o l) \in Seq(D) /\ (oh \o t) \o l = oh \o (t \o l)
        BY <3>4, ConcatAssociative
      <3>6. (oh \o (t \o l)) \o <<>> = oh \o (t \o l)
        BY <3>5, ConcatEmptySeq
      <3> QED
        BY <2>5, <3>1, <3>3, <3>5, <3>6
    <2>7. CASE ~ WatcherSleeps
      <3>1. events' = t /\ Held' = Held
        BY <1>3, <2>1, <2>7 DEF SelectEvent, Held
      <3> QED
        BY <2>1, <2>5, <3>1 DEF InFlight
    <2> QED
      BY <2>6, <2>7
  <1>4. CASE WriteEvent
    <2>1. /\ out' = out \o current /\ current' = <<>> /\ events' = events
          /\ Held' = Held
      BY <1>4 DEF WriteEvent, stream, Held
    <2>2. out \o current \in Seq(D)
      BY <1>1
    <2>3. (out \o current) \o <<>> = out \o current
      BY <2>2, ConcatEmptySeq
    <2> QED
      BY <2>1, <2>3 DEF InFlight
  <1> QED
    BY <1>2, <1>3, <1>4

\* A document that is read joins those on their way, if it can be decoded.
LEMMA ReadJoins ==
    ASSUME StreamAssumption, IInv, ReadDocument
    PROVE  StreamFaithful'
  <1> DEFINE n == last + 1
             f == (out \o current) \o events
  <1>1. /\ watcher = "next" /\ last' = n /\ last < inserted
        /\ watcher' = IF n \in Undecodable THEN "next" ELSE "send"
        /\ UNCHANGED <<inserted, first, events, out, current, errCh, ctxDone>>
    BY DEF ReadDocument, client
  <1>2. n \in Docs /\ n \in Nat /\ first \in Nat /\ last \in Nat /\ first <= last
    BY <1>1 DEF StreamAssumption, IInv, TypeOK, Docs
  <1>3. Enumerates(InFlight, Read)
    BY <1>1 DEF IInv, StreamFaithful
  <1>4. out \in Seq(Docs) /\ current \in Seq(Docs) /\ events \in Seq(Docs)
    BY FlightTypes DEF IInv
  <1>5. f \in Seq(Docs)
    BY <1>4
  <1>6. InFlight = f
    <2>1. InFlight = f \o <<>>
      BY <1>1 DEF InFlight, Held
    <2> HIDE DEF f
    <2> QED
      BY <1>5, <2>1, ConcatEmptySeq
  <1>7. CASE n \in Undecodable
    <2>1. Read' = Read
      BY <1>1, <1>2, <1>7 DEF Read
    <2>2. InFlight' = InFlight
      BY <1>1, <1>7 DEF InFlight, Held
    <2> QED
      BY <1>3, <2>1, <2>2 DEF StreamFaithful
  <1>8. CASE n \notin Undecodable
    <2>1. Read' = Read \union {n} /\ \A d \in Read : d < n
      BY <1>1, <1>2, <1>8 DEF Read
    <2>2. InFlight' = f \o <<n>>
      BY <1>1, <1>8 DEF InFlight, Held
    <2> HIDE DEF f
    <2>3. Append(f, n) = f \o <<n>>
      BY <1>2, <1>5, AppendIsConcat
    <2>4. Enumerates(Append(f, n), Read \union {n})
      <3>1. f \in Seq(Nat)
        BY <1>5, DocsInNat
      <3> QED
        BY <1>2, <1>3, <1>6, <2>1, <3>1, EnumeratesAppend
    <2> QED
      BY <2>1, <2>2, <2>3, <2>4 DEF StreamFaithful
  <1> QED
    BY <1>7, <1>8

\* The one document that is lost on its way is in the hands of a watcher that
\* is cancelled.
LEMMA CancelLoses ==
    ASSUME StreamAssumption, IInv, CancelSend
    PROVE  StreamFaithful'
  <1> DEFINE f == (out \o current) \o events
  <1>1. /\ watcher \in {"send", "cancelled"} /\ watcher' = "ended" /\ ctxDone
        /\ UNCHANGED <<inserted, first, last, events, current, out, ctxDone>>
    BY DEF IInv, Positions, CancelSend, SendCancelled, WatcherReturns
  <1>2. last \in Docs /\ f \in Seq(Docs)
    <2>1. last \in Docs
      BY <1>1, FlightTypes DEF IInv
    <2>2. out \in Seq(Docs) /\ current \in Seq(Docs) /\ events \in Seq(Docs)
      BY FlightTypes DEF IInv
    <2> QED
      BY <2>1, <2>2
  <1>3. Enumerates(InFlight, Read) /\ InFlight = f \o <<last>>
    BY <1>1 DEF IInv, StreamFaithful, InFlight, Held
  <1>4. InFlight' = f \o <<>> /\ Read' = Read
    BY <1>1 DEF InFlight, Held, Read
  <1> HIDE DEF f
  <1>5. InFlight' = f /\ Append(f, last) = f \o <<last>>
    BY <1>2, <1>4, ConcatEmptySeq, AppendIsConcat
  <1>6. Enumerates(Append(InFlight', last), Read')
    BY <1>3, <1>4, <1>5
  <1>7. last \in 1 .. MaxInserts /\ watcher' = "ended" /\ ctxDone'
    BY <1>1, <1>2 DEF Docs
  <1> QED
    BY <1>6, <1>7 DEF StreamFaithful

\* What StreamFaithful says stays when neither side of it changes, and a
\* watcher that has ended and a context that is done stay so.
LEMMA FaithfulKept ==
    ASSUME IInv, InFlight' = InFlight, Read' = Read,
           watcher = "ended" => watcher' = "ended", ctxDone => ctxDone'
    PROVE  StreamFaithful'
  <1>1. CASE Enumerates(InFlight, Read)
    BY <1>1 DEF StreamFaithful
  <1>2. CASE ~ Enumerates(InFlight, Read)
    <2>1. PICK d \in 1 .. MaxInserts : Enumerates(Append(InFlight, d), Read)
      BY <1>2 DEF IInv, StreamFaithful
    <2>2. Enumerates(Append(InFlight', d), Read')
      BY <2>1
    <2> QED
      BY <1>2, <2>2 DEF IInv, StreamFaithful
  <1> QED
    BY <1>1, <1>2

\* Every step keeps the invariant.
LEMMA IInvStep ==
    ASSUME StreamAssumption, IInv, [Next]_vars
    PROVE  IInv'
  <1>1. TypeOK' /\ Positions'
    BY ShapeStep DEF IInv
  <1>2. StreamFaithful'
    <2>1. CASE ReadDocument
      BY <2>1, ReadJoins
    <2>2. CASE CancelSend
      BY <2>2, CancelLoses
    <2>3. CASE Send \/ SelectEvent \/ WriteEvent
      <3>1. InFlight' = InFlight
        BY <2>3, MovesOn DEF IInv
      <3>2. /\ Read' = Read /\ ctxDone' = ctxDone
            /\ watcher = "ended" => watcher' = "ended"
        BY <2>3 DEF Send, SelectEvent, WriteEvent, WatcherSleeps, stream, Read
      <3> QED
        BY <3>1, <3>2, FaithfulKept
    <2>4. CASE OpenStream
      <3>1. /\ first = last /\ first' = last' /\ first \in Nat /\ first' \in Nat
            /\ watcher = "open" /\ watcher' = "next" /\ ctxDone' = ctxDone
            /\ UNCHANGED <<out, current, events>>
        BY <2>4 DEF OpenStream, client, IInv, TypeOK, Positions
      <3>2. InFlight' = InFlight
        BY <3>1 DEF InFlight, Held
      <3>3. Read' = Read
        BY <3>1 DEF Read
      <3> QED
        BY <3>1, <3>2, <3>3, FaithfulKept
    <2>5. CASE \/ SaveAuditLog \/ Timeout \/ OpenFails \/ NextFails \/ SelectDone
               \/ SelectErr \/ SelectNilErr \/ WriteError \/ UNCHANGED vars
      <3>1. /\ UNCHANGED <<out, current, events, first, last>>
            /\ watcher = "ended" => watcher' = "ended"
            /\ ctxDone => ctxDone'
            /\ watcher' \in {"send", "cancelled"} <=> watcher \in {"send", "cancelled"}
        BY <2>5 DEF SaveAuditLog, Timeout, OpenFails, NextFails, WatcherReturns,
                    WatcherSleeps, SelectDone, SelectErr, SelectNilErr,
                    WriteError, HandlerReturns, vars, stream, client
      <3>2. InFlight' = InFlight /\ Read' = Read
        BY <3>1 DEF InFlight, Held, Read
      <3> QED
        BY <3>1, <3>2, FaithfulKept
    <2> QED
      BY <2>1, <2>2, <2>3, <2>4, <2>5 DEF Next
  <1> QED
    BY <1>1, <1>2 DEF IInv
=============================================================================
