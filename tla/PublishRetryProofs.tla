-------------------------- MODULE PublishRetryProofs --------------------------
(***************************************************************************)
(* Proofs about PublishRetry, for any number of attempts, any time-out of  *)
(* the request and any time a call can take.                               *)
(***************************************************************************)
EXTENDS PublishRetry, Recursion

-----------------------------------------------------------------------------
(* Powers of two.                                                            *)

\* The recursive definition defines a function.
LEMMA Pow2Recurses ==
    /\ Pow2 \in [Nat -> Nat] /\ Pow2[0] = 1
    /\ \A n \in Nat : Pow2[n + 1] = 2 * Pow2[n]
  <1> DEFINE H == [i \in Nat |-> [x \in Nat |-> 2 * x]]
  <1>1. PICK f \in [Nat -> Nat] : Recurses(f, 1, H)
    <2>1. H \in [Nat -> [Nat -> Nat]]
      OBVIOUS
    <2>2. 1 \in Nat
      OBVIOUS
    <2> HIDE DEF H
    <2> QED
      BY <2>1, <2>2, RecursiveFunction, Zenon
  <1>2. f[0] = 1 /\ \A n \in Nat : f[n + 1] = 2 * f[n]
    <2>1. \A n \in Nat : \A x \in Nat : H[n + 1][x] = 2 * x
      OBVIOUS
    <2> HIDE DEF H
    <2> QED
      BY <1>1, <2>1 DEF Recurses
  <1>3. f = [n \in Nat |-> IF n = 0 THEN 1 ELSE 2 * f[n - 1]]
    <2>1. ASSUME NEW n \in Nat PROVE f[n] = IF n = 0 THEN 1 ELSE 2 * f[n - 1]
      <3>1. CASE n = 0
        BY <3>1, <1>2
      <3>2. CASE n # 0
        <4>1. n - 1 \in Nat /\ (n - 1) + 1 = n
          BY <3>2
        <4> QED
          BY <3>2, <4>1, <1>2
      <3> QED
        BY <3>1, <3>2
    <2> QED
      BY <2>1
  <1>4. Pow2 = [n \in Nat |-> IF n = 0 THEN 1 ELSE 2 * Pow2[n - 1]]
    BY <1>3 DEF Pow2
  <1>5. \A n \in Nat : Pow2[n] \in Nat
    <2> DEFINE S == {n \in Nat : Pow2[n] \in Nat}
    <2>1. 0 \in S /\ \A n \in Nat : n \in S => n + 1 \in S
      BY <1>4
    <2> HIDE DEF S
    <2>2. \A n \in Nat : n \in S
      BY <2>1, NatInSet
    <2> QED
      BY <2>2 DEF S
  <1> QED
    BY <1>4, <1>5

\* They are positive and grow.
LEMMA Pow2Grows ==
    ASSUME NEW m \in Nat, NEW n \in Nat, m <= n
    PROVE  1 <= Pow2[m] /\ Pow2[m] <= Pow2[n]
  <1> USE Pow2Recurses
  <1>1. \A i \in Nat : 1 <= Pow2[i]
    <2> DEFINE S == {i \in Nat : 1 <= Pow2[i]}
    <2>1. 0 \in S /\ \A i \in Nat : i \in S => i + 1 \in S
      OBVIOUS
    <2> HIDE DEF S
    <2>2. \A i \in Nat : i \in S
      BY <2>1, NatInSet
    <2> QED
      BY <2>2 DEF S
  <1>2. \A k \in Nat : Pow2[m] <= Pow2[m + k]
    <2> DEFINE S == {k \in Nat : Pow2[m] <= Pow2[m + k]}
    <2>1. 0 \in S
      OBVIOUS
    <2>2. ASSUME NEW k \in Nat, k \in S PROVE k + 1 \in S
      <3>1. m + (k + 1) = (m + k) + 1 /\ m + k \in Nat
        OBVIOUS
      <3>2. Pow2[(m + k) + 1] = 2 * Pow2[m + k] /\ Pow2[m + k] \in Nat
        BY <3>1
      <3> QED
        BY <2>2, <3>1, <3>2
    <2> HIDE DEF S
    <2>3. \A k \in Nat : k \in S
      BY <2>1, <2>2, NatInSet
    <2> QED
      BY <2>3 DEF S
  <1>3. n - m \in Nat /\ m + (n - m) = n
    OBVIOUS
  <1> QED
    BY <1>1, <1>2, <1>3

-----------------------------------------------------------------------------
(* The inductive invariant.                                                  *)

\* What the attempts made so far say about the clock: with i attempts begun,
\* the sleeps between them take 2^(i-1) - 1 seconds together.
Attempts ==
    LET i == Len(began) IN
    /\ pc = "idle" <=> i = 0
    /\ i > 0 => began[i] <= now /\ Pow2[i - 1] - 1 <= began[i]
    /\ pc = "sleep" =>
          /\ i < MaxRetryPublish /\ now <= wakeAt
          /\ began[i] + Wait(i) <= wakeAt /\ Pow2[i] - 1 <= wakeAt

\* No attempt of a webhook begins or goes on much later than its context ends.
Deadline ==
    LET i == Len(began) IN
    caller \in Webhooks =>
        /\ pc = "idle" => now <= RequestTimeout
        /\ pc = "sleep" => wakeAt <= RequestTimeout + Pow2[i] - 1
        /\ pc \notin {"idle", "sleep", "mark"} /\ marked = "none" =>
              now <= RequestTimeout + Pow2[i - 1] - 1

\* The mark is the last that is done.
Endings == marked # "none" => pc = "returned"

IInv == TypeOK /\ Attempts /\ Deadline /\ Endings /\ BackoffKept

\* Nothing has begun.
LEMMA InitIInv == ASSUME PublishAssumption PROVE Init => IInv
  <1> SUFFICES ASSUME Init PROVE IInv
    OBVIOUS
  <1> USE DEF PublishAssumption, Init
  <1>1. Len(began) = 0
    OBVIOUS
  <1>2. TypeOK
    <2>1. /\ delivered \in BOOLEAN /\ failedEvent \in BOOLEAN
          /\ marked \in DbOutcomes \union {"none"}
      BY Zenon
    <2>2. caller \in Callers /\ now \in Nat /\ wakeAt \in Nat /\ began \in Seq(Nat)
      OBVIOUS
    <2>3. Len(began) <= MaxRetryPublish /\ pc = "idle"
      BY <1>1
    <2> HIDE DEF Init, PublishAssumption
    <2> QED
      BY <2>1, <2>2, <2>3 DEF TypeOK
  <1>3. Attempts
    BY <1>1 DEF Attempts
  <1>4. Deadline
    BY <1>1 DEF Deadline
  <1>5. Endings
    BY DEF Endings
  <1>6. BackoffKept
    BY <1>1 DEF BackoffKept
  <1> QED
    BY <1>2, <1>3, <1>4, <1>5, <1>6 DEF IInv

\* The three powers an attempt is about.
LEMMA Powers ==
    ASSUME PublishAssumption, TypeOK, Len(began) > 0
    PROVE  LET i == Len(began)
           IN  /\ i \in Nat /\ i - 1 \in Nat /\ MaxRetryPublish - 1 \in Nat
               /\ Pow2[i - 1] \in Nat /\ 1 <= Pow2[i - 1]
               /\ Pow2[i] = 2 * Pow2[i - 1]
               /\ Pow2[i - 1] <= Pow2[MaxRetryPublish - 1]
               /\ i < MaxRetryPublish => Pow2[i] <= Pow2[MaxRetryPublish - 1]
  <1> DEFINE i == Len(began)
  <1>1. /\ i \in Nat /\ i - 1 \in Nat /\ MaxRetryPublish - 1 \in Nat
        /\ (i - 1) + 1 = i /\ i - 1 <= MaxRetryPublish - 1
        /\ i < MaxRetryPublish => i <= MaxRetryPublish - 1
    BY DEF TypeOK, PublishAssumption
  <1> HIDE DEF i
  <1>2. Pow2[i - 1] \in Nat /\ Pow2[i] = 2 * Pow2[i - 1]
    BY <1>1, Pow2Recurses
  <1>3. 1 <= Pow2[i - 1] /\ Pow2[i - 1] <= Pow2[MaxRetryPublish - 1]
    BY <1>1, Pow2Grows
  <1>4. i < MaxRetryPublish => Pow2[i] <= Pow2[MaxRetryPublish - 1]
    BY <1>1, Pow2Grows
  <1> QED
    BY <1>1, <1>2, <1>3, <1>4 DEF i

\* An attempt begins: the first one, or the one after a sleep.
LEMMA AttemptStep ==
    ASSUME PublishAssumption, IInv, Begin \/ Wake
    PROVE  IInv'
  <1> DEFINE i == Len(began)
  <1> USE DEF PublishAssumption, IInv, TypeOK
  <1>1. /\ pc' = "publish" /\ began' = Append(began, now) /\ now' = now
        /\ caller' = caller /\ wakeAt' = wakeAt /\ marked' = marked
        /\ failedEvent' = failedEvent /\ delivered' = delivered
    BY DEF Begin, Wake, Attempt
  <1>2. /\ i \in Nat /\ Len(began') = i + 1 /\ began' \in Seq(Nat)
        /\ \A j \in 1 .. i : began'[j] = began[j]
        /\ began'[i + 1] = now
    BY <1>1
  <1>3. i < MaxRetryPublish
    BY DEF Begin, Wake, Attempts
  <1>4. TypeOK'
    BY <1>1, <1>2, <1>3
  <1>5. /\ Pow2[i] \in Nat /\ 1 <= Pow2[i] /\ Pow2[i] - 1 <= now
        /\ caller \in Webhooks => now <= RequestTimeout + Pow2[i] - 1
    <2>1. Pow2[i] \in Nat /\ 1 <= Pow2[i]
      BY <1>2, Pow2Recurses, Pow2Grows
    <2>2. CASE Begin
      <3>1. pc = "idle" /\ i = 0 /\ Pow2[i] = 1
        BY <2>2, Pow2Recurses DEF Begin, Attempts
      <3>2. caller \in Webhooks => now <= RequestTimeout
        BY <3>1 DEF Deadline
      <3> HIDE DEF i
      <3> QED
        BY <2>1, <3>1, <3>2
    <2>3. CASE Wake
      <3>1. pc = "sleep" /\ now = wakeAt
        BY <2>3 DEF Wake
      <3>2. Pow2[i] - 1 <= wakeAt
        BY <3>1 DEF Attempts
      <3>3. caller \in Webhooks => wakeAt <= RequestTimeout + Pow2[i] - 1
        BY <3>1 DEF Deadline
      <3> HIDE DEF i
      <3> QED
        BY <2>1, <3>1, <3>2, <3>3
    <2> QED
      BY <2>2, <2>3
  <1>7. Attempts' /\ Deadline'
    <2>1. Len(began') - 1 = i /\ Len(began') > 0
      BY <1>2
    <2> QED
      BY <1>1, <1>2, <1>5, <2>1 DEF Attempts, Deadline
  <1>8. Endings'
    BY <1>1 DEF Begin, Wake, Endings
  <1>9. BackoffKept'
    <2> SUFFICES ASSUME NEW j \in 1 .. i
                 PROVE  began'[j + 1] >= began[j] + Pow2[j - 1]
      BY <1>2 DEF BackoffKept
    <2>1. CASE j < i
      <3>1. j \in 1 .. Len(began) - 1 /\ j + 1 \in 1 .. i
        BY <2>1, <1>2
      <3> QED
        BY <1>2, <3>1 DEF BackoffKept
    <2>2. CASE j = i
      <3>1. began[i] + Pow2[i - 1] <= now
        BY <2>2, <1>2 DEF Begin, Wake, Attempts, Wait
      <3>2. began[i] \in Nat /\ i - 1 \in Nat
        BY <2>2, <1>2
      <3>3. Pow2[i - 1] \in Nat
        BY <3>2, Pow2Recurses
      <3> QED
        BY <2>2, <1>2, <3>1, <3>2, <3>3
    <2> QED
      BY <2>1, <2>2, <1>2
  <1> QED
    BY <1>4, <1>7, <1>8, <1>9

\* Nothing else begins an attempt, and what is kept of attempts stays.
LEMMA OtherStep ==
    ASSUME PublishAssumption, IInv, pc # "idle",
           \/ PublishAcked \/ PublishFails \/ SaveFailedPublishEvent
           \/ Mark \/ Tick
    PROVE  IInv'
  <1> USE DEF PublishAssumption, IInv, TypeOK
  <1>1. began' = began /\ caller' = caller
    BY DEF PublishAcked, PublishFails, SaveFailedPublishEvent, Mark, Tick
  <1>2. BackoffKept'
    BY <1>1 DEF BackoffKept
  <1> DEFINE i == Len(began)
             p == Pow2[i - 1]
             q == Pow2[i]
  <1>3. i \in Nat /\ i > 0 /\ i <= MaxRetryPublish /\ began[i] \in Nat
    BY <1>1 DEF Attempts
  <1>4. p \in Nat /\ 1 <= p /\ q = 2 * p
    BY <1>3, Powers
  <1>5. /\ began[i] <= now /\ p - 1 <= began[i]
        /\ pc = "sleep" => /\ i < MaxRetryPublish /\ now <= wakeAt
                           /\ began[i] + p <= wakeAt /\ q - 1 <= wakeAt
    BY <1>3 DEF Attempts, Wait
  <1>6. caller \in Webhooks =>
            /\ pc = "sleep" => wakeAt <= RequestTimeout + q - 1
            /\ pc \notin {"sleep", "mark"} /\ marked = "none" =>
                  now <= RequestTimeout + p - 1
    BY <1>1 DEF Deadline
  <1> SUFFICES TypeOK' /\ Endings' /\ Attempts' /\ Deadline'
    BY <1>2
  <1> SUFFICES
        /\ TypeOK' /\ Endings' /\ pc' # "idle"
        /\ began[i] <= now'
        /\ pc' = "sleep" => /\ i < MaxRetryPublish /\ now' <= wakeAt'
                            /\ began[i] + p <= wakeAt' /\ q - 1 <= wakeAt'
        /\ caller \in Webhooks =>
            /\ pc' = "sleep" => wakeAt' <= RequestTimeout + q - 1
            /\ pc' \notin {"sleep", "mark"} /\ marked' = "none" =>
                  now' <= RequestTimeout + p - 1
    BY <1>1, <1>3, <1>5 DEF Attempts, Deadline, Wait
  <1> HIDE DEF i, p, q
  <1>7. CASE PublishAcked
    BY <1>3, <1>4, <1>5, <1>6, <1>7 DEF PublishAcked, Endings
  <1>8. CASE PublishFails
    <2>1. /\ pc = "publish" /\ now' = now /\ marked' = marked
          /\ failedEvent' = failedEvent /\ delivered' \in {delivered, TRUE}
          /\ IF TriesAgain(i) THEN pc' = "sleep" /\ wakeAt' = now + p
                              ELSE pc' = GiveUp /\ wakeAt' = wakeAt
      BY <1>8 DEF PublishFails, Wait, i, p
    <2>2. marked = "none" /\ marked' = "none" /\ Endings'
      BY <2>1, Zenon DEF Endings
    <2>3. delivered' \in BOOLEAN /\ failedEvent' \in BOOLEAN
      BY <2>1, Zenon
    <2>4. CASE TriesAgain(i)
      <3>1. /\ pc' = "sleep" /\ wakeAt' = now + p /\ wakeAt' \in Nat
            /\ i < MaxRetryPublish
        BY <1>4, <2>1, <2>4 DEF TriesAgain
      <3>2. TypeOK'
        BY <1>1, <2>1, <2>3, <3>1
      <3> QED
        BY <1>3, <1>4, <1>5, <1>6, <2>1, <2>2, <3>1, <3>2
    <2>5. CASE ~ TriesAgain(i)
      <3>1. pc' \in {"save_failed", "returned"} /\ wakeAt' = wakeAt
        BY <2>1, <2>5 DEF GiveUp
      <3>2. TypeOK'
        BY <1>1, <2>1, <2>3, <3>1
      <3> QED
        BY <1>3, <1>4, <1>5, <1>6, <2>1, <2>2, <3>1, <3>2
    <2> QED
      BY <2>4, <2>5
  <1>9. CASE SaveFailedPublishEvent
    <2>1. failedEvent' \in BOOLEAN
      BY <1>9, Zenon DEF SaveFailedPublishEvent
    <2> QED
      BY <1>3, <1>4, <1>5, <1>6, <1>9, <2>1
         DEF SaveFailedPublishEvent, Endings
  <1>10. CASE Mark
    <2>1. marked' \in DbOutcomes /\ marked' # "none"
      BY <1>10 DEF Mark
    <2> QED
      BY <1>3, <1>4, <1>5, <1>6, <1>10, <2>1 DEF Mark, Endings
  <1>11. CASE Tick
    BY <1>3, <1>4, <1>5, <1>6, <1>11 DEF Tick, Endings, ContextDead
  <1> QED
    BY <1>7, <1>8, <1>9, <1>10, <1>11

\* What comes before the first attempt takes time as well.
LEMMA IdleStep ==
    ASSUME PublishAssumption, IInv, pc = "idle", Tick
    PROVE  IInv'
  <1> USE DEF PublishAssumption, IInv, TypeOK
  <1>1. /\ pc' = "idle" /\ now' = now + 1 /\ began' = began /\ caller' = caller
        /\ wakeAt' = wakeAt /\ delivered' = delivered /\ marked' = marked
        /\ failedEvent' = failedEvent /\ ~ ContextDead
    BY DEF Tick
  <1>2. TypeOK' /\ Endings' /\ BackoffKept'
    BY <1>1 DEF Endings, BackoffKept
  <1>3. Len(began) = 0
    BY DEF Attempts
  <1>4. Attempts' /\ Deadline'
    BY <1>1, <1>3 DEF Attempts, Deadline, ContextDead
  <1> QED
    BY <1>2, <1>4

\* Every step keeps the invariant.
LEMMA IInvStep ==
    ASSUME PublishAssumption, IInv, [Next]_vars
    PROVE  IInv'
  <1>1. CASE UNCHANGED vars
    BY <1>1 DEF vars, IInv, TypeOK, Attempts, Deadline, Endings, BackoffKept,
                Wait
  <1>2. CASE pc = "idle" /\ Next
    <2>1. Begin \/ Tick
      BY <1>2 DEF Next, PublishAcked, PublishFails, Wake,
                  SaveFailedPublishEvent, Mark
    <2> QED
      BY <1>2, <2>1, AttemptStep, IdleStep
  <1>3. CASE pc # "idle" /\ Next
    BY <1>3, AttemptStep, OtherStep DEF Next
  <1> QED
    BY <1>1, <1>2, <1>3

\* The deadline in terms of the last attempt there can be.
LEMMA IInvBounds ==
    ASSUME PublishAssumption, IInv
    PROVE  WebhookBounded
  <1> DEFINE m == MaxRetryPublish - 1
             i == Len(began)
  <1>1. /\ TypeOK /\ now \in Nat /\ wakeAt \in Nat /\ RequestTimeout \in Nat
        /\ m \in Nat /\ 0 <= m
    BY DEF IInv, TypeOK, PublishAssumption
  <1> SUFFICES ASSUME caller \in Webhooks, pc # "mark", marked = "none"
               PROVE  now <= RequestTimeout + Pow2[m] - 1
    BY DEF WebhookBounded
  <1>2. Pow2[m] \in Nat /\ 1 <= Pow2[m]
    <2> HIDE DEF m
    <2> QED
      BY <1>1, Pow2Grows, Pow2Recurses
  <1>3. CASE pc = "idle"
    <2>1. now <= RequestTimeout
      BY <1>3 DEF IInv, Deadline
    <2> HIDE DEF m
    <2> QED
      BY <1>1, <1>2, <2>1
  <1>4. CASE pc # "idle"
    <2>1. i > 0
      BY <1>4 DEF IInv, TypeOK, Attempts
    <2>2. /\ i \in Nat /\ Pow2[i - 1] \in Nat /\ Pow2[i] = 2 * Pow2[i - 1]
          /\ Pow2[i - 1] <= Pow2[m]
          /\ i < MaxRetryPublish => Pow2[i] <= Pow2[m]
      BY <1>1, <2>1, Powers
    <2>3. /\ pc = "sleep" => /\ i < MaxRetryPublish /\ now <= wakeAt
                             /\ wakeAt <= RequestTimeout + Pow2[i] - 1
          /\ pc # "sleep" => now <= RequestTimeout + Pow2[i - 1] - 1
      BY <1>4 DEF IInv, Deadline, Attempts
    <2> HIDE DEF i, m
    <2> QED
      BY <1>1, <1>2, <2>2, <2>3
  <1> QED
    BY <1>3, <1>4
=============================================================================
