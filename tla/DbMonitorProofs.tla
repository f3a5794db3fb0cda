---------------------------- MODULE DbMonitorProofs ----------------------------
(***************************************************************************)
(* Proofs about DbMonitor, for any number of sessions, any capacities and  *)
(* any threshold.                                                          *)
(***************************************************************************)
EXTENDS DbMonitor, SequenceTheorems, Recursion, TLAPS

\* Cutting a list keeps some of its elements, and no more than allowed.
LEMMA CutKeeps ==
    ASSUME NEW S, NEW q \in Seq(S), NEW n \in Nat
    PROVE  /\ Cut(q, n) \in Seq(S)
           /\ Len(Cut(q, n)) <= n /\ Len(Cut(q, n)) <= Len(q)
           /\ \A i \in DOMAIN Cut(q, n) : \E j \in DOMAIN q : Cut(q, n)[i] = q[j]
  <1>1. CASE Len(q) <= n
    BY <1>1 DEF Cut, LastOf
  <1>2. CASE Len(q) > n
    <2> DEFINE a == Len(q) - n + 1
               t == SubSeq(q, a, Len(q))
    <2>1. Cut(q, n) = t
      BY <1>2 DEF Cut, LastOf
    <2>2. a \in Nat /\ a >= 1 /\ Len(q) \in Nat /\ Len(q) - a + 1 = n /\ n < Len(q)
      BY <1>2
    <2>3. \A i \in a .. Len(q) : q[i] \in S
      BY <2>2
    <2> HIDE DEF a
    <2>4. /\ t \in Seq(S)
          /\ Len(t) = IF a <= Len(q) THEN Len(q) - a + 1 ELSE 0
          /\ \A i \in 1 .. Len(q) - a + 1 : t[i] = q[a + i - 1]
      BY <2>3, <2>2, SubSeqProperties, SMTT(30)
    <2> HIDE DEF t
    <2>5. Len(t) = n /\ DOMAIN t = 1 .. n
      BY <2>2, <2>4
    <2>6. \A i \in DOMAIN t : \E j \in DOMAIN q : t[i] = q[j]
      <3> SUFFICES ASSUME NEW i \in 1 .. n
                   PROVE  \E j \in DOMAIN q : t[i] = q[j]
        BY <2>5
      <3>1. a + i - 1 \in DOMAIN q
        BY <2>2
      <3>2. t[i] = q[a + i - 1]
        BY <2>2, <2>4
      <3> QED
        BY <3>1, <3>2
    <2> QED
      BY <2>1, <2>2, <2>4, <2>5, <2>6
  <1> QED
    BY <1>1, <1>2

\* What holds of the elements of a list and of d holds after d is appended
\* and the list is cut.
LEMMA CutOfAppend ==
    ASSUME NEW low \in Nat, NEW high \in Nat, NEW n \in Nat,
           NEW D \in SUBSET Nat, NEW q \in Seq(D), NEW d \in D,
           \A i \in DOMAIN q : low <= q[i] /\ q[i] <= high,
           low <= d, d <= high
    PROVE  LET r == Cut(Append(q, d), n)
           IN  /\ r \in Seq(D) /\ Len(r) <= n /\ Len(r) <= Len(q) + 1
               /\ \A i \in DOMAIN r : low <= r[i] /\ r[i] <= high
  <1> DEFINE g == Append(q, d)
             r == Cut(g, n)
  <1>1. /\ g \in Seq(D) /\ Len(g) = Len(q) + 1
        /\ \A i \in 1 .. Len(q) : g[i] = q[i]
        /\ g[Len(q) + 1] = d
    BY AppendProperties
  <1>2. \A j \in DOMAIN g : low <= g[j] /\ g[j] <= high
    <2> SUFFICES ASSUME NEW j \in 1 .. Len(q) + 1
                 PROVE  low <= g[j] /\ g[j] <= high
      BY <1>1
    <2> HIDE DEF g
    <2>1. CASE j \in 1 .. Len(q)
      BY <2>1, <1>1
    <2>2. CASE j = Len(q) + 1
      BY <2>2, <1>1
    <2> QED
      BY <2>1, <2>2
  <1> HIDE DEF g
  <1>3. /\ r \in Seq(D) /\ Len(r) <= n /\ Len(r) <= Len(g)
        /\ \A i \in DOMAIN r : \E j \in DOMAIN g : r[i] = g[j]
    BY <1>1, CutKeeps
  <1>4. \A i \in DOMAIN r : low <= r[i] /\ r[i] <= high
    BY <1>2, <1>3
  <1> QED
    BY <1>1, <1>3, <1>4 DEF g

\* The average stays below the maximum when a statement is added to both.
LEMMA AverageBelowMax ==
    ASSUME NEW total \in Nat, NEW n \in Nat, NEW max \in Nat, NEW d \in Nat,
           NEW newMax \in Nat, total <= max * n, max <= newMax, d <= newMax
    PROVE  total + d <= newMax * (n + 1)
  <1>1. max * n <= newMax * n
    OBVIOUS
  <1>2. newMax * (n + 1) = newMax * n + newMax
    OBVIOUS
  <1>3. max * n \in Nat /\ newMax * n \in Nat
    OBVIOUS
  <1> QED
    BY <1>1, <1>2, <1>3

\* A list of durations has numbers in it.
LEMMA DurationsInNat ==
    ASSUME NEW D \in SUBSET Nat, NEW q \in Seq(D), NEW i \in DOMAIN q
    PROVE  q[i] \in Nat
  BY LenProperties, ElementOfSeq

Coherent == TypeOK /\ StatsCoherent

\* Nothing is counted yet.
LEMMA InitCoherent == ASSUME MonitorAssumption PROVE Init => Coherent
  BY DEF MonitorAssumption, Init, Coherent, TypeOK, StatsCoherent, NoRecord

\* One critical section updates both lists and all counters.
LEMMA CoherentStep ==
    ASSUME MonitorAssumption, Coherent, [Next]_vars
    PROVE  Coherent'
  <1> USE DEF MonitorAssumption, Coherent, TypeOK, stats, statements
  <1>1. ASSUME NEW s \in Sessions, Before(s) PROVE Coherent'
    BY <1>1 DEF Before, StatsCoherent
  <1>2. ASSUME NEW s \in Sessions, AfterUnrecorded(s) PROVE Coherent'
    BY <1>2 DEF AfterUnrecorded, StatsCoherent
  <1>3. ASSUME NEW s \in Sessions, AfterMeasures(s) PROVE Coherent'
    BY <1>3 DEF AfterMeasures, StatsCoherent
  <1>4. ASSUME NEW s \in Sessions, AfterRecords(s) PROVE Coherent'
    <2> DEFINE d == record[s]
    <2>1. d \in Durations /\ d \in Nat
      BY <1>4 DEF AfterRecords
    <2> HIDE DEF d
    <2>2. /\ totalQueries' = totalQueries + 1 /\ totalDuration' = totalDuration + d
          /\ maxDuration' = IF d > maxDuration THEN d ELSE maxDuration
          /\ recent' = Cut(Append(recent, d), maxRecent)
          /\ slowQueries' = IF Slow(d) THEN Cut(Append(slowQueries, d), maxSlow)
                                       ELSE slowQueries
          /\ history' = Append(history, d)
      BY <1>4 DEF AfterRecords, d
    <2>3. /\ maxDuration' \in Nat /\ maxDuration <= maxDuration'
          /\ d <= maxDuration'
      BY <2>1, <2>2
    <2>4. totalDuration' <= maxDuration' * totalQueries'
      <3>1. totalDuration <= maxDuration * totalQueries
        BY DEF StatsCoherent
      <3> QED
        BY <2>1, <2>2, <2>3, <3>1, AverageBelowMax
    <2>5. /\ recent' \in Seq(Durations) /\ Len(recent') <= maxRecent
          /\ \A i \in DOMAIN recent' : recent'[i] <= maxDuration'
      <3>1. \A i \in DOMAIN recent : 0 <= recent[i] /\ recent[i] <= maxDuration'
        <4> SUFFICES ASSUME NEW i \in DOMAIN recent
                     PROVE  0 <= recent[i] /\ recent[i] <= maxDuration'
          OBVIOUS
        <4>1. recent[i] \in Nat
          BY DurationsInNat
        <4>2. recent[i] <= maxDuration
          BY DEF StatsCoherent
        <4> QED
          BY <4>1, <4>2, <2>3
      <3>2. 0 \in Nat /\ 0 <= d /\ maxRecent \in Nat
        BY <2>1
      <3>3. LET r == Cut(Append(recent, d), maxRecent)
            IN  /\ r \in Seq(Durations) /\ Len(r) <= maxRecent
                /\ \A i \in DOMAIN r : 0 <= r[i] /\ r[i] <= maxDuration'
        BY <2>1, <2>3, <3>1, <3>2, CutOfAppend
      <3> QED
        BY <2>2, <3>3
    <2>6. /\ slowQueries' \in Seq(Durations) /\ Len(slowQueries') <= maxSlow
          /\ Len(slowQueries') <= totalQueries'
          /\ \A i \in DOMAIN slowQueries' :
                slowThreshold <= slowQueries'[i] /\ slowQueries'[i] <= maxDuration'
      <3>1. \A i \in DOMAIN slowQueries :
                slowThreshold <= slowQueries[i] /\ slowQueries[i] <= maxDuration'
        <4> SUFFICES ASSUME NEW i \in DOMAIN slowQueries
                     PROVE  /\ slowThreshold <= slowQueries[i]
                            /\ slowQueries[i] <= maxDuration'
          OBVIOUS
        <4>1. slowQueries[i] \in Nat
          BY DurationsInNat
        <4>2. slowThreshold <= slowQueries[i] /\ slowQueries[i] <= maxDuration
          BY DEF StatsCoherent
        <4> QED
          BY <4>1, <4>2, <2>3
      <3>2. CASE Slow(d)
        <4>1. slowQueries' = Cut(Append(slowQueries, d), maxSlow)
          BY <2>2, <3>2
        <4>2. slowThreshold <= d
          BY <2>1, <3>2 DEF Slow
        <4>3. /\ slowQueries' \in Seq(Durations) /\ Len(slowQueries') <= maxSlow
              /\ Len(slowQueries') <= Len(slowQueries) + 1
              /\ \A i \in DOMAIN slowQueries' :
                    slowThreshold <= slowQueries'[i] /\ slowQueries'[i] <= maxDuration'
          BY <2>1, <2>3, <3>1, <4>1, <4>2, CutOfAppend
        <4>4. Len(slowQueries') <= totalQueries'
          BY <2>2, <4>3 DEF StatsCoherent
        <4> QED
          BY <4>3, <4>4
      <3>3. CASE ~ Slow(d)
        BY <2>2, <3>1, <3>3 DEF StatsCoherent
      <3> QED
        BY <3>2, <3>3
    <2>7. session' \in [Sessions -> {"idle", "running", "locking"}]
          /\ record' \in [Sessions -> Durations \union {NoRecord}]
      BY <1>4 DEF AfterRecords, NoRecord
    <2>8. \A x \in Sessions : session'[x] = "locking" => record'[x] \in Durations
      BY <1>4 DEF AfterRecords
    <2>9. history' \in Seq(Durations) /\ totalQueries' \in Nat /\ totalDuration' \in Nat
      BY <2>1, <2>2, AppendProperties
    <2> QED
      BY <2>3, <2>4, <2>5, <2>6, <2>7, <2>8, <2>9 DEF StatsCoherent
  <1>5. CASE GetDebugInfo
    BY <1>5 DEF GetDebugInfo, StatsCoherent
  <1>6. CASE UNCHANGED vars
    BY <1>6 DEF vars, StatsCoherent
  <1> QED
    BY <1>1, <1>2, <1>3, <1>4, <1>5, <1>6 DEF Next, Statement

-----------------------------------------------------------------------------
(* What a monitor that forgets nothing would show, record by record.         *)

\* Totals exists and is what its recursive definition says.
LEMMA TotalsRecurse ==
    ASSUME NEW q \in Seq(Nat)
    PROVE  Totals(q) = [n \in 0 .. Len(q) |->
                          IF n = 0 THEN 0 ELSE Totals(q)[n - 1] + q[n]]
  <1> DEFINE H == [i \in Nat |-> [x \in Nat |->
                     IF i \in 1 .. Len(q) THEN x + q[i] ELSE x]]
  <1>1. PICK f \in [Nat -> Nat] : Recurses(f, 0, H)
    <2>1. H \in [Nat -> [Nat -> Nat]]
      <3>1. \A i \in 1 .. Len(q) : q[i] \in Nat
        OBVIOUS
      <3> QED
        BY <3>1
    <2>2. 0 \in Nat
      OBVIOUS
    <2> HIDE DEF H
    <2> QED
      BY <2>1, <2>2, RecursiveFunction, Zenon
  <1> DEFINE g == [n \in 0 .. Len(q) |-> f[n]]
  <1>2. \A n \in 0 .. Len(q) :
            f[n] = IF n = 0 THEN 0 ELSE f[n - 1] + q[n]
    <2> SUFFICES ASSUME NEW n \in 0 .. Len(q)
                 PROVE  f[n] = IF n = 0 THEN 0 ELSE f[n - 1] + q[n]
      OBVIOUS
    <2>1. CASE n = 0
      BY <1>1, <2>1 DEF Recurses
    <2>2. CASE n # 0
      <3>1. n - 1 \in Nat /\ (n - 1) + 1 = n /\ n \in 1 .. Len(q)
        BY <2>2
      <3>2. f[n] = H[n][f[n - 1]]
        <4> HIDE DEF H
        <4> QED
          BY <1>1, <3>1 DEF Recurses
      <3>3. f[n - 1] \in Nat
        BY <3>1
      <3>4. \A x \in Nat : H[n][x] = x + q[n]
        BY <3>1
      <3>5. H[n][f[n - 1]] = f[n - 1] + q[n]
        <4> HIDE DEF H
        <4> QED
          BY <3>3, <3>4
      <3> QED
        BY <2>2, <3>2, <3>5
    <2> QED
      BY <2>1, <2>2
  <1> HIDE DEF H
  <1>3. g = [n \in 0 .. Len(q) |-> IF n = 0 THEN 0 ELSE g[n - 1] + q[n]]
    <2>1. Len(q) \in Nat
      OBVIOUS
    <2>2. \A n \in 0 .. Len(q) : n # 0 => g[n - 1] = f[n - 1]
      BY <2>1
    <2> QED
      BY <1>2, <2>2
  <1> HIDE DEF g
  <1> QED
    BY <1>3 DEF Totals

\* So is Slows, and it lists durations.
LEMMA SlowsRecurse ==
    ASSUME NEW D \in SUBSET Nat, NEW q \in Seq(D)
    PROVE  /\ Slows(q) = [n \in 0 .. Len(q) |->
                IF n = 0 THEN <<>>
                ELSE IF q[n] >= slowThreshold THEN Append(Slows(q)[n - 1], q[n])
                                              ELSE Slows(q)[n - 1]]
           /\ \A n \in 0 .. Len(q) : Slows(q)[n] \in Seq(D)
  <1> DEFINE H == [i \in Nat |-> [x \in Seq(D) |->
                     IF i \in 1 .. Len(q)
                     THEN IF q[i] >= slowThreshold THEN Append(x, q[i]) ELSE x
                     ELSE x]]
  <1>1. PICK f \in [Nat -> Seq(D)] : Recurses(f, <<>>, H)
    <2>1. H \in [Nat -> [Seq(D) -> Seq(D)]]
      <3>1. \A i \in 1 .. Len(q) : q[i] \in D
        OBVIOUS
      <3>2. \A i \in 1 .. Len(q) : \A x \in Seq(D) : Append(x, q[i]) \in Seq(D)
        BY <3>1, AppendProperties
      <3> QED
        BY <3>2
    <2>2. <<>> \in Seq(D)
      OBVIOUS
    <2> HIDE DEF H
    <2> QED
      BY <2>1, <2>2, RecursiveFunction, Zenon
  <1> DEFINE g == [n \in 0 .. Len(q) |-> f[n]]
             Next1(x, n) == IF q[n] >= slowThreshold THEN Append(x, q[n]) ELSE x
  <1>2. \A n \in 0 .. Len(q) :
            f[n] = IF n = 0 THEN <<>> ELSE Next1(f[n - 1], n)
    <2> SUFFICES ASSUME NEW n \in 0 .. Len(q)
                 PROVE  f[n] = IF n = 0 THEN <<>> ELSE Next1(f[n - 1], n)
      OBVIOUS
    <2>1. CASE n = 0
      BY <1>1, <2>1 DEF Recurses
    <2>2. CASE n # 0
      <3>1. n - 1 \in Nat /\ (n - 1) + 1 = n /\ n \in 1 .. Len(q)
        BY <2>2
      <3>2. f[n] = H[n][f[n - 1]]
        <4> HIDE DEF H
        <4> QED
          BY <1>1, <3>1 DEF Recurses
      <3>3. f[n - 1] \in Seq(D)
        BY <3>1
      <3>4. H[n][f[n - 1]] = Next1(f[n - 1], n)
        BY <3>1, <3>3
      <3> QED
        BY <2>2, <3>2, <3>4
    <2> QED
      BY <2>1, <2>2
  <1> HIDE DEF H
  <1>3. g = [n \in 0 .. Len(q) |->
                IF n = 0 THEN <<>>
                ELSE IF q[n] >= slowThreshold THEN Append(g[n - 1], q[n])
                                              ELSE g[n - 1]]
    <2>1. Len(q) \in Nat
      OBVIOUS
    <2>2. \A n \in 0 .. Len(q) : n # 0 => g[n - 1] = f[n - 1]
      BY <2>1
    <2> QED
      BY <1>2, <2>2
  <1> HIDE DEF g
  <1>4. Slows(q) = [n \in 0 .. Len(q) |->
                IF n = 0 THEN <<>>
                ELSE IF q[n] >= slowThreshold THEN Append(Slows(q)[n - 1], q[n])
                                              ELSE Slows(q)[n - 1]]
    BY <1>3 DEF Slows
  <1> DEFINE t == Slows(q)
             S == {n \in Nat : n <= Len(q) => t[n] \in Seq(D)}
  <1> HIDE DEF t
  <1>5. 0 \in S
    BY <1>4 DEF t
  <1>6. ASSUME NEW n \in Nat, n \in S PROVE n + 1 \in S
    <2> SUFFICES ASSUME n + 1 <= Len(q) PROVE t[n + 1] \in Seq(D)
      OBVIOUS
    <2>1. t[n] \in Seq(D) /\ q[n + 1] \in D
      BY <1>6
    <2>2. t[n + 1] = Next1(t[n], n + 1)
      <3>1. n + 1 \in 0 .. Len(q) /\ n + 1 # 0 /\ (n + 1) - 1 = n
        OBVIOUS
      <3> QED
        BY <1>4, <3>1 DEF t
    <2>3. Append(t[n], q[n + 1]) \in Seq(D)
      BY <2>1, AppendProperties
    <2> QED
      BY <2>1, <2>2, <2>3
  <1> HIDE DEF S
  <1>7. \A n \in Nat : n \in S
    BY <1>5, <1>6, NatInSet
  <1>8. \A n \in 0 .. Len(q) : t[n] \in Seq(D)
    BY <1>7 DEF S
  <1> QED
    BY <1>4, <1>8 DEF t

\* One more record adds its duration to the total.
LEMMA TotalsOfAppend ==
    ASSUME NEW q \in Seq(Nat), NEW d \in Nat
    PROVE  Totals(Append(q, d))[Len(q) + 1] = Totals(q)[Len(q)] + d
  <1> DEFINE r == Append(q, d)
             t == Totals(q)
             u == Totals(r)
             S == {n \in Nat : n <= Len(q) => u[n] = t[n]}
  <1>1. /\ r \in Seq(Nat) /\ Len(r) = Len(q) + 1 /\ Len(q) \in Nat
        /\ \A i \in 1 .. Len(q) : r[i] = q[i]
        /\ r[Len(q) + 1] = d
    BY AppendProperties
  <1>2. t = [n \in 0 .. Len(q) |-> IF n = 0 THEN 0 ELSE t[n - 1] + q[n]]
    BY TotalsRecurse
  <1> HIDE DEF r
  <1>3. u = [n \in 0 .. Len(q) + 1 |-> IF n = 0 THEN 0 ELSE u[n - 1] + r[n]]
    BY <1>1, TotalsRecurse
  <1> HIDE DEF t, u
  <1>4. 0 \in S
    BY <1>1, <1>2, <1>3
  <1>5. ASSUME NEW n \in Nat, n \in S PROVE n + 1 \in S
    <2> SUFFICES ASSUME n + 1 <= Len(q) PROVE u[n + 1] = t[n + 1]
      OBVIOUS
    <2>1. n + 1 \in 1 .. Len(q) /\ (n + 1) - 1 = n /\ u[n] = t[n]
      BY <1>1, <1>5
    <2>2. u[n + 1] = u[n] + r[n + 1] /\ t[n + 1] = t[n] + q[n + 1]
      BY <1>1, <1>2, <1>3, <2>1
    <2> QED
      BY <1>1, <2>1, <2>2
  <1> HIDE DEF S
  <1>6. \A n \in Nat : n \in S
    BY <1>4, <1>5, NatInSet
  <1>7. u[Len(q) + 1] = u[Len(q)] + d
    BY <1>1, <1>3
  <1>8. u[Len(q)] = t[Len(q)]
    BY <1>1, <1>6 DEF S
  <1> QED
    BY <1>7, <1>8 DEF r, t, u

\* One more record is appended to the slow ones when it is slow.
LEMMA SlowsOfAppend ==
    ASSUME NEW D \in SUBSET Nat, NEW q \in Seq(D), NEW d \in D
    PROVE  SlowOf(Append(q, d)) = IF d >= slowThreshold
                                  THEN Append(SlowOf(q), d) ELSE SlowOf(q)
  <1> DEFINE r == Append(q, d)
             t == Slows(q)
             u == Slows(r)
             S == {n \in Nat : n <= Len(q) => u[n] = t[n]}
  <1>1. /\ r \in Seq(D) /\ Len(r) = Len(q) + 1 /\ Len(q) \in Nat
        /\ \A i \in 1 .. Len(q) : r[i] = q[i]
        /\ r[Len(q) + 1] = d
    BY AppendProperties
  <1>2. t = [n \in 0 .. Len(q) |->
                IF n = 0 THEN <<>>
                ELSE IF q[n] >= slowThreshold THEN Append(t[n - 1], q[n])
                                              ELSE t[n - 1]]
    BY SlowsRecurse
  <1> HIDE DEF r
  <1>3. u = [n \in 0 .. Len(q) + 1 |->
                IF n = 0 THEN <<>>
                ELSE IF r[n] >= slowThreshold THEN Append(u[n - 1], r[n])
                                              ELSE u[n - 1]]
    BY <1>1, SlowsRecurse
  <1> HIDE DEF t, u
  <1>4. 0 \in S
    BY <1>1, <1>2, <1>3
  <1>5. ASSUME NEW n \in Nat, n \in S PROVE n + 1 \in S
    <2> SUFFICES ASSUME n + 1 <= Len(q) PROVE u[n + 1] = t[n + 1]
      OBVIOUS
    <2>1. /\ n + 1 \in 1 .. Len(q) /\ (n + 1) - 1 = n /\ u[n] = t[n]
          /\ n + 1 \in 0 .. Len(q) + 1 /\ n + 1 \in 0 .. Len(q) /\ n + 1 # 0
      BY <1>1, <1>5
    <2>2. u[n + 1] = IF r[n + 1] >= slowThreshold
                     THEN Append(u[n], r[n + 1]) ELSE u[n]
      BY <1>3, <2>1
    <2>3. t[n + 1] = IF q[n + 1] >= slowThreshold
                     THEN Append(t[n], q[n + 1]) ELSE t[n]
      BY <1>2, <2>1
    <2> QED
      BY <1>1, <2>1, <2>2, <2>3
  <1> HIDE DEF S
  <1>6. \A n \in Nat : n \in S
    BY <1>4, <1>5, NatInSet
  <1>7. u[Len(q) + 1] = IF d >= slowThreshold
                        THEN Append(u[Len(q)], d) ELSE u[Len(q)]
    <2>1. Len(q) + 1 \in 0 .. Len(q) + 1 /\ Len(q) + 1 # 0
          /\ (Len(q) + 1) - 1 = Len(q)
      BY <1>1
    <2> QED
      BY <1>1, <1>3, <2>1
  <1>8. u[Len(q)] = t[Len(q)]
    BY <1>1, <1>6 DEF S
  <1> QED
    BY <1>1, <1>7, <1>8 DEF r, t, u, SlowOf

\* The elements of the last n.
LEMMA LastOfIs ==
    ASSUME NEW S, NEW q \in Seq(S), NEW n \in Nat \ {0}
    PROVE  /\ Len(q) <= n => LastOf(q, n) = q
           /\ Len(q) > n =>
                 /\ LastOf(q, n) \in Seq(S) /\ Len(LastOf(q, n)) = n
                 /\ \A k \in Nat : k = Len(q) - n =>
                       \A i \in 1 .. n : LastOf(q, n)[i] = q[k + i]
  <1>1. CASE Len(q) <= n
    BY <1>1 DEF LastOf
  <1>2. CASE Len(q) > n
    <2> DEFINE a == Len(q) - n + 1
               b == Len(q)
               t == SubSeq(q, a, b)
    <2>1. LastOf(q, n) = t
      BY <1>2 DEF LastOf
    <2>2. a \in Nat /\ a >= 1 /\ b \in Nat /\ b - a + 1 = n /\ a <= b
      BY <1>2
    <2>3. \A i \in a .. b : q[i] \in S
      BY <2>2
    <2> HIDE DEF a, b
    <2>4. /\ t \in Seq(S)
          /\ Len(t) = IF a <= b THEN b - a + 1 ELSE 0
          /\ \A i \in 1 .. b - a + 1 : t[i] = q[a + i - 1]
      BY <2>3, <2>2, SubSeqProperties, SMTT(30)
    <2> HIDE DEF t
    <2>5. \A i \in 1 .. n : t[i] = q[(Len(q) - n) + i]
      <3>1. \A i \in 1 .. n : a + i - 1 = (Len(q) - n) + i
        BY DEF a
      <3> QED
        BY <2>2, <2>4, <3>1
    <2> QED
      BY <1>2, <2>1, <2>2, <2>4, <2>5 DEF b
  <1> QED
    BY <1>1, <1>2

\* Cutting at every append keeps what cutting once at the end keeps.
LEMMA LastOfAppend ==
    ASSUME NEW S, NEW q \in Seq(S), NEW d \in S, NEW n \in Nat \ {0}
    PROVE  LastOf(Append(LastOf(q, n), d), n) = LastOf(Append(q, d), n)
  <1>1. CASE Len(q) <= n
    BY <1>1 DEF LastOf
  <1>2. CASE Len(q) > n
    <2> DEFINE k == Len(q) - n
               l == LastOf(q, n)
               m == Append(l, d)
               r == Append(q, d)
               x == LastOf(m, n)
               y == LastOf(r, n)
    <2>1. /\ k \in Nat /\ Len(q) \in Nat /\ l \in Seq(S) /\ Len(l) = n
          /\ \A i \in 1 .. n : l[i] = q[k + i]
      <3>1. k \in Nat /\ k = Len(q) - n /\ Len(q) \in Nat
        BY <1>2
      <3> HIDE DEF k
      <3> QED
        BY <1>2, <3>1, LastOfIs
    <2> HIDE DEF k, l
    <2>2. /\ m \in Seq(S) /\ Len(m) = n + 1 /\ m[n + 1] = d
          /\ \A i \in 1 .. n : m[i] = l[i]
      BY <2>1, AppendProperties
    <2>3. /\ r \in Seq(S) /\ Len(r) = Len(q) + 1 /\ r[Len(q) + 1] = d
          /\ \A i \in 1 .. Len(q) : r[i] = q[i]
      BY AppendProperties
    <2> HIDE DEF m, r
    <2>4. /\ x \in Seq(S) /\ Len(x) = n
          /\ \A i \in 1 .. n : x[i] = m[1 + i]
      <3>1. Len(m) > n /\ 1 \in Nat /\ 1 = Len(m) - n
        BY <2>2
      <3> QED
        BY <2>2, <3>1, LastOfIs
    <2>5. /\ y \in Seq(S) /\ Len(y) = n
          /\ \A i \in 1 .. n : y[i] = r[(k + 1) + i]
      <3> DEFINE kk == k + 1
      <3>1. Len(r) > n /\ kk \in Nat /\ kk = Len(r) - n
        BY <1>2, <2>1, <2>3 DEF k
      <3> HIDE DEF kk
      <3>2. /\ y \in Seq(S) /\ Len(y) = n
            /\ \A j \in Nat : j = Len(r) - n =>
                  \A i \in 1 .. n : y[i] = r[j + i]
        <4>1. r \in Seq(S) /\ Len(r) > n
          BY <2>3, <3>1
        <4> QED
          BY <4>1, LastOfIs
      <3> HIDE DEF y
      <3>3. \A i \in 1 .. n : y[i] = r[kk + i]
        BY <3>1, <3>2
      <3> QED
        BY <3>2, <3>3 DEF kk
    <2>6. ASSUME NEW i \in 1 .. n PROVE x[i] = y[i]
      <3>1. CASE i = n
        <4>1. x[i] = d
          BY <2>2, <2>4, <3>1
        <4>2. (k + 1) + i = Len(q) + 1
          BY <2>1, <3>1 DEF k
        <4> QED
          BY <2>3, <2>5, <4>1, <4>2
      <3>2. CASE i # n
        <4>1. i + 1 \in 1 .. n /\ 1 + i = i + 1 /\ k + (i + 1) = (k + 1) + i
          BY <2>1, <3>2
        <4>2. (k + 1) + i \in 1 .. Len(q)
          BY <2>1, <3>2 DEF k
        <4>3. x[i] = m[i + 1] /\ m[i + 1] = l[i + 1] /\ l[i + 1] = q[(k + 1) + i]
          BY <2>1, <2>2, <2>4, <4>1
        <4>4. y[i] = r[(k + 1) + i] /\ r[(k + 1) + i] = q[(k + 1) + i]
          BY <2>3, <2>5, <4>2
        <4> QED
          BY <4>3, <4>4
      <3> QED
        BY <3>1, <3>2
    <2> HIDE DEF x, y
    <2>7. x = y
      BY <2>4, <2>5, <2>6, SeqEqual
    <2> QED
      BY <2>7 DEF x, y, m, r, l
  <1> QED
    BY <1>1, <1>2

\* A member that no other exceeds is what Max chooses.
LEMMA MaxIs ==
    ASSUME NEW S, NEW m \in S, S \subseteq Nat, \A x \in S : x <= m
    PROVE  Max(S) = m
  <1>1. \A y \in S : m >= y
    OBVIOUS
  <1>2. \A x \in S : (\A y \in S : x >= y) => x = m
    <2> SUFFICES ASSUME NEW x \in S, \A y \in S : x >= y PROVE x = m
      OBVIOUS
    <2>1. x >= m /\ m >= x /\ x \in Nat /\ m \in Nat
      BY <1>1
    <2> QED
      BY <2>1
  <1> QED
    BY <1>1, <1>2 DEF Max

\* And Min of two numbers the smaller.
LEMMA MinOfTwo ==
    ASSUME NEW a \in Nat, NEW b \in Nat
    PROVE  Min({a, b}) = IF a <= b THEN a ELSE b
  BY DEF Min

\* How many the last n are.
LEMMA LengthOfLast ==
    ASSUME NEW S, NEW q \in Seq(S), NEW n \in Nat \ {0}
    PROVE  Len(LastOf(q, n)) = Min({Len(q), n})
  <1>1. Len(q) \in Nat /\ n \in Nat
    OBVIOUS
  <1> QED
    BY <1>1, MinOfTwo, LastOfIs

\* The beginning of a list is not changed by an append.
LEMMA BeginningKept ==
    ASSUME NEW S, NEW q \in Seq(S), NEW d \in S, NEW n \in 0 .. Len(q)
    PROVE  SubSeq(Append(q, d), 1, n) = SubSeq(q, 1, n)
  <1> DEFINE r == Append(q, d)
  <1>1. /\ r \in Seq(S) /\ Len(r) = Len(q) + 1 /\ Len(q) \in Nat
        /\ \A i \in 1 .. Len(q) : r[i] = q[i]
    BY AppendProperties
  <1> HIDE DEF r
  <1>2. SubSeq(r, 1, n) = [i \in 1 .. n |-> r[i]]
    BY <1>1
  <1>3. SubSeq(q, 1, n) = [i \in 1 .. n |-> q[i]]
    BY <1>1
  <1>4. \A i \in 1 .. n : r[i] = q[i]
    BY <1>1
  <1> QED
    BY <1>2, <1>3, <1>4 DEF r

-----------------------------------------------------------------------------
(* The refinement: at any moment the monitor holds the digest of its history. *)

\* m is the longest duration of q, 0 when there is none.
Tops(m, q) ==
    /\ m \in {0} \union ToSet(q)
    /\ \A x \in {0} \union ToSet(q) : x <= m

\* The counters and both lists are the digest of one history.
Digested ==
    /\ totalQueries = Len(history)
    /\ totalDuration = Totals(history)[Len(history)]
    /\ Tops(maxDuration, history)
    /\ slowQueries = LastOf(SlowOf(history), maxSlow)
    /\ recent = LastOf(history, maxRecent)

\* Durations are numbers.
LEMMA InNat ==
    ASSUME NEW D \in SUBSET Nat, NEW q \in Seq(D)
    PROVE  q \in Seq(Nat) /\ {0} \union ToSet(q) \subseteq Nat
  <1>1. \A i \in DOMAIN q : q[i] \in Nat
    BY DurationsInNat
  <1>2. q \in [1 .. Len(q) -> Nat] /\ Len(q) \in Nat
    BY <1>1
  <1> QED
    BY <1>1, <1>2 DEF ToSet

\* The longest of a longer list.
LEMMA TopsOfAppend ==
    ASSUME NEW D \in SUBSET Nat, NEW q \in Seq(D), NEW d \in D, NEW m \in Nat,
           Tops(m, q)
    PROVE  Tops(IF d > m THEN d ELSE m, Append(q, d))
  <1> DEFINE r == Append(q, d)
             A == {0} \union ToSet(q)
             B == {0} \union ToSet(r)
  <1>1. /\ r \in Seq(D) /\ Len(r) = Len(q) + 1 /\ Len(q) \in Nat
        /\ \A i \in 1 .. Len(q) : r[i] = q[i]
        /\ r[Len(q) + 1] = d
        /\ DOMAIN r = 1 .. Len(q) + 1 /\ DOMAIN q = 1 .. Len(q)
    BY AppendProperties
  <1> HIDE DEF r
  <1>2. ToSet(r) = ToSet(q) \union {d}
    <2>1. \A i \in DOMAIN q : i \in DOMAIN r /\ r[i] = q[i]
      BY <1>1
    <2>2. Len(q) + 1 \in DOMAIN r /\ \A i \in DOMAIN r : i \in DOMAIN q \/ i = Len(q) + 1
      BY <1>1
    <2> QED
      BY <1>1, <2>1, <2>2 DEF ToSet
  <1>3. B = A \union {d}
    BY <1>2
  <1>4. m \in A /\ (\A x \in A : x <= m)
    BY DEF Tops
  <1>5. A \subseteq Nat /\ d \in Nat
    BY InNat
  <1>6. \A x \in B : x <= IF d > m THEN d ELSE m
    <2> SUFFICES ASSUME NEW x \in B PROVE x <= IF d > m THEN d ELSE m
      OBVIOUS
    <2> HIDE DEF A, B
    <2>1. CASE x = d
      BY <1>5, <2>1
    <2>2. CASE x \in A
      <3>1. x <= m /\ x \in Nat
        BY <1>4, <1>5, <2>2
      <3> QED
        BY <1>5, <3>1
    <2> QED
      BY <1>3, <2>1, <2>2
  <1>7. (IF d > m THEN d ELSE m) \in B
    BY <1>3, <1>4
  <1> QED
    BY <1>6, <1>7 DEF Tops, r

\* An empty history has an empty digest.
LEMMA InitDigested == ASSUME MonitorAssumption PROVE Init => Digested
  <1> SUFFICES ASSUME Init PROVE Digested
    OBVIOUS
  <1>1. history = <<>> /\ history \in Seq(Nat) /\ Len(history) = 0
    BY DEF Init
  <1> DEFINE h == history
  <1> HIDE DEF h
  <1>2. Totals(h)[0] = 0
    <2>1. h \in Seq(Nat) /\ 0 \in 0 .. Len(h)
      BY <1>1 DEF h
    <2> QED
      BY <2>1, TotalsRecurse
  <1>3. Slows(h)[0] = <<>>
    <2>1. h \in Seq(Nat) /\ 0 \in 0 .. Len(h) /\ Nat \in SUBSET Nat
      BY <1>1 DEF h
    <2> QED
      BY <2>1, SlowsRecurse
  <1>4. \A n \in Nat : LastOf(<<>>, n) = <<>>
    BY DEF LastOf
  <1>5. Tops(0, <<>>)
    BY DEF Tops, ToSet
  <1> QED
    BY <1>1, <1>2, <1>3, <1>4, <1>5
       DEF Init, Digested, MonitorAssumption, SlowOf, h

\* Records enter the history and its digest together, under the lock.
LEMMA DigestedStep ==
    ASSUME MonitorAssumption, TypeOK, Digested, [Next]_vars
    PROVE  Digested'
  <1>1. CASE \E s \in Sessions : AfterRecords(s)
    <2>1. PICK s \in Sessions : AfterRecords(s)
      BY <1>1
    <2> DEFINE d == record[s]
    <2>2. /\ d \in Durations /\ Durations \in SUBSET Nat /\ d \in Nat
          /\ history \in Seq(Durations) /\ maxDuration \in Nat
          /\ maxSlow \in Nat \ {0} /\ maxRecent \in Nat \ {0}
      BY <2>1 DEF AfterRecords, TypeOK, MonitorAssumption
    <2> HIDE DEF d
    <2>3. /\ totalQueries' = totalQueries + 1 /\ totalDuration' = totalDuration + d
          /\ maxDuration' = IF d > maxDuration THEN d ELSE maxDuration
          /\ recent' = Cut(Append(recent, d), maxRecent)
          /\ slowQueries' = IF Slow(d) THEN Cut(Append(slowQueries, d), maxSlow)
                                       ELSE slowQueries
          /\ history' = Append(history, d)
      BY <2>1 DEF AfterRecords, d
    <2>4. history \in Seq(Nat) /\ Len(history') = Len(history) + 1
      BY <2>2, <2>3, AppendProperties, InNat
    <2>5. totalQueries' = Len(history')
      BY <2>3, <2>4 DEF Digested
    <2>6. totalDuration' = Totals(history')[Len(history')]
      BY <2>2, <2>3, <2>4, TotalsOfAppend DEF Digested
    <2>7. Tops(maxDuration', history')
      BY <2>2, <2>3, TopsOfAppend DEF Digested
    <2>8. recent' = LastOf(history', maxRecent)
      <3>1. LastOf(Append(LastOf(history, maxRecent), d), maxRecent)
              = LastOf(Append(history, d), maxRecent)
        BY <2>2, LastOfAppend
      <3> QED
        BY <2>3, <3>1 DEF Digested, Cut
    <2>9. slowQueries' = LastOf(SlowOf(history'), maxSlow)
      <3>1. SlowOf(history) \in Seq(Durations)
        BY <2>2, SlowsRecurse DEF SlowOf
      <3>2. SlowOf(history') = IF d >= slowThreshold
                               THEN Append(SlowOf(history), d) ELSE SlowOf(history)
        BY <2>2, <2>3, SlowsOfAppend
      <3>3. LastOf(Append(LastOf(SlowOf(history), maxSlow), d), maxSlow)
              = LastOf(Append(SlowOf(history), d), maxSlow)
        BY <2>2, <3>1, LastOfAppend
      <3> QED
        BY <2>3, <3>2, <3>3 DEF Digested, Cut, Slow
    <2> QED
      BY <2>5, <2>6, <2>7, <2>8, <2>9 DEF Digested
  <1>2. CASE UNCHANGED <<recent, slowQueries, stats, history>>
    BY <1>2 DEF Digested, stats
  <1> QED
    BY <1>1, <1>2 DEF Next, Statement, Before, AfterUnrecorded, AfterMeasures,
       GetDebugInfo, vars

\* What GetDebugInfo copies out is the ideal answer after the whole history.
LEMMA CopyIsIdeal ==
    ASSUME MonitorAssumption, TypeOK, Digested
    PROVE  [TotalQueries  |-> totalQueries,
            SlowQueries   |-> Len(slowQueries),
            MaxDuration   |-> maxDuration,
            TotalDuration |-> totalDuration,
            slow          |-> slowQueries,
            recent        |-> NewestFirst(recent)]
           = IdealAnswer(SubSeq(history, 1, Len(history)))
  <1>1. /\ history \in Seq(Durations) /\ Durations \in SUBSET Nat
        /\ maxSlow \in Nat \ {0}
    BY DEF TypeOK, MonitorAssumption
  <1>2. SubSeq(history, 1, Len(history)) = history
    BY <1>1, SubSeqFull
  <1>3. Max({0} \union ToSet(history)) = maxDuration
    <2>1. {0} \union ToSet(history) \subseteq Nat
      BY <1>1, InNat
    <2> QED
      BY <2>1, MaxIs DEF Digested, Tops
  <1>4. Len(slowQueries) = Min({Len(SlowOf(history)), maxSlow})
    <2>1. SlowOf(history) \in Seq(Durations)
      BY <1>1, SlowsRecurse DEF SlowOf
    <2> QED
      BY <1>1, <2>1, LengthOfLast DEF Digested
  <1> QED
    BY <1>2, <1>3, <1>4 DEF IdealAnswer, Digested, NewestFirst

\* A later record leaves the prefix an earlier response was the digest of.
LEMMA ResponseStep ==
    ASSUME MonitorAssumption, TypeOK, Digested, ResponseIsDigest, [Next]_vars
    PROVE  ResponseIsDigest'
  <1>0. history \in Seq(Durations) /\ Len(history) \in Nat
    BY DEF TypeOK
  <1>1. CASE \E s \in Sessions : AfterRecords(s)
    <2>1. PICK s \in Sessions : AfterRecords(s)
      BY <1>1
    <2> DEFINE d == record[s]
    <2>2. /\ d \in Durations /\ history' = Append(history, d)
          /\ response' = response
      BY <2>1 DEF AfterRecords, TypeOK
    <2> HIDE DEF d
    <2> SUFFICES ASSUME NEW i \in DOMAIN response
                 PROVE  \E n \in 0 .. Len(history') :
                            response[i] = IdealAnswer(SubSeq(history', 1, n))
      BY <2>2 DEF ResponseIsDigest
    <2>3. PICK n \in 0 .. Len(history) :
                   response[i] = IdealAnswer(SubSeq(history, 1, n))
      BY DEF ResponseIsDigest
    <2>4. SubSeq(history', 1, n) = SubSeq(history, 1, n)
      BY <1>0, <2>2, BeginningKept
    <2>5. n \in 0 .. Len(history')
      BY <1>0, <2>2, AppendProperties
    <2> QED
      BY <2>3, <2>4, <2>5
  <1>2. CASE GetDebugInfo
    <2>1. response' = <<IdealAnswer(SubSeq(history, 1, Len(history)))>>
          /\ history' = history
      BY <1>2, CopyIsIdeal DEF GetDebugInfo
    <2>2. Len(history) \in 0 .. Len(history)
      BY <1>0
    <2> QED
      BY <2>1, <2>2 DEF ResponseIsDigest
  <1>3. CASE UNCHANGED <<history, response>>
    BY <1>3 DEF ResponseIsDigest
  <1> QED
    BY <1>1, <1>2, <1>3 DEF Next, Statement, Before, AfterUnrecorded,
       AfterMeasures, vars

-----------------------------------------------------------------------------
(* The inductive invariant of the component.                                 *)

IInv == Coherent /\ Digested /\ ResponseIsDigest

\* Nothing is recorded and nobody has asked.
LEMMA InitIInv == ASSUME MonitorAssumption PROVE Init => IInv
  <1>1. Init => ResponseIsDigest
    BY DEF Init, ResponseIsDigest
  <1> QED
    BY <1>1, InitCoherent, InitDigested DEF IInv

\* Every critical section preserves it.
LEMMA IInvStep ==
    ASSUME MonitorAssumption, IInv, [Next]_vars
    PROVE  IInv'
  <1>1. TypeOK /\ Coherent /\ Digested /\ ResponseIsDigest
    BY DEF IInv, Coherent
  <1> QED
    BY <1>1, CoherentStep, DigestedStep, ResponseStep DEF IInv

\* What /debug/queries shows never contradicts itself (dbmonitor/monitor.go):
\* average and maximum, lists and capacities, slow statements and threshold.
THEOREM MonitorCoherent ==
    ASSUME MonitorAssumption
    PROVE  Spec => []StatsCoherent
  <1>1. IInv => StatsCoherent
    BY DEF IInv, Coherent
  <1>2. IInv /\ [Next]_vars => IInv'
    BY IInvStep
  <1> QED
    BY <1>1, <1>2, InitIInv, PTL DEF Spec

\* Every response is the digest of one prefix of the statements in the order
\* of the lock (dbmonitor/monitor.go, after and GetDebugInfo).
THEOREM MonitorDigests ==
    ASSUME MonitorAssumption
    PROVE  Spec => []ResponseIsDigest
  <1>1. IInv => ResponseIsDigest
    BY DEF IInv
  <1>2. IInv /\ [Next]_vars => IInv'
    BY IInvStep
  <1> QED
    BY <1>1, <1>2, InitIInv, PTL DEF Spec
=============================================================================
