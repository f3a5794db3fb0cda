---------------------------- MODULE AuditPagingProofs ----------------------------
(***************************************************************************)
(* Proofs about AuditPaging, for any number of ids, any page sizes and any *)
(* order of insertions and deletions: a walk through the audit log skips   *)
(* nothing and repeats nothing, and the daily report agrees with it.       *)
(***************************************************************************)
EXTENDS AuditPaging, FiniteSetTheorems, Recursion

-----------------------------------------------------------------------------
(* Extreme elements of finite sets, from the well-foundedness of strict      *)
(* inclusion on them.                                                        *)

\* A function on a finite set takes a largest value.
LEMMA LargestExists ==
    ASSUME NEW A, IsFiniteSet(A), A # {}, NEW f \in [A -> Int]
    PROVE  \E d \in A : \A e \in A : f[e] <= f[d]
  <1> DEFINE Over(d) == {e \in A : f[e] > f[d]}
             T == {Over(d) : d \in A}
  <1>1. T # {} /\ T \subseteq FiniteSubsetsOf(A)
    <2>1. \A d \in A : Over(d) \in FiniteSubsetsOf(A)
      BY FS_FiniteSubsetsOfFinite
    <2> HIDE DEF Over
    <2> QED
      BY <2>1
  <1>2. IsWellFoundedOn(StrictSubsetOrdering(A), FiniteSubsetsOf(A))
    BY FS_StrictSubsetOrderingWellFounded
  <1>3. PICK x \in T : \A y \in T : ~ (<<y, x>> \in StrictSubsetOrdering(A))
    <2> HIDE DEF T
    <2> QED
      BY <1>1, <1>2, WFMin
  <1>4. PICK d \in A : x = Over(d)
    OBVIOUS
  <1>5. ASSUME NEW e \in A, f[e] > f[d] PROVE FALSE
    <2>1. Over(e) \subseteq Over(d)
      BY <1>5
    <2>2. e \in Over(d) /\ e \notin Over(e)
      BY <1>5
    <2>3. <<Over(e), Over(d)>> \in StrictSubsetOrdering(A)
      BY <2>1, <2>2 DEF StrictSubsetOrdering
    <2> QED
      BY <1>3, <1>4, <2>3
  <1> QED
    BY <1>5

Numbered(S) == /\ IsFiniteSet(S) /\ \A d \in S : d.id \in Int
               /\ \A c, d \in S : c.id = d.id => c = d

\* Finitely many entries, of which one is the newest and one the oldest.
LEMMA NewestAndOldest ==
    ASSUME NEW S, Numbered(S), S # {}
    PROVE  /\ \E d \in S : \A e \in S : e.id <= d.id
           /\ \E d \in S : \A e \in S : d.id <= e.id
  <1>1. \E d \in S : \A e \in S : e.id <= d.id
    <2> DEFINE f == [d \in S |-> d.id]
    <2>1. f \in [S -> Int]
      BY DEF Numbered
    <2>2. PICK d \in S : \A e \in S : f[e] <= f[d]
      <3> HIDE DEF f
      <3> QED
        BY <2>1, LargestExists DEF Numbered
    <2> QED
      BY <2>2
  <1>2. \E d \in S : \A e \in S : d.id <= e.id
    <2> DEFINE f == [d \in S |-> -d.id]
    <2>1. f \in [S -> Int]
      BY DEF Numbered
    <2>2. PICK d \in S : \A e \in S : f[e] <= f[d]
      <3> HIDE DEF f
      <3> QED
        BY <2>1, LargestExists DEF Numbered
    <2>3. \A e \in S : -e.id <= -d.id
      BY <2>2
    <2> QED
      BY <2>3 DEF Numbered
  <1> QED
    BY <1>1, <1>2

-----------------------------------------------------------------------------
(* The limit of a query. *)

Above(S, d) == {x \in S : x.id > d.id}

\* Newest in terms of Above, and a bound on Above.
LEMMA NewestFacts ==
    ASSUME NEW S, Numbered(S), NEW n \in Nat
    PROVE  /\ Newest(S, n) \subseteq S
           /\ IsFiniteSet(Newest(S, n))
           /\ Cardinality(Newest(S, n)) \in Nat
           /\ \A d \in S : /\ IsFiniteSet(Above(S, d))
                           /\ Cardinality(Above(S, d)) \in Nat
                           /\ d \in Newest(S, n) <=> Cardinality(Above(S, d)) < n
  BY FS_Subset, FS_CardinalityType DEF Numbered, Newest, Above

\* An entry newer than one that is returned is returned.
LEMMA NewestIsUpward ==
    ASSUME NEW S, Numbered(S), NEW n \in Nat,
           NEW d \in Newest(S, n), NEW x \in S, x.id > d.id
    PROVE  x \in Newest(S, n)
  <1>1. d \in S
    BY NewestFacts
  <1>2. Above(S, x) \subseteq Above(S, d)
    BY <1>1 DEF Above, Numbered
  <1>3. Cardinality(Above(S, x)) <= Cardinality(Above(S, d))
    BY <1>1, <1>2, NewestFacts, FS_Subset
  <1> QED
    BY <1>1, <1>3, NewestFacts

\* A query that leaves entries out returns as many as it may.
LEMMA NewestIsFull ==
    ASSUME NEW S, Numbered(S), NEW n \in Nat, Newest(S, n) # S
    PROVE  Cardinality(Newest(S, n)) >= n
  <1> DEFINE rest == S \ Newest(S, n)
  <1>1. Numbered(rest) /\ rest # {}
    BY NewestFacts, FS_Difference DEF Numbered
  <1>2. PICK d \in rest : \A e \in rest : e.id <= d.id
    BY <1>1, NewestAndOldest
  <1>3. Above(S, d) \subseteq Newest(S, n)
    BY <1>2 DEF Above, Numbered
  <1>4. Cardinality(Above(S, d)) <= Cardinality(Newest(S, n))
    BY <1>3, NewestFacts, FS_Subset
  <1> QED
    BY <1>2, <1>4, NewestFacts

\* No query returns more than it may.
LEMMA NewestIsLimited ==
    ASSUME NEW S, Numbered(S), NEW n \in Nat
    PROVE  Cardinality(Newest(S, n)) <= n
  <1> DEFINE N == Newest(S, n)
  <1>1. CASE N = {}
    BY <1>1, FS_EmptySet
  <1>2. CASE N # {}
    <2>1. Numbered(N)
      BY NewestFacts DEF Numbered
    <2>2. PICK d \in N : \A e \in N : d.id <= e.id
      BY <1>2, <2>1, NewestAndOldest
    <2>3. d \in S /\ N \subseteq Above(S, d) \union {d}
      <3>1. d \in S /\ N \subseteq S
        BY <2>2, NewestFacts
      <3>2. ASSUME NEW e \in N PROVE e \in Above(S, d) \union {d}
        <4>1. e \in S /\ d.id <= e.id /\ d.id \in Int /\ e.id \in Int
          BY <2>2, <3>1 DEF Numbered
        <4>2. e.id = d.id => e = d
          BY <3>1, <4>1 DEF Numbered
        <4> QED
          BY <4>1, <4>2 DEF Above
      <3> QED
        BY <3>1, <3>2
    <2>4. Cardinality(N) <= Cardinality(Above(S, d)) + 1
      <3> DEFINE up == Above(S, d)
      <3>0. IsFiniteSet(up) /\ Cardinality(up) \in Nat
        <4>1. d \in S
          BY <2>3
        <4> QED
          BY <4>1, NewestFacts
      <3> HIDE DEF up
      <3>1. /\ IsFiniteSet(up \union {d})
            /\ Cardinality(up \union {d}) <= Cardinality(up) + 1
        <4>1. /\ IsFiniteSet(up \union {d})
              /\ Cardinality(up \union {d}) =
                    IF d \in up THEN Cardinality(up) ELSE Cardinality(up) + 1
          BY <3>0, FS_AddElement, ZenonT(20)
        <4> QED
          BY <3>0, <4>1
      <3>2. Cardinality(N) <= Cardinality(up \union {d})
        BY <2>3, <3>1, FS_Subset DEF up
      <3>3. Cardinality(N) \in Nat /\ Cardinality(up \union {d}) \in Nat
        BY <3>1, NewestFacts, FS_CardinalityType
      <3>4. Cardinality(N) <= Cardinality(up) + 1
        BY <3>0, <3>1, <3>2, <3>3
      <3> QED
        BY <3>4 DEF up
    <2>5. Cardinality(Above(S, d)) < n
      BY <2>2, <2>3, NewestFacts
    <2> QED
      BY <2>3, <2>4, <2>5, NewestFacts
  <1> QED
    BY <1>1, <1>2

\* The page cut from a larger answer is the page a smaller query would return.
LEMMA NewestOfNewest ==
    ASSUME NEW S, Numbered(S), NEW n \in Nat
    PROVE  Newest(Newest(S, n + 1), n) = Newest(S, n)
  <1> DEFINE N == Newest(S, n + 1)
  <1>1. n + 1 \in Nat /\ N \subseteq S /\ Numbered(N)
    BY NewestFacts DEF Numbered
  <1>2. Newest(S, n) \subseteq N
    BY <1>1, NewestFacts
  <1>3. ASSUME NEW d \in N PROVE Above(N, d) = Above(S, d)
    BY <1>1, <1>3, NewestIsUpward DEF Above
  <1>4. ASSUME NEW d \in N PROVE d \in Newest(N, n) <=> d \in Newest(S, n)
    BY <1>1, <1>3, <1>4 DEF Newest, Above
  <1>5. Newest(N, n) \subseteq N
    BY <1>1, NewestFacts
  <1> QED
    BY <1>2, <1>4, <1>5

\* One request, as a function of the entries below its cursor: the page is all
\* that is left, or full with the rest below the next cursor.
LEMMA PageFacts ==
    ASSUME PagingAssumption, NEW S \in SUBSET Entry, Numbered(S),
           NEW limit \in Nat \ {0}
    PROVE  LET got  == Newest(S, limit + 1)
               page == Newest(got, limit)
               c    == NextCursor(got, limit)
           IN  /\ page \subseteq S /\ Cardinality(page) <= limit
               /\ c = Absent => page = S
               /\ c # Absent =>
                     /\ c \in Ids /\ Cardinality(page) = limit
                     /\ \A d \in page : d.id >= c
                     /\ \A d \in S : d.id >= c => d \in page
  <1> DEFINE got  == Newest(S, limit + 1)
             page == Newest(got, limit)
             c    == NextCursor(got, limit)
  <1>1. /\ page = Newest(S, limit) /\ limit \in Nat /\ limit + 1 \in Nat
        /\ got \subseteq S /\ IsFiniteSet(got) /\ Cardinality(got) \in Nat
        /\ IsFiniteSet(S) /\ Cardinality(S) \in Nat
    BY NewestOfNewest, NewestFacts, FS_CardinalityType DEF Numbered
  <1>2. /\ page \subseteq S /\ IsFiniteSet(page)
        /\ Cardinality(page) \in Nat /\ Cardinality(page) <= limit
    BY <1>1, NewestFacts, NewestIsLimited
  <1>3. CASE Cardinality(got) <= limit
    <2>1. c = Absent
      BY <1>1, <1>3 DEF NextCursor
    <2>2. got = S
      BY <1>1, <1>3, NewestIsFull
    <2>3. page = S
      <3> SUFFICES ASSUME page # S PROVE FALSE
        OBVIOUS
      <3>1. Cardinality(page) >= limit
        BY <1>1, NewestIsFull
      <3>2. Cardinality(page) = Cardinality(S)
        BY <1>1, <1>2, <1>3, <2>2, <3>1, FS_Subset
      <3> QED
        BY <1>1, <1>2, <3>2, FS_Subset
    <2> QED
      BY <1>2, <2>1, <2>3
  <1>4. CASE Cardinality(got) > limit
    <2>1. Cardinality(S) > limit
      BY <1>1, <1>4, FS_Subset
    <2>2. Cardinality(page) = limit
      <3>1. page # S
        BY <1>1, <1>2, <2>1
      <3> QED
        BY <1>1, <1>2, <3>1, NewestIsFull
    <2>3. Numbered(page) /\ page # {}
      BY <1>2, <2>2, FS_EmptySet DEF Numbered
    <2>4. PICK d \in page : \A e \in page : d.id <= e.id
      BY <2>3, NewestAndOldest
    <2>5. d \in S /\ d.id \in Ids
      BY <1>2, <2>4 DEF Entry
    <2>6. c = d.id
      <3>1. c = Min({x.id : x \in page})
        BY <1>1, <1>4 DEF NextCursor
      <3>2. \A i \in {x.id : x \in page} : d.id <= i
        BY <2>4
      <3>3. \A i \in {x.id : x \in page} : i \in Int
        BY <1>2 DEF Entry, Ids
      <3>4. ASSUME NEW i \in {x.id : x \in page},
                   \A j \in {x.id : x \in page} : i <= j
            PROVE  i = d.id
        BY <2>4, <3>2, <3>3, <3>4
      <3> QED
        BY <2>4, <3>1, <3>2, <3>4 DEF Min
    <2>7. c # Absent
      BY <2>5, <2>6 DEF PagingAssumption, Ids
    <2>8. ASSUME NEW x \in S, x.id >= c PROVE x \in page
      <3>1. x.id \in Int /\ d.id \in Int
        BY <2>5 DEF Numbered
      <3>2. CASE x.id = d.id
        BY <2>4, <2>5, <3>2 DEF Numbered
      <3>3. CASE x.id > d.id
        BY <1>1, <2>4, <3>3, NewestIsUpward
      <3> QED
        BY <2>6, <2>8, <3>1, <3>2, <3>3
    <2>9. \A x \in page : x.id >= c
      BY <1>2, <2>4, <2>5, <2>6 DEF Entry, Ids
    <2> HIDE DEF c, page, got
    <2> QED
      BY <1>2, <2>2, <2>5, <2>6, <2>7, <2>8, <2>9 DEF c, page, got
  <1> QED
    BY <1>1, <1>3, <1>4

-----------------------------------------------------------------------------
(* The walk. *)

TypeInv ==
    /\ now \in Times /\ log \subseteq Entry /\ IsFiniteSet(log)
    /\ used \subseteq Ids /\ \A d \in log : d.id \in used
    /\ \A c, d \in log : c.id = d.id => c = d
    /\ filter \in Filter /\ filter.limit \in Nat
    /\ cursor \in Ids \union {Absent}
    /\ walk \in {"off", "reading", "done"}
    /\ pages \in Seq(SUBSET Entry)
    /\ steady \subseteq log /\ \A d \in steady : Matches(d, filter)

\* While there are pages to come, those read are full, and end at the cursor.
Progress ==
    /\ walk = "reading" =>
          \A i \in DOMAIN pages : Cardinality(pages[i]) = PageSize(filter.limit)
    /\ walk = "reading" /\ cursor = Absent => pages = <<>>
    /\ walk = "off" => cursor = Absent
    /\ cursor # Absent =>
          \A i \in DOMAIN pages : \A d \in pages[i] : d.id >= cursor

IInv == TypeInv /\ Progress /\ WalkComplete /\ WalkDescends

\* No page has been read.
LEMMA InitIInv == ASSUME PagingAssumption PROVE Init => IInv
  BY FS_EmptySet DEF PagingAssumption, Init, IInv, TypeInv, Progress, WalkComplete,
                     WalkDescends, NoFilter, Filter, Times

\* A page is never empty by its size, and what a query sorts is numbered.
LEMMA QueryFacts ==
    ASSUME PagingAssumption, TypeInv
    PROVE  /\ PageSize(filter.limit) \in Nat \ {0}
           /\ LET S == {d \in log : Matches(d, filter) /\ Below(d, cursor)}
              IN  S \in SUBSET Entry /\ Numbered(S)
  <1>1. PageSize(filter.limit) \in Nat \ {0}
    BY DEF PagingAssumption, TypeInv, PageSize
  <1> DEFINE S == {d \in log : Matches(d, filter) /\ Below(d, cursor)}
  <1>2. S \subseteq log
    OBVIOUS
  <1> HIDE DEF S
  <1>3. IsFiniteSet(S)
    BY <1>2, FS_Subset DEF TypeInv
  <1>4. \A d \in log : d.id \in Int
    BY DEF TypeInv, Entry, Ids
  <1> QED
    BY <1>1, <1>2, <1>3, <1>4 DEF TypeInv, Numbered, S

\* The type invariant of the module is a part of this one.
LEMMA IInvTypes == IInv => TypeOK
  BY DEF IInv, TypeInv, TypeOK

\* Insertion and deletion leave the pages alone.
LEMMA CollectionStep ==
    ASSUME PagingAssumption, IInv, InsertOne \/ Tick \/ Expire
    PROVE  IInv'
  <1> USE DEF IInv, client
  <1>1. CASE InsertOne
    <2>1. PICK i \in Ids \ used, e \in Events :
             /\ log' = log \union {[id |-> i, event |-> e, time |-> now]}
             /\ used' = used \union {i} /\ UNCHANGED <<now, client>>
      BY <1>1 DEF InsertOne
    <2> DEFINE new == [id |-> i, event |-> e, time |-> now]
    <2>2. new \in Entry /\ new.id = i
      BY DEF TypeInv, Entry
    <2>3. IsFiniteSet(log')
      BY <2>1, FS_AddElement DEF TypeInv
    <2> HIDE DEF new
    <2>4. TypeInv'
      BY <2>1, <2>2, <2>3 DEF TypeInv, new, Matches, Within
    <2> QED
      BY <2>1, <2>4 DEF Progress, WalkComplete, WalkDescends, Got
  <1>2. CASE Tick
    BY <1>2 DEF Tick, TypeInv, Times, PagingAssumption, Progress, WalkComplete,
                WalkDescends, Got, Matches, Within
  <1>3. CASE Expire
    <2>1. PICK d \in log : log' = log \ {d} /\ steady' = steady \ {d}
      BY <1>3 DEF Expire
    <2>2. UNCHANGED <<now, used, filter, cursor, walk, pages>>
      BY <1>3 DEF Expire
    <2>3. IsFiniteSet(log')
      BY <2>1, FS_RemoveElement DEF TypeInv
    <2>4. TypeInv'
      BY <2>1, <2>2, <2>3 DEF TypeInv, Matches, Within
    <2> QED
      BY <2>1, <2>2, <2>4 DEF Progress, WalkComplete, WalkDescends, Got
  <1> QED
    BY <1>1, <1>2, <1>3

\* A walk begins with everything before it.
LEMMA StartStep ==
    ASSUME PagingAssumption, IInv, NEW f \in Requests, StartWalk(f)
    PROVE  IInv'
  <1>1. f.limit \in Nat /\ f \in Filter
    <2>1. Midnight(1) \in Nat
      BY DEF Midnight, PagingAssumption
    <2>2. f.limit \in Nat
      BY DEF Requests, PagingAssumption
    <2> QED
      BY <2>1, <2>2, Zenon DEF Requests, Filter
  <1>2. TypeInv'
    BY <1>1 DEF StartWalk, IInv, TypeInv, Matches, Within
  <1>3. Progress' /\ WalkComplete' /\ WalkDescends'
    BY DEF StartWalk, Progress, WalkComplete, WalkDescends, Got
  <1> QED
    BY <1>2, <1>3 DEF IInv

\* A page is read below the cursor, and the cursor moves to its end.
LEMMA ListStep ==
    ASSUME PagingAssumption, IInv, ListAuditLogs
    PROVE  IInv'
  <1> DEFINE limit == PageSize(filter.limit)
             S     == {d \in log : Matches(d, filter) /\ Below(d, cursor)}
             got   == Newest(S, limit + 1)
             page  == Newest(got, limit)
  <1>1. limit \in Nat \ {0} /\ S \in SUBSET Entry /\ Numbered(S)
    BY QueryFacts DEF IInv
  <1>2. /\ walk = "reading" /\ pages' = Append(pages, page)
        /\ cursor' = NextCursor(got, limit)
        /\ walk' = IF cursor' = Absent THEN "done" ELSE "reading"
        /\ UNCHANGED <<now, log, used, filter, steady>>
    BY DEF ListAuditLogs, Find
  <1>3. /\ page \subseteq S /\ Cardinality(page) <= limit
        /\ cursor' = Absent => page = S
        /\ cursor' # Absent =>
              /\ cursor' \in Ids /\ Cardinality(page) = limit
              /\ \A d \in page : d.id >= cursor'
              /\ \A d \in S : d.id >= cursor' => d \in page
    <2> HIDE DEF limit, S
    <2> QED
      BY <1>1, <1>2, PageFacts
  <1>4. page \subseteq log /\ \A d \in page : Below(d, cursor)
    BY <1>3
  <1>5. \A d \in steady : Below(d, cursor) => d \in S
    BY DEF IInv, TypeInv
  <1> HIDE DEF limit, S, got, page
  <1>6. /\ pages' \in Seq(SUBSET Entry) /\ Len(pages') = Len(pages) + 1
        /\ DOMAIN pages' = 1 .. Len(pages) + 1 /\ DOMAIN pages = 1 .. Len(pages)
        /\ \A i \in DOMAIN pages : pages'[i] = pages[i]
        /\ pages'[Len(pages) + 1] = page /\ Len(pages) \in Nat
    BY <1>2, <1>4 DEF IInv, TypeInv
  <1>7. TypeInv'
    BY <1>2, <1>3, <1>6 DEF IInv, TypeInv, Matches, Within
  <1>8. Got' = Got \union page
    BY <1>6 DEF Got
  <1>9. limit = PageSize(filter.limit) /\ filter' = filter /\ limit' = limit
    BY <1>2 DEF limit
  <1>10. Progress'
    <2>1. ASSUME cursor' # Absent, NEW i \in DOMAIN pages'
          PROVE  /\ Cardinality(pages'[i]) = limit
                 /\ \A d \in pages'[i] : d.id >= cursor'
      <3>1. CASE i = Len(pages) + 1
        BY <2>1, <3>1, <1>3, <1>6
      <3>2. CASE i \in DOMAIN pages
        <4>1. Cardinality(pages'[i]) = limit
          BY <1>2, <1>6, <1>9, <3>2 DEF IInv, Progress
        <4>2. ASSUME NEW d \in pages[i] PROVE d.id >= cursor'
          <5>1. cursor # Absent /\ d.id >= cursor /\ cursor \in Ids /\ d.id \in Ids
            BY <1>2, <1>6, <3>2, <4>2 DEF IInv, Progress, TypeInv, Entry
          <5>2. PICK x \in page : TRUE
            BY <1>1, <1>3, <2>1, FS_EmptySet
          <5>3. x.id >= cursor' /\ x.id < cursor /\ x.id \in Ids /\ cursor' \in Ids
            BY <1>3, <1>4, <2>1, <5>1, <5>2 DEF Below, IInv, TypeInv, Entry
          <5> QED
            BY <5>1, <5>3 DEF Ids
        <4> QED
          BY <1>6, <3>2, <4>1, <4>2
      <3> QED
        BY <1>6, <3>1, <3>2
    <2> QED
      BY <1>2, <1>9, <2>1 DEF Progress
  <1>11. WalkComplete'
    <2>1. ASSUME NEW d \in steady, ~ Below(d, cursor) PROVE d \in Got
      <3>1. cursor # Absent /\ d.id >= cursor
        BY <2>1 DEF Below, IInv, TypeInv, Entry, Ids
      <3> QED
        BY <3>1 DEF IInv, WalkComplete
    <2>2. ASSUME walk' = "done", NEW d \in steady' PROVE d \in Got'
      BY <1>2, <1>3, <1>5, <1>8, <2>1, <2>2
    <2>3. ASSUME cursor' # Absent, NEW d \in steady', d.id >= cursor'
          PROVE  d \in Got'
      BY <1>2, <1>3, <1>5, <1>8, <2>1, <2>3
    <2> QED
      BY <2>2, <2>3 DEF WalkComplete
  <1>12. WalkDescends'
    <2>1. ASSUME NEW i \in DOMAIN pages', NEW j \in DOMAIN pages', i < j,
                 NEW c \in pages'[i], NEW d \in pages'[j]
          PROVE  c.id > d.id
      <3>1. i \in DOMAIN pages /\ c \in pages[i]
        BY <1>6, <2>1
      <3>2. CASE j \in DOMAIN pages
        BY <1>6, <2>1, <3>1, <3>2 DEF IInv, WalkDescends
      <3>3. CASE j = Len(pages) + 1
        <4>1. cursor # Absent /\ c.id >= cursor /\ cursor \in Ids /\ c.id \in Ids
          BY <1>2, <1>6, <3>1 DEF IInv, Progress, TypeInv, Entry
        <4>2. d.id < cursor /\ d.id \in Ids
          BY <1>4, <1>6, <2>1, <3>3, <4>1 DEF Below, IInv, TypeInv, Entry
        <4> QED
          BY <4>1, <4>2 DEF Ids
      <3> QED
        BY <1>6, <3>2, <3>3
    <2>2. ASSUME NEW i \in DOMAIN pages'
          PROVE  /\ Cardinality(pages'[i]) <= limit
                 /\ i < Len(pages') => Cardinality(pages'[i]) = limit
      <3>1. CASE i \in DOMAIN pages
        BY <1>1, <1>2, <1>6, <1>9, <3>1 DEF IInv, Progress
      <3>2. CASE i = Len(pages) + 1
        BY <1>3, <1>6, <3>2
      <3> QED
        BY <1>6, <3>1, <3>2
    <2> QED
      BY <1>9, <2>1, <2>2 DEF WalkDescends
  <1> QED
    BY <1>7, <1>10, <1>11, <1>12 DEF IInv

\* The invariant is inductive.
LEMMA IInvStep ==
    ASSUME PagingAssumption, IInv, [Next]_vars
    PROVE  IInv'
  <1>1. CASE UNCHANGED vars
    BY <1>1 DEF vars, client, IInv, TypeInv, Progress, WalkComplete, WalkDescends,
                Got, Matches, Within
  <1> QED
    BY <1>1, CollectionStep, StartStep, ListStep DEF Next

\* A reader of the audit log misses nothing that was in it all along
\* (ListAuditLogs in repository/audit_log.go), whatever is inserted or deleted
\* meanwhile, in whatever order of ids.
THEOREM NothingSkipped ==
    ASSUME PagingAssumption
    PROVE  Spec => []WalkComplete
  <1>1. IInv => WalkComplete
    BY DEF IInv
  <1>2. IInv /\ [Next]_vars => IInv'
    BY IInvStep
  <1> QED
    BY <1>1, <1>2, InitIInv, PTL DEF Spec

\* It sees nothing twice: pages are full but the last, and descend.
THEOREM NothingRepeated ==
    ASSUME PagingAssumption
    PROVE  Spec => []WalkDescends
  <1>1. IInv => WalkDescends
    BY DEF IInv
  <1>2. IInv /\ [Next]_vars => IInv'
    BY IInvStep
  <1> QED
    BY <1>1, <1>2, InitIInv, PTL DEF Spec

-----------------------------------------------------------------------------
(* The daily report.                                                         *)

\* Some of the parts together.
Parts(part, s) == UNION {part[i] : i \in s}

\* One part more adds its elements.
LEMMA OnePartMore ==
    ASSUME NEW L, IsFiniteSet(L), NEW I, NEW part \in [I -> SUBSET L],
           \A i, j \in I : i # j => part[i] \cap part[j] = {},
           NEW s \in SUBSET I, NEW x \in s
    PROVE  /\ IsFiniteSet(Parts(part, s)) /\ IsFiniteSet(Parts(part, s \ {x}))
           /\ Cardinality(Parts(part, s)) \in Nat
           /\ Cardinality(Parts(part, s \ {x})) \in Nat
           /\ Cardinality(part[x]) \in Nat
           /\ part[x] # {} => Cardinality(part[x]) > 0
           /\ Cardinality(Parts(part, s))
                 = Cardinality(part[x]) + Cardinality(Parts(part, s \ {x}))
  <1> DEFINE A == part[x]
             B == Parts(part, s \ {x})
             C == Parts(part, s)
  <1>1. A \subseteq L /\ B \subseteq L /\ C \subseteq L
    BY DEF Parts
  <1>2. C = A \union B /\ A \cap B = {}
    BY DEF Parts
  <1> HIDE DEF A, B, C
  <1>3. IsFiniteSet(A) /\ IsFiniteSet(B) /\ IsFiniteSet(C)
    BY <1>1, FS_Subset
  <1>4. Cardinality(A) \in Nat /\ Cardinality(B) \in Nat /\ Cardinality(C) \in Nat
    BY <1>3, FS_CardinalityType
  <1>5. Cardinality(A \cap B) = 0
    BY <1>2, FS_EmptySet
  <1>6. Cardinality(C) = Cardinality(A) + Cardinality(B)
    <2>1. Cardinality(A \union B)
             = Cardinality(A) + Cardinality(B) - Cardinality(A \cap B)
      BY <1>3, FS_Union
    <2> QED
      BY <1>2, <1>4, <1>5, <2>1
  <1>7. A # {} => Cardinality(A) # 0
    BY <1>3, FS_EmptySet
  <1> QED
    BY <1>3, <1>4, <1>6, <1>7 DEF A, B, C

\* What items count of the parts of a set is counted of the set.  The sum is a
\* fold in no particular order; that it is the same in every order is not needed.
LEMMA SumOfParts ==
    ASSUME NEW L, IsFiniteSet(L), NEW I, NEW part \in [I -> (SUBSET L) \ {{}}],
           \A i, j \in I : i # j => part[i] \cap part[j] = {},
           \A i \in I : i.count = Cardinality(part[i])
    PROVE  MapThenSumSet(LAMBDA i : i.count, I) = Cardinality(Parts(part, I))
  <1> DEFINE Rest(s) == s \ {CHOOSE x \in s : TRUE}
             Equation(f) ==
                f = [s \in SUBSET I |->
                       IF s = {} THEN 0
                       ELSE (CHOOSE x \in s : TRUE).count + f[Rest(s)]]
             iter == CHOOSE f : Equation(f)
             g == [s \in SUBSET I |-> Cardinality(Parts(part, s))]
  <1>1. Cardinality(Parts(part, {})) = 0
    BY FS_EmptySet DEF Parts
  <1> DEFINE More(s, x) ==
                /\ Cardinality(Parts(part, s)) \in Nat
                /\ Cardinality(Parts(part, s \ {x})) \in Nat
                /\ Cardinality(part[x]) \in Nat
                /\ part[x] # {} => Cardinality(part[x]) > 0
                /\ Cardinality(Parts(part, s))
                      = Cardinality(part[x]) + Cardinality(Parts(part, s \ {x}))
  <1>2. ASSUME NEW s \in SUBSET I, NEW x \in s PROVE More(s, x)
    <2>1. part \in [I -> SUBSET L]
      OBVIOUS
    <2> QED
      BY <2>1, OnePartMore
  <1>3. ASSUME NEW s \in SUBSET I, s # {}
        PROVE  /\ Rest(s) \in SUBSET I
               /\ g[s] \in Nat /\ g[Rest(s)] \in Nat /\ g[Rest(s)] < g[s]
               /\ g[s] = (CHOOSE x \in s : TRUE).count + g[Rest(s)]
    <2> DEFINE x == CHOOSE x \in s : TRUE
    <2>1. x \in s
      BY <1>3
    <2> HIDE DEF x
    <2>2. part \in [I -> SUBSET L] /\ part[x] # {} /\ x.count = Cardinality(part[x])
      BY <2>1
    <2>3. /\ Cardinality(Parts(part, s)) \in Nat
          /\ Cardinality(Parts(part, s \ {x})) \in Nat
          /\ Cardinality(part[x]) \in Nat /\ Cardinality(part[x]) > 0
          /\ Cardinality(Parts(part, s))
                 = Cardinality(part[x]) + Cardinality(Parts(part, s \ {x}))
      <3>1. part \in [I -> SUBSET L] /\ x \in s
        BY <2>1, <2>2
      <3>2. /\ Cardinality(Parts(part, s)) \in Nat
            /\ Cardinality(Parts(part, s \ {x})) \in Nat
            /\ Cardinality(part[x]) \in Nat
            /\ part[x] # {} => Cardinality(part[x]) > 0
            /\ Cardinality(Parts(part, s))
                   = Cardinality(part[x]) + Cardinality(Parts(part, s \ {x}))
        BY <3>1, <1>2
      <3> QED
        BY <2>2, <3>2
    <2>4. s \ {x} \in SUBSET I
      OBVIOUS
    <2>5. g[s] = Cardinality(Parts(part, s))
          /\ g[s \ {x}] = Cardinality(Parts(part, s \ {x}))
      BY <2>4
    <2> HIDE DEF g
    <2>6. /\ g[s] \in Nat /\ g[s \ {x}] \in Nat /\ g[s \ {x}] < g[s]
          /\ g[s] = x.count + g[s \ {x}]
      BY <2>2, <2>3, <2>5
    <2> QED
      BY <2>4, <2>6 DEF x
  <1>4. Equation(g)
    <2>1. g[{}] = 0
      BY <1>1
    <2>2. ASSUME NEW s \in SUBSET I
          PROVE  Cardinality(Parts(part, s))
                    = IF s = {} THEN 0
                      ELSE (CHOOSE x \in s : TRUE).count + g[Rest(s)]
      <3>1. CASE s = {}
        BY <3>1, <1>1
      <3>2. CASE s # {}
        <4>1. g[s] = (CHOOSE x \in s : TRUE).count + g[Rest(s)]
          BY <3>2, <1>3
        <4>2. g[s] = Cardinality(Parts(part, s))
          OBVIOUS
        <4> QED
          BY <3>2, <4>1, <4>2
      <3> QED
        BY <3>1, <3>2
    <2> QED
      BY <2>2
  <1>5. Equation(iter)
    BY <1>4
  <1> HIDE DEF iter
  <1>6. \A s \in SUBSET I : iter[s] = g[s]
    <2> DEFINE S == {n \in Nat : \A s \in SUBSET I : g[s] <= n => iter[s] = g[s]}
    <2>1. iter[{}] = g[{}] /\ g[{}] = 0
      BY <1>1, <1>5
    <2>2. \A s \in SUBSET I : s # {} =>
              iter[s] = (CHOOSE x \in s : TRUE).count + iter[Rest(s)]
      BY <1>5
    <2> HIDE DEF g, Equation, Rest
    <2>3. \A s \in SUBSET I : g[s] \in Nat /\ (s # {} => g[s] > 0)
      <3> SUFFICES ASSUME NEW s \in SUBSET I
                   PROVE  g[s] \in Nat /\ (s # {} => g[s] > 0)
        OBVIOUS
      <3>1. CASE s = {}
        BY <2>1, <3>1
      <3>2. CASE s # {}
        BY <1>3, <3>2
      <3> QED
        BY <3>1, <3>2
    <2>4. 0 \in S
      <3> SUFFICES ASSUME NEW s \in SUBSET I, g[s] <= 0 PROVE iter[s] = g[s]
        OBVIOUS
      <3>1. s = {}
        BY <2>3
      <3> QED
        BY <2>1, <3>1
    <2>5. ASSUME NEW n \in Nat, n \in S PROVE n + 1 \in S
      <3> SUFFICES ASSUME NEW s \in SUBSET I, g[s] <= n + 1
                   PROVE  iter[s] = g[s]
        OBVIOUS
      <3>1. CASE s = {}
        BY <2>1, <3>1
      <3>2. CASE s # {}
        <4>1. /\ Rest(s) \in SUBSET I
              /\ g[s] \in Nat /\ g[Rest(s)] \in Nat /\ g[Rest(s)] < g[s]
              /\ g[s] = (CHOOSE x \in s : TRUE).count + g[Rest(s)]
          BY <1>3, <3>2
        <4>2. iter[Rest(s)] = g[Rest(s)]
          BY <2>5, <4>1
        <4> QED
          BY <2>2, <3>2, <4>1, <4>2
      <3> QED
        BY <3>1, <3>2
    <2> HIDE DEF S
    <2>6. \A n \in Nat : n \in S
      BY <2>4, <2>5, NatInSet
    <2> QED
      BY <2>3, <2>6 DEF S
  <1>7. MapThenSumSet(LAMBDA i : i.count, I) = iter[I]
    BY DEF MapThenSumSet, MapThenFoldSet, iter
  <1> QED
    BY <1>6, <1>7

\* A moment lies between the midnights around it.
LEMMA DayBounds ==
    ASSUME PagingAssumption, NEW t \in Nat, NEW d \in Int, Day(t) = d
    PROVE  Midnight(d) <= t /\ t <= Midnight(d + 1) - 1
  BY SMTT(30) DEF Day, Midnight, PagingAssumption

\* The report and the list agree, on every state with numbered entries
\* (GetDailyReport and ListAuditLogs in repository/audit_log.go).
LEMMA ReportAgrees ==
    ASSUME PagingAssumption, IInv
    PROVE  ReportMatchesList
  <1> SUFFICES ASSUME NEW from \in Times, NEW to \in Times
               PROVE  LET items == GetDailyReport(from, to)
                          listed(e) == {d \in log : Matches(d,
                                [event |-> e, limit |-> 0,
                                 from |-> from, to |-> to])}
                      IN  /\ \A e \in Events :
                                MapThenSumSet(LAMBDA i : i.count,
                                              {i \in items : i.event = e})
                                   = Cardinality(listed(e))
                          /\ \A i \in items :
                                from <= Midnight(i.date)
                                /\ Midnight(i.date + 1) - 1 <= to =>
                                   i.count = Cardinality({d \in log :
                                       d.event = i.event
                                       /\ Day(d.time) = i.date})
    BY DEF ReportMatchesList
  <1> DEFINE found == InRange(from, to)
             items == GetDailyReport(from, to)
             On(t, e) == {x \in found : Day(x.time) = t /\ x.event = e}
             listed(e) == {d \in log : Matches(d,
                                [event |-> e, limit |-> 0,
                                 from |-> from, to |-> to])}
  <1>1. IsFiniteSet(log) /\ log \subseteq Entry
    BY DEF IInv, TypeInv
  <1> DEFINE item(d) == [date |-> Day(d.time), event |-> d.event,
                         count |-> Cardinality(On(Day(d.time), d.event))]
  <1>2. /\ \A i \in items : \E d \in found :
              i.date = Day(d.time) /\ i.event = d.event
        /\ \A i \in items : i.count = Cardinality(On(i.date, i.event))
        /\ \A d \in found : \E i \in items :
              i.date = Day(d.time) /\ i.event = d.event
        /\ \A i, j \in items : i.date = j.date /\ i.event = j.event => i = j
    <2>1. items = {item(d) : d \in found}
      BY DEF GetDailyReport
    <2>2. \A d : /\ item(d).date = Day(d.time) /\ item(d).event = d.event
                 /\ item(d).count = Cardinality(On(item(d).date, item(d).event))
      OBVIOUS
    <2>3. \A c, d : Day(c.time) = Day(d.time) /\ c.event = d.event =>
              item(c) = item(d)
      OBVIOUS
    <2> HIDE DEF items, item, found, On
    <2> QED
      BY <2>1, <2>2, <2>3
  <1>3. ASSUME NEW e \in Events
        PROVE  MapThenSumSet(LAMBDA i : i.count, {i \in items : i.event = e})
                  = Cardinality(listed(e))
    <2> DEFINE I == {i \in items : i.event = e}
               L == listed(e)
               part == [i \in I |-> On(i.date, e)]
    <2>1. L = {x \in found : x.event = e}
      <3>1. e # Absent /\ from # Absent /\ to # Absent
        BY DEF PagingAssumption, Times
      <3>2. ASSUME NEW d \in log
            PROVE  Matches(d, [event |-> e, limit |-> 0, from |-> from, to |-> to])
                      <=> d.event = e /\ from <= d.time /\ d.time <= to
        BY <3>1 DEF Matches, Within
      <3> QED
        BY <3>2 DEF InRange
    <2>2. IsFiniteSet(L)
      BY <1>1, FS_Subset
    <2> HIDE DEF found, items, L
    <2>3. part \in [I -> (SUBSET L) \ {{}}]
      BY <1>2, <2>1
    <2>4. \A i, j \in I : i # j => part[i] \cap part[j] = {}
      BY <1>2
    <2>5. \A i \in I : i.count = Cardinality(part[i])
      BY <1>2
    <2>6. Parts(part, I) = L
      <3>1. \A i \in I : part[i] = {x \in L : Day(x.time) = i.date}
        BY <2>1
      <3>2. \A x \in L : \E i \in I : Day(x.time) = i.date
        BY <1>2, <2>1
      <3> HIDE DEF I, part
      <3> QED
        BY <3>1, <3>2 DEF Parts
    <2> HIDE DEF part
    <2> QED
      BY <2>2, <2>3, <2>4, <2>5, <2>6, SumOfParts DEF L
  <1>4. ASSUME NEW i \in items,
               from <= Midnight(i.date), Midnight(i.date + 1) - 1 <= to
        PROVE  i.count = Cardinality({d \in log : d.event = i.event
                                                  /\ Day(d.time) = i.date})
    <2>1. PICK x \in found : i.date = Day(x.time)
      BY <1>2
    <2>2. x \in log /\ \A d \in log : d.time \in Nat
      BY <1>1 DEF InRange, Entry, Times
    <2>3. i.date \in Int
      BY <2>1, <2>2 DEF Day, PagingAssumption
    <2>4. ASSUME NEW d \in log, Day(d.time) = i.date PROVE d \in found
      <3>1. Midnight(i.date) <= d.time /\ d.time <= Midnight(i.date + 1) - 1
        BY <2>2, <2>3, <2>4, DayBounds
      <3>2. Midnight(i.date) \in Int /\ Midnight(i.date + 1) \in Int
        BY <2>3 DEF Midnight, PagingAssumption
      <3> QED
        BY <1>4, <2>2, <3>1, <3>2 DEF InRange, Times
    <2>5. {d \in log : d.event = i.event /\ Day(d.time) = i.date}
             = On(i.date, i.event)
      BY <2>4 DEF InRange
    <2> HIDE DEF found, items
    <2> QED
      BY <1>2, <2>5
  <1> QED
    BY <1>3, <1>4

\* The report counts per event what the list shows, in every state of the log.
THEOREM ReportCountsTheList ==
    ASSUME PagingAssumption
    PROVE  Spec => []ReportMatchesList
  <1>1. IInv => ReportMatchesList
    BY ReportAgrees
  <1>2. IInv /\ [Next]_vars => IInv'
    BY IInvStep
  <1> QED
    BY <1>1, <1>2, InitIInv, PTL DEF Spec
=============================================================================
