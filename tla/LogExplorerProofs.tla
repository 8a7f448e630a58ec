--------------------------- MODULE LogExplorerProofs ---------------------------
(***************************************************************************)
(* What holds of LogExplorer for any page size, any number of logs,        *)
(* clicks, retries and failures.                                           *)
(***************************************************************************)
EXTENDS LogExplorer, FiniteSetTheorems, TLAPS

Queries == [page : {"logs", "analytics"}, project : Projects, filter : Filters, offset : Nat]
Answers == [total : Nat, levels : [Logs -> Nat], services : Nat, errors : Nat,
            page : [size : Nat, sought : {"yes", "no"}]]
Walks == {"off", "due", "ahead", "seen", "missed"}
Fetches == [phase : {"idle", "running"}, query : Queries, done : 0 .. 4, tries : 0 .. Retries,
            got : Answers, look : Walks]

\* An answer is kept under the query it was read for, no key has two, and the only fetch there is was
\* sent for what the page asks for.
Typed ==
  /\ rows \in Seq(Logs) /\ Len(rows) <= MaxLogs
  /\ page \in {"logs", "analytics"} /\ projectId \in Projects /\ filter \in Filters /\ offset \in Nat
  /\ page = "analytics" => filter = "all" /\ offset = 0
  /\ \A e \in cache \cup previous : e.key = e.query /\ e.query \in Queries /\ e.got \in Answers
  /\ \A e, f \in cache : e.key = f.key => e = f
  /\ fetch \in Fetches /\ fetch.query = Query
  /\ strayed \in {"yes", "no"} /\ walk \in Walks

\* A page that has neither an answer nor an error to show waits for a fetch.
Waiting == Pending => fetch.phase = "running"

\* The places that match a query in the table s, in all and by level, and where the log sought is.
MatchingIn(s, q) ==
  {i \in DOMAIN s : q.project = Home /\ (q.filter = "errors" => s[i] # "plain")}
CountIn(s, q) == Cardinality(MatchingIn(s, q))
Places(l, s, q) == {i \in MatchingIn(s, q) : s[i] = l}
ErrorsIn(s, q) == Cardinality(Places("error", s, q)) + Cardinality(Places("sought", s, q))
AheadIn(i, s, q) == Cardinality({j \in MatchingIn(s, q) : j < i})

\* The log sought is stored and matches, and behind the first n of those that do.
Behind(s, q, n) ==
  /\ \E i \in MatchingIn(s, q) : s[i] = "sought"
  /\ \A i \in MatchingIn(s, q) : s[i] = "sought" => AheadIn(i, s, q) >= n
Beyond(n) == Behind(rows, Query, n)

\* The table only grows: no answer has counted more than there is by now, whatever was stored since.
Bounded(got, q) == got.total <= CountIn(rows, q) /\ got.page.size <= Limit

\* The page has the rows its range claims; the figures do not exceed the charts read after them.
Covers(got, q) ==
  LET range == RangeShown(q.offset, got.total) IN got.page.size >= range.last - range.first + 1
AddsUp(got) ==
  /\ Figures(got).total <= LevelDistribution(got) /\ LevelDistribution(got) <= ServiceBreakdown(got)
  /\ Figures(got).errors <= ErrorTrend(got)
Fitting(e) == IF e.query.page = "logs" THEN Covers(e.got, e.query) ELSE AddsUp(e.got)

Kept ==
  /\ \A e \in cache \cup previous : Bounded(e.got, e.query)
  /\ \A e \in cache : Fitting(e)

\* Where a walk says the log sought is to be found.
Right(w) ==
  /\ w = "due" => page = "logs" /\ Beyond(offset)
  /\ w = "ahead" => page = "logs" /\ Beyond(offset + Limit)
  /\ w # "missed"

\* What the fetch has read so far: the total first, then the page.
SearchSoFar ==
  page = "logs" =>
    /\ fetch.done <= 2
    /\ fetch.done = 2 => Covers(fetch.got, Query)
    /\ fetch.done = 2 /\ strayed = "no" /\ offset > 0 => fetch.got.page.size > 0

\* The total, the levels, the services, the errors.
AnalyticsSoFar ==
  page = "analytics" =>
    /\ fetch.done >= 2 => /\ fetch.got.total <= LevelDistribution(fetch.got)
                          /\ LevelDistribution(fetch.got) <= CountIn(rows, Query)
                          /\ Figures(fetch.got).errors <= ErrorsIn(rows, Query)
    /\ fetch.done >= 3 => LevelDistribution(fetch.got) <= fetch.got.services
    /\ fetch.done >= 4 => Figures(fetch.got).errors <= fetch.got.errors

SoFar == Bounded(fetch.got, Query) /\ SearchSoFar /\ AnalyticsSoFar /\ Right(fetch.look)

\* An offset that was checked against its own query's total is within what matches, and stays so.
OffsetsMeetRows ==
  strayed = "no" =>
    /\ offset > 0 => offset < CountIn(rows, Query)
    /\ \A e \in cache : e.query.page = "logs" /\ e.query.offset > 0 => e.got.page.size > 0

Inv == Typed /\ Waiting /\ Kept /\ SoFar /\ OffsetsMeetRows /\ Right(walk)

--------------------------------------------------------------------------------
(* What matches a query, as the table grows *)

LEMMA MatchingType ==
  ASSUME NEW s \in Seq(Logs), NEW q
  PROVE  /\ IsFiniteSet(MatchingIn(s, q)) /\ CountIn(s, q) \in Nat /\ CountIn(s, q) <= Len(s)
         /\ \A l : IsFiniteSet(Places(l, s, q)) /\ Cardinality(Places(l, s, q)) \in Nat
         /\ ErrorsIn(s, q) \in Nat
         /\ \A i : /\ IsFiniteSet({j \in MatchingIn(s, q) : j < i})
                   /\ AheadIn(i, s, q) \in Nat
<1>1. Len(s) \in Nat /\ MatchingIn(s, q) \subseteq 1 .. Len(s)
  BY DEF MatchingIn
<1>2. IsFiniteSet(1 .. Len(s)) /\ Cardinality(1 .. Len(s)) = Len(s)
  <2>1. ASSUME NEW k \in Nat PROVE IsFiniteSet(1 .. k) /\ Cardinality(1 .. k) = k
    <3>1. IsFiniteSet(1 .. k) /\ Cardinality(1 .. k) = IF 1 > k THEN 0 ELSE k - 1 + 1
      BY FS_Interval
    <3> QED
      BY <3>1
  <2> QED
    BY <1>1, <2>1
<1>3. IsFiniteSet(MatchingIn(s, q)) /\ CountIn(s, q) \in Nat /\ CountIn(s, q) <= Len(s)
  BY <1>1, <1>2, FS_Subset, FS_CardinalityType DEF CountIn
<1>4. \A l : IsFiniteSet(Places(l, s, q)) /\ Cardinality(Places(l, s, q)) \in Nat
  BY <1>3, FS_Subset, FS_CardinalityType DEF Places
<1>5. ErrorsIn(s, q) \in Nat
  BY <1>4 DEF ErrorsIn
<1>6. ASSUME NEW i PROVE IsFiniteSet({j \in MatchingIn(s, q) : j < i}) /\ AheadIn(i, s, q) \in Nat
  <2>1. {j \in MatchingIn(s, q) : j < i} \subseteq MatchingIn(s, q)
    OBVIOUS
  <2> QED
    BY <1>3, <2>1, FS_Subset, FS_CardinalityType DEF AheadIn
<1> QED
  BY <1>3, <1>4, <1>5, <1>6

\* A log that matches is not ahead of itself.
LEMMA AheadBelow ==
  ASSUME NEW s \in Seq(Logs), NEW q, NEW i \in MatchingIn(s, q)
  PROVE  AheadIn(i, s, q) < CountIn(s, q)
<1> DEFINE A == {j \in MatchingIn(s, q) : j < i}
<1>1. i \in Nat
  BY DEF MatchingIn
<1>2. A \subseteq MatchingIn(s, q) /\ A # MatchingIn(s, q)
  BY <1>1
<1> HIDE DEF A
<1>3. IsFiniteSet(MatchingIn(s, q)) /\ IsFiniteSet(A)
  BY <1>2, MatchingType, FS_Subset
<1>4. Cardinality(A) < Cardinality(MatchingIn(s, q))
  <2>1. Cardinality(A) <= Cardinality(MatchingIn(s, q))
    BY <1>2, <1>3, FS_Subset
  <2>2. Cardinality(A) # Cardinality(MatchingIn(s, q))
    BY <1>2, <1>3, FS_Subset
  <2> QED
    BY <1>3, <2>1, <2>2, FS_CardinalityType
<1> QED
  BY <1>4 DEF A, AheadIn, CountIn

LEMMA DisjointCount ==
  ASSUME NEW A, NEW B, IsFiniteSet(A), IsFiniteSet(B), A \cap B = {}
  PROVE  IsFiniteSet(A \cup B) /\ Cardinality(A \cup B) = Cardinality(A) + Cardinality(B)
<1>1. IsFiniteSet(A \cup B)
  BY FS_Union
<1>2. Cardinality(A \cup B) = Cardinality(A) + Cardinality(B) - Cardinality(A \cap B)
  BY FS_Union
<1>3. Cardinality(A \cap B) = 0
  BY FS_EmptySet
<1>4. Cardinality(A) \in Nat /\ Cardinality(B) \in Nat
  BY FS_CardinalityType
<1> QED
  BY <1>1, <1>2, <1>3, <1>4

\* The levels counted are all there are.
LEMMA Levels ==
  ASSUME NEW s \in Seq(Logs), NEW q
  PROVE  Cardinality(Places("plain", s, q)) + Cardinality(Places("error", s, q))
           + Cardinality(Places("sought", s, q)) = CountIn(s, q)
<1> DEFINE P == Places("plain", s, q)
           E == Places("error", s, q)
           S == Places("sought", s, q)
<1>1. \A i \in MatchingIn(s, q) : s[i] \in Logs
  BY DEF MatchingIn
<1>2. MatchingIn(s, q) = (P \cup E) \cup S /\ P \cap E = {} /\ (P \cup E) \cap S = {}
  BY <1>1 DEF Places, Logs
<1>3. /\ IsFiniteSet(P) /\ IsFiniteSet(E) /\ IsFiniteSet(S)
      /\ Cardinality(P) \in Nat /\ Cardinality(E) \in Nat /\ Cardinality(S) \in Nat
  BY MatchingType
<1> HIDE DEF P, E, S
<1>4. Cardinality(P \cup E) = Cardinality(P) + Cardinality(E) /\ IsFiniteSet(P \cup E)
  BY <1>2, <1>3, DisjointCount
<1>5. Cardinality((P \cup E) \cup S) = Cardinality(P \cup E) + Cardinality(S)
  BY <1>2, <1>3, <1>4, DisjointCount
<1> QED
  BY <1>2, <1>3, <1>4, <1>5 DEF CountIn, P, E, S

--------------------------------------------------------------------------------
(* A row is inserted *)

\* The rows before the new one stay, those behind it move by one.
Moved(i, at) == IF i <= at THEN i ELSE i + 1
Inserted(s, l, at) == SubSeq(s, 1, at) \o <<l>> \o SubSeq(s, at + 1, Len(s))

LEMMA InsertShape ==
  ASSUME NEW s \in Seq(Logs), NEW l \in Logs, NEW at \in 0 .. Len(s)
  PROVE  LET t == Inserted(s, l, at)
         IN /\ t \in Seq(Logs) /\ Len(t) = Len(s) + 1 /\ t[at + 1] = l
            /\ \A i \in 1 .. Len(s) : Moved(i, at) \in 1 .. Len(t) /\ t[Moved(i, at)] = s[i]
<1> DEFINE a == SubSeq(s, 1, at)
           b == SubSeq(s, at + 1, Len(s))
           c == a \o <<l>>
           t == c \o b
<1>0. Len(s) \in Nat /\ at \in Nat
  OBVIOUS
<1>1. a \in Seq(Logs) /\ Len(a) = at /\ \A i \in 1 .. at : a[i] = s[i]
  BY <1>0
<1>2. /\ b \in Seq(Logs) /\ Len(b) = Len(s) - at
      /\ \A i \in 1 .. Len(s) - at : b[i] = s[at + i]
  BY <1>0
<1> HIDE DEF a, b
<1>3. /\ c \in Seq(Logs) /\ Len(c) = at + 1 /\ c[at + 1] = l
      /\ \A i \in 1 .. at : c[i] = a[i]
  BY <1>0, <1>1
<1> HIDE DEF c
<1>4. /\ t \in Seq(Logs) /\ Len(t) = Len(s) + 1
      /\ \A i \in 1 .. at + 1 : t[i] = c[i]
      /\ \A i \in 1 .. Len(s) - at : t[at + 1 + i] = b[i]
  BY <1>0, <1>2, <1>3
<1> HIDE DEF t
<1>5. ASSUME NEW i \in 1 .. Len(s) PROVE Moved(i, at) \in 1 .. Len(t) /\ t[Moved(i, at)] = s[i]
  <2>1. CASE i <= at
    BY <1>0, <1>1, <1>3, <1>4, <2>1 DEF Moved
  <2>2. CASE ~(i <= at)
    <3> DEFINE j == i - at
    <3>1. j \in 1 .. Len(s) - at /\ at + 1 + j = i + 1 /\ at + j = i /\ Moved(i, at) = i + 1
      BY <1>0, <2>2 DEF Moved
    <3> HIDE DEF j
    <3>2. t[at + 1 + j] = b[j]
      BY <1>4, <3>1
    <3>3. b[j] = s[at + j]
      BY <1>2, <3>1
    <3> QED
      BY <1>0, <1>4, <3>1, <3>2, <3>3
  <2> QED
    BY <2>1, <2>2
<1>6. t[at + 1] = l
  BY <1>0, <1>3, <1>4
<1> QED
  BY <1>4, <1>5, <1>6 DEF t, c, a, b, Inserted

\* Places that move into a set are as many there.
LEMMA MovedCount ==
  ASSUME NEW A, A \subseteq Nat, NEW B, IsFiniteSet(B), NEW at \in Nat,
         \A i \in A : Moved(i, at) \in B
  PROVE  Cardinality(A) <= Cardinality(B)
<1> DEFINE f == [i \in A |-> Moved(i, at)]
<1>1. \A i, j \in A : f[i] = f[j] => i = j
  BY DEF Moved
<1>2. f \in [A -> B]
  OBVIOUS
<1> HIDE DEF f
<1>3. f \in Injection(A, B)
  BY <1>1, <1>2 DEF Injection, IsInjective
<1> QED
  BY <1>3, FS_Injection

\* Storing a log takes nothing from what matches a query, and does not move the log sought forward.
Grown(s, t, q) ==
  /\ CountIn(s, q) <= CountIn(t, q)
  /\ ErrorsIn(s, q) <= ErrorsIn(t, q)
  /\ \A k \in Nat : Behind(s, q, k) => Behind(t, q, k)

LEMMA Growth ==
  ASSUME NEW s \in Seq(Logs), NEW l \in Logs, NEW at \in 0 .. Len(s),
         l = "sought" => \A i \in DOMAIN s : s[i] # "sought", NEW q
  PROVE  Grown(s, Inserted(s, l, at), q)
<1> DEFINE t == Inserted(s, l, at)
<1>1. /\ t \in Seq(Logs) /\ Len(t) = Len(s) + 1 /\ t[at + 1] = l
      /\ \A i \in 1 .. Len(s) : Moved(i, at) \in 1 .. Len(t) /\ t[Moved(i, at)] = s[i]
  BY InsertShape
<1> HIDE DEF t
<1>2. /\ Len(s) \in Nat /\ at \in Nat /\ DOMAIN s = 1 .. Len(s) /\ DOMAIN t = 1 .. Len(s) + 1
      /\ MatchingIn(s, q) \subseteq 1 .. Len(s) /\ 1 .. Len(s) \subseteq Nat
      /\ MatchingIn(t, q) \subseteq 1 .. Len(s) + 1
  BY <1>1 DEF MatchingIn
<1>3. \A i \in MatchingIn(s, q) : Moved(i, at) \in MatchingIn(t, q) /\ t[Moved(i, at)] = s[i]
  BY <1>1, <1>2 DEF MatchingIn
<1>4. ASSUME NEW i \in MatchingIn(t, q), i # at + 1
      PROVE  \E j \in MatchingIn(s, q) : i = Moved(j, at)
  <2>1. CASE i <= at
    <3>1. i \in 1 .. Len(s) /\ Moved(i, at) = i
      BY <1>2, <2>1 DEF Moved
    <3> QED
      BY <1>1, <1>2, <3>1 DEF MatchingIn
  <2>2. CASE ~(i <= at)
    <3>1. i - 1 \in 1 .. Len(s) /\ Moved(i - 1, at) = i
      BY <1>2, <1>4, <2>2 DEF Moved
    <3> QED
      BY <1>1, <1>2, <3>1 DEF MatchingIn
  <2> QED
    BY <2>1, <2>2
<1>5. CountIn(s, q) <= CountIn(t, q)
  BY <1>1, <1>2, <1>3, MatchingType, MovedCount DEF CountIn
<1>6. ASSUME NEW k PROVE Cardinality(Places(k, s, q)) <= Cardinality(Places(k, t, q))
  <2>1. Places(k, s, q) \subseteq Nat /\ \A i \in Places(k, s, q) : Moved(i, at) \in Places(k, t, q)
    BY <1>2, <1>3 DEF Places
  <2> QED
    BY <1>1, <1>2, <2>1, MatchingType, MovedCount
<1>7. ErrorsIn(s, q) <= ErrorsIn(t, q)
  <2>1. /\ Cardinality(Places("error", s, q)) <= Cardinality(Places("error", t, q))
        /\ Cardinality(Places("sought", s, q)) <= Cardinality(Places("sought", t, q))
        /\ Cardinality(Places("error", s, q)) \in Nat /\ Cardinality(Places("error", t, q)) \in Nat
        /\ Cardinality(Places("sought", s, q)) \in Nat /\ Cardinality(Places("sought", t, q)) \in Nat
    BY <1>1, <1>6, MatchingType
  <2> QED
    BY <2>1 DEF ErrorsIn
<1>8. ASSUME NEW i \in MatchingIn(s, q) PROVE AheadIn(i, s, q) <= AheadIn(Moved(i, at), t, q)
  <2> DEFINE A == {j \in MatchingIn(s, q) : j < i}
             B == {j \in MatchingIn(t, q) : j < Moved(i, at)}
  <2>1. A \subseteq Nat /\ \A j \in A : Moved(j, at) \in B
    BY <1>2, <1>3 DEF Moved
  <2>2. IsFiniteSet(B)
    BY <1>1, MatchingType
  <2> HIDE DEF A, B
  <2>3. Cardinality(A) <= Cardinality(B)
    BY <1>2, <2>1, <2>2, MovedCount
  <2> QED
    BY <2>3 DEF A, B, AheadIn
<1>9. ASSUME NEW k \in Nat, Behind(s, q, k) PROVE Behind(t, q, k)
  <2>1. PICK i \in MatchingIn(s, q) : s[i] = "sought"
    BY <1>9 DEF Behind
  <2>2. Moved(i, at) \in MatchingIn(t, q) /\ t[Moved(i, at)] = "sought"
    BY <1>3, <2>1
  <2>3. l # "sought"
    BY <1>2, <2>1
  <2>4. ASSUME NEW h \in MatchingIn(t, q), t[h] = "sought" PROVE AheadIn(h, t, q) >= k
    <3>1. h # at + 1
      BY <1>1, <2>3, <2>4
    <3>2. PICK j \in MatchingIn(s, q) : h = Moved(j, at)
      BY <1>4, <3>1
    <3>3. s[j] = "sought"
      BY <1>3, <2>4, <3>2
    <3>4. AheadIn(j, s, q) >= k /\ AheadIn(j, s, q) <= AheadIn(h, t, q)
      BY <1>8, <1>9, <3>2, <3>3 DEF Behind
    <3>5. AheadIn(j, s, q) \in Nat /\ AheadIn(h, t, q) \in Nat
      BY <1>1, MatchingType
    <3> QED
      BY <3>4, <3>5
  <2> QED
    BY <2>2, <2>4 DEF Behind
<1> QED
  BY <1>5, <1>7, <1>9 DEF Grown, t

--------------------------------------------------------------------------------
(* The query of the page, and a fetch that has read nothing *)

QueryOf(pg, p, f, o) == IF pg = "logs" THEN LogsQuery(p, f, o) ELSE AnalyticsQuery(p)

LEMMA QueryFields ==
  ASSUME NEW pg \in {"logs", "analytics"}, NEW p \in Projects, NEW f \in Filters, NEW o \in Nat,
         pg = "analytics" => f = "all" /\ o = 0
  PROVE  LET q == QueryOf(pg, p, f, o)
         IN  q \in Queries /\ q.page = pg /\ q.project = p /\ q.filter = f /\ q.offset = o
  BY DEF QueryOf, LogsQuery, AnalyticsQuery, Queries, Filters

\* What the page asks for is typed, and so is its query.
AskedTyped ==
  /\ page \in {"logs", "analytics"} /\ projectId \in Projects /\ filter \in Filters /\ offset \in Nat
  /\ page = "analytics" => filter = "all" /\ offset = 0

LEMMA QueryNow ==
  ASSUME AskedTyped
  PROVE  /\ Query \in Queries /\ Query.page = page /\ Query.project = projectId
         /\ Query.filter = filter /\ Query.offset = offset
<1>1. Query = QueryOf(page, projectId, filter, offset)
  BY DEF Query, QueryOf
<1> QED
  BY <1>1, QueryFields DEF AskedTyped

LEMMA QueryNext ==
  ASSUME AskedTyped'
  PROVE  /\ Query' \in Queries /\ Query'.page = page' /\ Query'.project = projectId'
         /\ Query'.filter = filter' /\ Query'.offset = offset'
<1>1. Query' = QueryOf(page', projectId', filter', offset')
  BY DEF Query, QueryOf
<1> QED
  BY <1>1, QueryFields DEF AskedTyped

\* Queries of one project and one filter are matched by the same logs.
LEMMA SameMatching ==
  ASSUME NEW s, NEW q, NEW r, q.project = r.project, q.filter = r.filter
  PROVE  /\ MatchingIn(s, q) = MatchingIn(s, r) /\ CountIn(s, q) = CountIn(s, r)
         /\ \A n : Behind(s, q, n) <=> Behind(s, r, n)
<1>1. MatchingIn(s, q) = MatchingIn(s, r)
  BY DEF MatchingIn
<1> QED
  BY <1>1 DEF CountIn, Behind, AheadIn

\* A fetch of the query q that has not read anything.
New(f, q) ==
  /\ f \in Fetches /\ f.query = q /\ f.done = 0 /\ f.look = "off"
  /\ f.got.total = 0 /\ f.got.page.size = 0

LEMMA UnreadType ==
  ASSUME NEW q \in Queries
  PROVE  /\ New(Idle(q), q) /\ Idle(q).phase = "idle"
         /\ New(Sent(q), q) /\ Sent(q).phase = "running"
         /\ \A n \in 0 .. Retries : /\ New([Sent(q) EXCEPT !.tries = n], q)
                                    /\ [Sent(q) EXCEPT !.tries = n].phase = "running"
<1>1. Unread \in Answers /\ Unread.total = 0 /\ Unread.page.size = 0
  BY DEF Unread, Answers
<1>2. 0 \in 0 .. Retries
  BY ExplorerBounds
<1> DEFINE Started(p, n) == [phase |-> p, query |-> q, done |-> 0, tries |-> n, got |-> Unread, look |-> "off"]
<1>3. ASSUME NEW p \in {"idle", "running"}, NEW n \in 0 .. Retries
      PROVE  New(Started(p, n), q) /\ Started(p, n).phase = p
  BY <1>1 DEF Fetches, New, Walks
<1>4. Idle(q) = Started("idle", 0) /\ Sent(q) = Started("running", 0)
  BY DEF Idle, Sent
<1>5. \A n \in 0 .. Retries : [Sent(q) EXCEPT !.tries = n] = Started("running", n)
  BY <1>4
<1> HIDE DEF Started
<1> QED
  BY <1>2, <1>3, <1>4, <1>5

LEMMA NothingRead ==
  ASSUME Typed', New(fetch', Query')
  PROVE  SoFar'
<1>1. CountIn(rows', Query') \in Nat
  BY MatchingType DEF Typed
<1>2. Bounded(fetch.got, Query)'
  BY <1>1, LimitAssumption DEF Bounded, New
<1> QED
  BY <1>2 DEF SoFar, SearchSoFar, AnalyticsSoFar, Right, New

--------------------------------------------------------------------------------
(* A log is stored *)

LEMMA StoreStep ==
  ASSUME Inv, NEW l \in Logs, NEW at \in 0 .. MaxLogs, Store(l, at)
  PROVE  Inv'
<1>1. /\ Len(rows) < MaxLogs /\ at \in 0 .. Len(rows)
      /\ l = "sought" => \A i \in DOMAIN rows : rows[i] # "sought"
      /\ rows' = Inserted(rows, l, at)
  BY DEF Store, Insert, Inserted
<1>2. rows \in Seq(Logs)
  BY DEF Inv, Typed
<1>3. rows' \in Seq(Logs) /\ Len(rows') = Len(rows) + 1
  BY <1>1, <1>2, InsertShape
<1>4. \A q : Grown(rows, rows', q)
  BY <1>1, <1>2, Growth
<1>5. UNCHANGED <<asked, store, fetch, strayed, walk, clicks, faults>>
  BY DEF Store
<1>6. /\ page' = page /\ projectId' = projectId /\ filter' = filter /\ offset' = offset
      /\ cache' = cache /\ previous' = previous /\ failed' = failed /\ fetch' = fetch
      /\ strayed' = strayed /\ walk' = walk /\ Query' = Query
  BY <1>5 DEF asked, store, Query
<1>7. \A q : /\ CountIn(rows, q) \in Nat /\ CountIn(rows', q) \in Nat
             /\ ErrorsIn(rows, q) \in Nat /\ ErrorsIn(rows', q) \in Nat
  BY <1>2, <1>3, MatchingType
<1>8. /\ CountIn(rows, Query) <= CountIn(rows', Query') /\ ErrorsIn(rows, Query) <= ErrorsIn(rows', Query')
      /\ \A n \in Nat : Beyond(n) => Behind(rows', Query', n)
  BY <1>4, <1>6 DEF Grown, Beyond
<1>9. Typed' /\ Waiting'
  <2>1. Len(rows') <= MaxLogs
    <3>1. \A n \in Nat : n < MaxLogs => n + 1 <= MaxLogs
      BY LimitAssumption
    <3>2. Len(rows) \in Nat
      BY <1>2
    <3> QED
      BY <1>1, <1>3, <3>1, <3>2
  <2> QED
    BY <1>3, <1>6, <2>1 DEF Inv, Typed, Waiting, Pending, Cached, KeyOf
<1>10. ASSUME NEW got \in Answers, NEW q, Bounded(got, q) PROVE Bounded(got, q)'
  <2>1. CountIn(rows, q) <= CountIn(rows', q)
    BY <1>4 DEF Grown
  <2>2. got.total \in Nat
    BY DEF Answers
  <2> QED
    BY <1>7, <1>10, <2>1, <2>2 DEF Bounded
<1>11. Kept'
  <2>1. \A e \in cache \cup previous : Bounded(e.got, e.query)'
    BY <1>10 DEF Inv, Typed, Kept
  <2> QED
    BY <1>6, <2>1 DEF Inv, Kept, Bounded
<1>12. fetch.got \in Answers /\ fetch.done \in 0 .. 4
  BY DEF Inv, Typed, Fetches
<1>13. ASSUME NEW w, Right(w) PROVE Right(w)'
  <2>1. offset \in Nat /\ offset + Limit \in Nat
    BY LimitAssumption DEF Inv, Typed
  <2> QED
    BY <1>6, <1>8, <1>13, <2>1 DEF Right, Beyond
<1>14. SoFar'
  <2>1. Bounded(fetch.got, Query)'
    BY <1>6, <1>10, <1>12 DEF Inv, SoFar, Bounded
  <2>2. SearchSoFar'
    BY <1>6 DEF Inv, SoFar, SearchSoFar
  <2>3. AnalyticsSoFar'
    <3>1. LevelDistribution(fetch.got) \in Nat /\ Figures(fetch.got).errors \in Nat
      BY <1>12 DEF LevelDistribution, Figures, Answers, Logs
    <3> QED
      BY <1>6, <1>7, <1>8, <3>1 DEF Inv, SoFar, AnalyticsSoFar
  <2>4. Right(fetch.look)'
    BY <1>6, <1>13 DEF Inv, SoFar, Right, Beyond
  <2> QED
    BY <2>1, <2>2, <2>3, <2>4 DEF SoFar
<1>15. OffsetsMeetRows'
  BY <1>6, <1>7, <1>8 DEF Inv, Typed, OffsetsMeetRows
<1>16. Right(walk)'
  BY <1>6, <1>13 DEF Inv, Right, Beyond
<1> QED
  BY <1>9, <1>11, <1>14, <1>15, <1>16 DEF Inv

--------------------------------------------------------------------------------
(* Fetches that are sent, fail or are forgotten *)

\* What the page asks for stays, and so does the table; of the answers kept one may go.
OnlyFetches ==
  /\ UNCHANGED <<rows, asked, strayed, walk, previous>>
  /\ cache' \subseteq cache
  /\ fetch' = fetch \/ New(fetch', Query)

LEMMA FetchEffects ==
  ASSUME Typed, Waiting, Poll \/ Fail \/ (\E e \in cache : Forget(e)) \/ UNCHANGED vars
  PROVE  OnlyFetches /\ Waiting'
<1>0. Query \in Queries /\ fetch.query = Query /\ fetch.tries \in 0 .. Retries
  BY QueryNow DEF Typed, AskedTyped, Fetches
<1>1. CASE Poll
  <2>1. New(fetch', Query) /\ fetch'.phase = "running"
    BY <1>0, <1>1, UnreadType DEF Poll
  <2> QED
    BY <1>1, <2>1 DEF Poll, OnlyFetches, Waiting
<1>2. CASE Fail
  <2>0. Query' = Query /\ cache' = cache /\ UNCHANGED <<rows, asked, strayed, walk, previous>>
    BY <1>2 DEF Fail, Query, asked
  <2>1. CASE fetch.tries < Retries
    <3>1. fetch' = [Sent(Query) EXCEPT !.tries = fetch.tries + 1]
      BY <1>0, <1>2, <2>1 DEF Fail
    <3>2. fetch.tries + 1 \in 0 .. Retries
      BY <1>0, <2>1, ExplorerBounds
    <3>3. New(fetch', Query) /\ fetch'.phase = "running"
      BY <1>0, <3>1, <3>2, UnreadType
    <3> QED
      BY <2>0, <3>3 DEF OnlyFetches, Waiting
  <2>2. CASE ~(fetch.tries < Retries)
    <3>1. fetch' = Idle(Query) /\ failed' = failed \cup {KeyOf(Query)}
      BY <1>0, <1>2, <2>2 DEF Fail
    <3>2. New(fetch', Query)
      BY <1>0, <3>1, UnreadType
    <3>3. ~Pending'
      BY <2>0, <3>1 DEF Pending, KeyOf
    <3> QED
      BY <2>0, <3>2, <3>3 DEF OnlyFetches, Waiting
  <2> QED
    BY <2>1, <2>2
<1>3. CASE \E e \in cache : Forget(e)
  <2>1. PICK e \in cache : Forget(e)
    BY <1>3
  <2>2. Query' = Query /\ Cached(Query)' = Cached(Query)
    BY <2>1 DEF Forget, Query, asked, Cached, KeyOf
  <2>3. Pending' => Pending
    BY <2>1, <2>2 DEF Forget, Pending, KeyOf
  <2> QED
    BY <2>1, <2>3 DEF Forget, OnlyFetches, Waiting
<1>4. CASE UNCHANGED vars
  BY <1>4 DEF vars, store, asked, OnlyFetches, Waiting, Pending, Cached, Query
<1> QED
  BY <1>1, <1>2, <1>3, <1>4

LEMMA FetchStep ==
  ASSUME Inv, OnlyFetches, Waiting'
  PROVE  Inv'
<1> USE DEF Inv
<1>1. /\ rows' = rows /\ page' = page /\ projectId' = projectId /\ filter' = filter /\ offset' = offset
      /\ strayed' = strayed /\ walk' = walk /\ previous' = previous /\ cache' \subseteq cache
      /\ Query' = Query
  BY DEF OnlyFetches, asked, Query
<1>2. Typed'
  BY <1>1 DEF OnlyFetches, Typed, New
<1>3. Kept'
  BY <1>1 DEF Kept, Bounded
<1>4. SoFar'
  <2>1. CASE fetch' = fetch
    BY <1>1, <2>1 DEF SoFar, Bounded, SearchSoFar, AnalyticsSoFar, Right, Beyond
  <2>2. CASE New(fetch', Query)
    BY <1>1, <1>2, <2>2, NothingRead
  <2> QED
    BY <2>1, <2>2 DEF OnlyFetches
<1>5. OffsetsMeetRows' /\ Right(walk)'
  BY <1>1 DEF OffsetsMeetRows, Right, Beyond
<1> QED
  BY <1>2, <1>3, <1>4, <1>5

--------------------------------------------------------------------------------
(* The user *)

\* A click changes what the page asks for; what is shown meanwhile is among the answers kept.
Asks ==
  /\ UNCHANGED <<rows, cache>> /\ previous' \subseteq cache \cup previous
  /\ New(fetch', Query') /\ Waiting'

LEMMA AskEffects ==
  ASSUME Ask, Query' \in Queries
  PROVE  Asks
<1>1. previous' \subseteq cache \cup previous /\ rows' = rows /\ cache' = cache
  BY DEF Ask, Cached
<1>2. CASE fetch' = Sent(Query')
  BY <1>1, <1>2, UnreadType DEF Asks, Waiting
<1>3. CASE fetch' = Idle(Query') /\ \E e \in cache : e.key = KeyOf(Query)'
  <2>1. New(fetch', Query')
    BY <1>3, UnreadType
  <2>2. ~Pending'
    BY <1>1, <1>3 DEF Pending, Cached, KeyOf
  <2> QED
    BY <1>1, <2>1, <2>2 DEF Asks, Waiting
<1> QED
  BY <1>2, <1>3 DEF Ask

LEMMA UserTyped ==
  ASSUME Inv, User
  PROVE  Typed' /\ Asks
<1> USE DEF Inv
<1>0. Ask
  BY DEF User, Type, Next_, Previous, SwitchProject, Turn
<1> DEFINE AskedType ==
             /\ AskedTyped'
             /\ strayed' \in {"yes", "no"} /\ walk' \in Walks
<1>1. AskedType
  <2>1. ASSUME NEW f \in Filters, Type(f) PROVE AskedType
    BY <2>1 DEF Type, SetFilter, Typed, AskedTyped, Walks
  <2>2. ASSUME Next_ PROVE AskedType
    BY <2>2, LimitAssumption DEF Next_, NextOffset, Typed, AskedTyped, Walks
  <2>3. ASSUME Previous PROVE AskedType
    BY <2>3, LimitAssumption DEF Previous, Typed, AskedTyped, Walks
  <2>4. ASSUME NEW p \in Projects, SwitchProject(p) PROVE AskedType
    BY <2>4 DEF SwitchProject, Typed, AskedTyped, Walks
  <2>5. ASSUME Turn PROVE AskedType
    BY <2>5 DEF Turn, Typed, Filters, AskedTyped, Walks
  <2> QED
    BY <2>1, <2>2, <2>3, <2>4, <2>5 DEF User
<1>2. Asks
  BY <1>0, <1>1, QueryNext, AskEffects
<1> QED
  BY <1>1, <1>2 DEF Typed, AskedTyped, Asks, New

\* The pagination shows answers that are kept.
LEMMA DataKept == Data \subseteq cache \cup previous
  BY DEF Data, Cached

LEMMA NextButtonStep ==
  ASSUME Inv, Next_, Typed', Asks
  PROVE  OffsetsMeetRows' /\ Right(walk)'
<1> USE DEF Inv
<1>1. /\ page = "logs" /\ page' = page /\ projectId' = projectId /\ filter' = filter
      /\ offset' = offset + Limit /\ rows' = rows /\ cache' = cache
      /\ offset \in Nat /\ Limit \in Nat \ {0}
  BY LimitAssumption DEF Next_, NextOffset, Asks, Typed
<1>2. AskedTyped /\ AskedTyped'
  BY DEF Typed, AskedTyped
<1>3. /\ CountIn(rows', Query') = CountIn(rows, Query) /\ CountIn(rows, Query) \in Nat
      /\ \A n : Behind(rows', Query', n) <=> Beyond(n)
  <2>1. Query'.project = Query.project /\ Query'.filter = Query.filter
    BY <1>1, <1>2, QueryNow, QueryNext
  <2>2. /\ CountIn(rows, Query') = CountIn(rows, Query)
        /\ \A n : Behind(rows, Query', n) <=> Behind(rows, Query, n)
    BY <2>1, SameMatching
  <2> QED
    BY <1>1, <2>2, MatchingType DEF Beyond, Typed
<1>4. ASSUME strayed' = "no" PROVE strayed = "no" /\ offset + Limit < CountIn(rows, Query)
  <2>1. PICK d \in Data : Paged(d) /\ offset + Limit < d.got.total
    BY DEF Next_
  <2>2. strayed = "no" /\ d.query.project = projectId /\ d.query.filter = filter
    BY <1>4, <2>1 DEF Next_
  <2>3. d.got.total <= CountIn(rows, d.query) /\ d.got.total \in Nat
    BY <2>1, DataKept DEF Kept, Bounded, Typed, Answers
  <2>4. CountIn(rows, d.query) = CountIn(rows, Query)
    BY <1>2, <2>2, QueryNow, SameMatching
  <2> QED
    BY <1>1, <1>3, <2>1, <2>2, <2>3, <2>4
<1>5. OffsetsMeetRows'
  BY <1>1, <1>3, <1>4 DEF OffsetsMeetRows
<1>6. Right(walk)'
  BY <1>1, <1>3 DEF Next_, Right, Beyond
<1> QED
  BY <1>5, <1>6

LEMMA UserStep ==
  ASSUME Inv, User
  PROVE  Inv'
<1> USE DEF Inv
<1>1. Typed' /\ Asks /\ Waiting'
  BY UserTyped DEF Asks
<1>2. Kept'
  BY <1>1 DEF Kept, Bounded, Asks
<1>3. SoFar'
  BY <1>1, NothingRead DEF Asks
<1>4. ASSUME walk' = "off" PROVE Right(walk)'
  BY <1>4 DEF Right
<1>5. ASSUME offset' = 0, strayed' = "no" => strayed = "no" PROVE OffsetsMeetRows'
  BY <1>1, <1>5 DEF OffsetsMeetRows, Asks
<1>6. CASE (\E f \in Filters : Type(f)) \/ Turn
  BY <1>1, <1>2, <1>3, <1>4, <1>5, <1>6 DEF Type, SetFilter, Turn
<1>7. CASE Next_
  BY <1>1, <1>2, <1>3, <1>7, NextButtonStep
<1>8. CASE Previous
  <2>1. /\ rows' = rows /\ cache' = cache /\ page' = page /\ projectId' = projectId /\ filter' = filter
        /\ strayed' = strayed /\ offset' < offset /\ offset' \in Nat /\ offset \in Nat /\ offset > 0
    BY <1>1, <1>8, LimitAssumption DEF Previous, Asks, Typed
  <2>2. AskedTyped /\ AskedTyped'
    BY <1>1 DEF Typed, AskedTyped
  <2>3. CountIn(rows', Query') = CountIn(rows, Query) /\ CountIn(rows, Query) \in Nat
    BY <2>1, <2>2, QueryNow, QueryNext, SameMatching, MatchingType DEF Typed
  <2>4. OffsetsMeetRows'
    BY <2>1, <2>3 DEF OffsetsMeetRows
  <2> QED
    BY <1>1, <1>2, <1>3, <1>4, <1>8, <2>4 DEF Previous
<1>9. ASSUME NEW p \in Projects, SwitchProject(p) PROVE OffsetsMeetRows' /\ Right(walk)'
  <2>1. offset' = offset /\ offset \in Nat
    BY <1>9 DEF SwitchProject, Typed
  <2>2. CASE offset > 0
    BY <1>4, <1>9, <2>2 DEF SwitchProject, OffsetsMeetRows
  <2>3. CASE offset = 0
    BY <1>4, <1>5, <1>9, <2>1, <2>3 DEF SwitchProject
  <2> QED
    BY <2>1, <2>2, <2>3
<1> QED
  BY <1>1, <1>2, <1>3, <1>6, <1>7, <1>8, <1>9 DEF User

--------------------------------------------------------------------------------
(* An answer arrives *)

LEMMA ArriveStep ==
  ASSUME Inv, Arrive
  PROVE  Inv'
<1> USE DEF Inv
<1> DEFINE new == [key |-> Query, query |-> Query, got |-> fetch.got]
<1>0. fetch.query = Query
  BY DEF Typed
<1>1. /\ rows' = rows /\ page' = page /\ projectId' = projectId /\ filter' = filter /\ offset' = offset
      /\ strayed' = strayed /\ Query' = Query
      /\ fetch' = Idle(Query) /\ walk' = fetch.look
      /\ cache' = (cache \ Cached(Query)) \cup {new}
      /\ previous' \subseteq {new}
  BY <1>0 DEF Arrive, asked, Query, KeyOf
<1>2. /\ new.key = Query /\ new.query = Query /\ new.got = fetch.got
      /\ Query \in Queries /\ Query.page = page /\ Query.offset = offset
      /\ fetch.got \in Answers /\ fetch.look \in Walks
  BY QueryNow DEF Typed, AskedTyped, Fetches
<1> HIDE DEF new
<1>3. \A e \in cache \ Cached(Query) : e.key # Query
  BY DEF Cached, KeyOf
<1>4. New(fetch', Query')
  BY <1>1, <1>2, UnreadType
<1>5. Typed' /\ Waiting'
  <2>1. \A e \in cache' \cup previous' : e.key = e.query /\ e.query \in Queries /\ e.got \in Answers
    BY <1>1, <1>2 DEF Typed
  <2>2. \A e, f \in cache' : e.key = f.key => e = f
    BY <1>1, <1>2, <1>3 DEF Typed
  <2>3. ~Pending'
    BY <1>1, <1>2 DEF Pending, Cached, KeyOf
  <2> QED
    BY <1>1, <1>2, <1>4, <2>1, <2>2, <2>3 DEF Typed, New, Waiting
<1>6. (page = "logs" => fetch.done = 2) /\ (page = "analytics" => fetch.done = 4)
  <2>1. fetch.done = Len(Statements(Query))
    BY <1>0 DEF Arrive
  <2>2. Statements(Query) = IF page = "logs" THEN <<"total", "page">>
                            ELSE <<"total", "levels", "services", "errors">>
    BY <1>2 DEF Statements
  <2>3. page = "logs" => fetch.done = 2
    BY <2>1, <2>2
  <2>4. page = "analytics" => fetch.done = 4
    BY <2>1, <2>2
  <2> QED
    BY <2>3, <2>4
<1>7. Kept'
  <2>1. Bounded(new.got, new.query)
    BY <1>2 DEF SoFar
  <2>2. CASE page = "logs"
    <3>1. Fitting(new)
      BY <1>2, <1>6, <2>2 DEF SoFar, SearchSoFar, Fitting
    <3> QED
      BY <1>1, <2>1, <3>1 DEF Kept, Bounded
  <2>3. CASE page = "analytics"
    <3>0. /\ fetch.got.total <= LevelDistribution(fetch.got)
          /\ LevelDistribution(fetch.got) <= fetch.got.services
          /\ Figures(fetch.got).errors <= fetch.got.errors
      <4>1. fetch.done = 4
        BY <1>6, <2>3
      <4>2. fetch.done >= 2 /\ fetch.done >= 3 /\ fetch.done >= 4
        BY <4>1
      <4>3. AnalyticsSoFar
        BY DEF SoFar
      <4> QED
        BY <2>3, <4>2, <4>3 DEF AnalyticsSoFar
    <3>1. AddsUp(fetch.got)
      BY <3>0 DEF AddsUp, Figures, ServiceBreakdown, ErrorTrend
    <3>2. Fitting(new)
      BY <1>2, <2>3, <3>1 DEF Fitting
    <3> QED
      BY <1>1, <2>1, <3>2 DEF Kept, Bounded
  <2> QED
    BY <2>2, <2>3 DEF Typed
<1>8. SoFar'
  BY <1>4, <1>5, NothingRead
<1>9. OffsetsMeetRows'
  <2>1. ASSUME strayed = "no", page = "logs", offset > 0 PROVE fetch.got.page.size > 0
    BY <1>6, <2>1 DEF SoFar, SearchSoFar
  <2>2. strayed = "no" => \A e \in cache' : e.query.page = "logs" /\ e.query.offset > 0 => e.got.page.size > 0
    BY <1>1, <1>2, <2>1 DEF OffsetsMeetRows
  <2> QED
    BY <1>1, <2>2 DEF OffsetsMeetRows
<1>10. Right(walk)'
  BY <1>1 DEF SoFar, Right, Beyond
<1> QED
  BY <1>5, <1>7, <1>8, <1>9, <1>10

--------------------------------------------------------------------------------
(* A statement of the call *)

LEMMA MatchingNow ==
  ASSUME NEW q
  PROVE  /\ Matching(q) = MatchingIn(rows, q) /\ Total(q) = CountIn(rows, q)
         /\ \A i : Ahead(i, q) = AheadIn(i, rows, q)
         /\ \A l : CountOf(l, q) = Cardinality(Places(l, rows, q))
<1>1. Matching(q) = MatchingIn(rows, q)
  BY DEF Matching, MatchingIn
<1> QED
  BY <1>1 DEF Total, CountIn, Ahead, AheadIn, CountOf, Places

\* The rows of a page: as many as there are from the offset, up to the limit.
LEMMA PageShape ==
  ASSUME Typed, NEW q \in Queries
  PROVE  /\ Page(q) \in [size : Nat, sought : {"yes", "no"}] /\ Page(q).size <= Limit
         /\ q.offset + Limit < CountIn(rows, q) => Page(q).size = Limit
         /\ ~(q.offset + Limit < CountIn(rows, q)) => Page(q).size >= CountIn(rows, q) - q.offset
         /\ q.offset < CountIn(rows, q) => Page(q).size > 0
<1> DEFINE o == q.offset
           n == CountIn(rows, q)
           end == Last(q)
           size == Size(q, end)
<1>1. o \in Nat /\ n \in Nat /\ Limit \in Nat /\ Limit > 0
  BY MatchingType, LimitAssumption DEF Queries, Typed
<1>2. end = IF o + Limit < n THEN o + Limit ELSE n
  BY MatchingNow DEF Last
<1> HIDE DEF end
<1>3. size = IF o < end THEN end - o ELSE 0
  BY DEF Size
<1>4. Page(q).size = size /\ Page(q).sought \in {"yes", "no"} /\ Page(q) = [size |-> size, sought |-> Page(q).sought]
  BY DEF Page, Sought, end
<1> HIDE DEF size, o, n
<1>5. /\ size \in Nat /\ size <= Limit
      /\ o + Limit < n => size = Limit
      /\ ~(o + Limit < n) => size >= n - o
      /\ o < n => size > 0
  BY <1>1, <1>2, <1>3
<1>6. Page(q) \in [size : Nat, sought : {"yes", "no"}]
  BY <1>4, <1>5
<1> QED
  BY <1>4, <1>5, <1>6 DEF o, n

\* A log behind the offset that is not on the page is behind the page.
LEMMA PageMisses ==
  ASSUME Typed, NEW q \in Queries, There(q) = "yes", Page(q).sought # "yes",
         q.offset = 0 \/ Behind(rows, q, q.offset)
  PROVE  Behind(rows, q, q.offset + Limit) /\ q.offset + Limit < CountIn(rows, q)
<1> DEFINE o == q.offset
           n == CountIn(rows, q)
           end == Last(q)
<1>1. o \in Nat /\ n \in Nat /\ Limit \in Nat
  BY MatchingType, LimitAssumption DEF Queries, Typed
<1>2. end = IF o + Limit < n THEN o + Limit ELSE n
  BY MatchingNow DEF Last
<1>3. PICK h \in MatchingIn(rows, q) : rows[h] = "sought"
  BY MatchingNow DEF There
<1>4. ASSUME NEW i \in MatchingIn(rows, q), rows[i] = "sought"
      PROVE  AheadIn(i, rows, q) >= end /\ AheadIn(i, rows, q) < n /\ AheadIn(i, rows, q) \in Nat
  <2>1. AheadIn(i, rows, q) \in Nat /\ AheadIn(i, rows, q) < n
    BY MatchingType, AheadBelow DEF Typed
  <2>2. o <= AheadIn(i, rows, q)
    BY <1>1, <1>4, <2>1 DEF Behind
  <2>3. ~(o <= AheadIn(i, rows, q) /\ AheadIn(i, rows, q) < end)
    BY <1>4, MatchingNow DEF Page, Sought
  <2> HIDE DEF o, n, end
  <2> QED
    BY <1>1, <1>2, <2>1, <2>2, <2>3
<1>5. o + Limit < n /\ end = o + Limit
  <2>1. AheadIn(h, rows, q) >= end /\ AheadIn(h, rows, q) < n /\ AheadIn(h, rows, q) \in Nat
    BY <1>3, <1>4
  <2> HIDE DEF o, n, end
  <2> QED
    BY <1>1, <1>2, <2>1
<1> QED
  BY <1>3, <1>4, <1>5 DEF Behind

\* What each statement reads; the rest of the answer stays.
ReadsInto(st, q, got, r) ==
  /\ r \in Answers
  /\ st = "total" => r.total = CountIn(rows, q) /\ r.page = got.page
  /\ st # "total" => r.total = got.total
  /\ st = "page" => r.page = Page(q)
  /\ st # "page" => r.page = got.page
  /\ st = "levels" => /\ LevelDistribution(r) = CountIn(rows, q)
                      /\ Figures(r).errors = ErrorsIn(rows, q)
  /\ st \in {"services", "errors"} => r.levels = got.levels
  /\ st = "services" => r.services = CountIn(rows, q)
  /\ st = "errors" => r.services = got.services /\ r.errors = ErrorsIn(rows, q)

LEMMA ReadEffects ==
  ASSUME Typed, NEW got \in Answers, NEW q \in Queries,
         NEW st \in {"total", "page", "levels", "services", "errors"}
  PROVE  ReadsInto(st, q, got, Read(st, q, got))
<1>1. Total(q) = CountIn(rows, q) /\ CountIn(rows, q) \in Nat
  BY MatchingNow, MatchingType DEF Typed
<1>2. \A l \in Logs : CountOf(l, q) \in Nat /\ CountOf(l, q) = Cardinality(Places(l, rows, q))
  <2> TAKE l \in Logs
  <2>1. CountOf(l, q) = Cardinality(Places(l, rows, q))
    BY MatchingNow
  <2>2. Cardinality(Places(l, rows, q)) \in Nat
    BY MatchingType DEF Typed
  <2> QED
    BY <2>1, <2>2
<1>3. "plain" \in Logs /\ "error" \in Logs /\ "sought" \in Logs
  BY DEF Logs
<1>4. /\ CountOf("plain", q) + CountOf("error", q) + CountOf("sought", q) = CountIn(rows, q)
      /\ CountOf("error", q) + CountOf("sought", q) = ErrorsIn(rows, q)
      /\ ErrorsIn(rows, q) \in Nat
  <2>1. /\ CountOf("plain", q) = Cardinality(Places("plain", rows, q))
        /\ CountOf("error", q) = Cardinality(Places("error", rows, q))
        /\ CountOf("sought", q) = Cardinality(Places("sought", rows, q))
    BY <1>2, <1>3
  <2>2. CountOf("plain", q) + CountOf("error", q) + CountOf("sought", q) = CountIn(rows, q)
    BY <2>1, Levels DEF Typed
  <2>3. CountOf("error", q) + CountOf("sought", q) = ErrorsIn(rows, q) /\ ErrorsIn(rows, q) \in Nat
    BY <2>1, MatchingType DEF Typed, ErrorsIn
  <2> QED
    BY <2>2, <2>3
<1>5. CASE st = "total"
  BY <1>1, <1>5 DEF Read, ReadsInto, Answers
<1>6. CASE st = "page"
  <2>1. Page(q) \in [size : Nat, sought : {"yes", "no"}]
    BY PageShape
  <2>2. Read(st, q, got) = [got EXCEPT !.page = Page(q)]
    BY <1>6 DEF Read
  <2> QED
    BY <1>6, <2>1, <2>2 DEF ReadsInto, Answers
<1>7. CASE st = "levels"
  <2> DEFINE counts == [l \in Logs |-> CountOf(l, q)]
  <2>1. /\ counts \in [Logs -> Nat]
        /\ counts["plain"] + counts["error"] + counts["sought"] = CountIn(rows, q)
        /\ counts["error"] + counts["sought"] = ErrorsIn(rows, q)
    BY <1>2, <1>3, <1>4
  <2>2. Read(st, q, got) = [got EXCEPT !.levels = counts]
    BY <1>7 DEF Read
  <2> HIDE DEF counts
  <2> DEFINE r == Read(st, q, got)
  <2>3. r \in Answers /\ r.total = got.total /\ r.page = got.page /\ r.levels = counts
    BY <2>1, <2>2 DEF Answers
  <2>4. LevelDistribution(r) = CountIn(rows, q) /\ Figures(r).errors = ErrorsIn(rows, q)
    BY <2>1, <2>3 DEF LevelDistribution, Figures
  <2> HIDE DEF r
  <2>5. ReadsInto(st, q, got, r)
    BY <1>7, <2>3, <2>4 DEF ReadsInto
  <2> QED
    BY <2>5 DEF r
<1>8. CASE st = "services"
  BY <1>1, <1>8 DEF Read, ReadsInto, Answers
<1>9. CASE st = "errors"
  BY <1>4, <1>9 DEF Read, ReadsInto, Answers
<1> QED
  BY <1>5, <1>6, <1>7, <1>8, <1>9

\* A page read after its total covers the range shown.
LEMMA PageCovers ==
  ASSUME Typed, NEW got \in Answers, NEW q \in Queries, got.page = Page(q), got.total <= CountIn(rows, q)
  PROVE  Covers(got, q)
<1> DEFINE o == q.offset
           size == got.page.size
           n == CountIn(rows, q)
<1>1. o \in Nat /\ size \in Nat /\ n \in Nat /\ got.total \in Nat /\ Limit \in Nat /\ got.total <= n
  BY LimitAssumption, MatchingType DEF Queries, Answers, Typed
<1>2. /\ o + Limit < n => size = Limit
      /\ ~(o + Limit < n) => size >= n - o
  BY <1>1, PageShape
<1> HIDE DEF o, size, n
<1>3. LET range == [first |-> o + 1, last |-> IF o + Limit < got.total THEN o + Limit ELSE got.total]
      IN  size >= range.last - range.first + 1
  BY <1>1, <1>2
<1> QED
  BY <1>3 DEF Covers, RangeShown, o, size

\* A user who looks at the page and has not found the log sought goes on, or it has come meanwhile.
LEMMA LookRight ==
  ASSUME Typed, page = "logs", Right(walk), NEW got \in Answers
  PROVE  Right(Look(got)) /\ Look(got) \in Walks
<1>1. /\ Query \in Queries /\ Query.offset = offset /\ walk \in Walks
      /\ offset \in Nat /\ Limit \in Nat /\ got.total \in Nat
      /\ Total(Query) = CountIn(rows, Query) /\ CountIn(rows, Query) \in Nat
  BY QueryNow, MatchingNow, MatchingType, LimitAssumption DEF Typed, AskedTyped, Answers
<1>2. CASE Look(got) = walk
  BY <1>1, <1>2
<1>3. CASE Look(got) \in {"off", "seen"}
  BY <1>3 DEF Right, Walks
<1>4. CASE Look(got) # walk /\ Look(got) \notin {"off", "seen"}
  <2>1. /\ offset = 0 \/ walk \in {"due", "ahead"}
        /\ There(Query) = "yes" /\ Page(Query).sought # "yes"
    BY <1>1, <1>4 DEF Look, There
  <2>2. Query.offset = 0 \/ Behind(rows, Query, Query.offset)
    <3>1. ASSUME Behind(rows, Query, offset + Limit) PROVE Behind(rows, Query, offset)
      <4>1. \A i : AheadIn(i, rows, Query) \in Nat
        BY MatchingType DEF Typed
      <4> QED
        BY <1>1, <3>1, <4>1 DEF Behind
    <3> QED
      BY <1>1, <2>1, <3>1 DEF Right, Beyond
  <2>3. Beyond(offset + Limit) /\ offset + Limit < CountIn(rows, Query)
    BY <1>1, <2>1, <2>2, PageMisses DEF Beyond
  <2>4. Look(got) = "ahead"
    BY <1>1, <1>4, <2>1, <2>3 DEF Look
  <2> QED
    BY <2>3, <2>4 DEF Right, Walks
<1> QED
  BY <1>2, <1>3, <1>4

LEMMA StatementStep ==
  ASSUME Inv, Statement
  PROVE  Inv'
<1> USE DEF Inv
<1> DEFINE st == Statements(Query)[fetch.done + 1]
<1>1. /\ rows' = rows /\ page' = page /\ projectId' = projectId /\ filter' = filter /\ offset' = offset
      /\ cache' = cache /\ previous' = previous /\ failed' = failed
      /\ strayed' = strayed /\ walk' = walk /\ Query' = Query
  BY DEF Statement, asked, store, Query
<1>2. /\ Query \in Queries /\ Query.page = page /\ Query.offset = offset
      /\ fetch.query = Query /\ fetch.got \in Answers /\ fetch.done \in 0 .. 4
      /\ CountIn(rows, Query) \in Nat /\ ErrorsIn(rows, Query) \in Nat
  BY QueryNow, MatchingType DEF Typed, AskedTyped, Fetches
<1>3. /\ fetch.done < Len(Statements(Query))
      /\ fetch' = [fetch EXCEPT !.done = fetch.done + 1, !.got = Read(st, Query, fetch.got),
                                !.look = IF st = "page" THEN Look(fetch.got) ELSE fetch.look]
  BY <1>2 DEF Statement
<1>4. \/ page = "logs" /\ fetch.done = 0 /\ st = "total"
      \/ page = "logs" /\ fetch.done = 1 /\ st = "page"
      \/ page = "analytics" /\ fetch.done = 0 /\ st = "total"
      \/ page = "analytics" /\ fetch.done = 1 /\ st = "levels"
      \/ page = "analytics" /\ fetch.done = 2 /\ st = "services"
      \/ page = "analytics" /\ fetch.done = 3 /\ st = "errors"
  <2>1. CASE page = "logs"
    <3>1. Statements(Query) = <<"total", "page">>
      BY <1>2, <2>1 DEF Statements
    <3> QED
      BY <1>2, <1>3, <2>1, <3>1
  <2>2. CASE page = "analytics"
    <3>1. Statements(Query) = <<"total", "levels", "services", "errors">>
      BY <1>2, <2>2 DEF Statements
    <3> QED
      BY <1>2, <1>3, <2>2, <3>1
  <2> QED
    BY <2>1, <2>2 DEF Typed
<1> HIDE DEF st
<1>5. st \in {"total", "page", "levels", "services", "errors"} /\ fetch.done + 1 \in 0 .. 4
  BY <1>4
<1>6. /\ fetch'.done = fetch.done + 1 /\ fetch'.got = Read(st, Query, fetch.got)
      /\ fetch'.look = IF st = "page" THEN Look(fetch.got) ELSE fetch.look
      /\ fetch'.phase = fetch.phase /\ fetch'.query = fetch.query
  BY <1>3 DEF Typed, Fetches
<1>0. ReadsInto(st, Query, fetch.got, fetch'.got)
  BY <1>2, <1>5, <1>6, ReadEffects
<1>7. Right(fetch'.look) /\ fetch'.look \in Walks
  <2>1. fetch.look \in Walks
    BY DEF Typed, Fetches
  <2>2. CASE st = "page"
    BY <1>2, <1>4, <1>6, <2>2, LookRight
  <2>3. CASE st # "page"
    BY <1>6, <2>1, <2>3 DEF SoFar
  <2> QED
    BY <2>2, <2>3
<1>8. Typed'
  <2>1. fetch'.got \in Answers
    BY <1>0 DEF ReadsInto
  <2>2. fetch' \in Fetches
    BY <1>3, <1>5, <1>6, <1>7, <2>1 DEF Typed, Fetches
  <2> QED
    BY <1>1, <1>6, <2>2 DEF Typed
<1>9. Waiting' /\ Kept' /\ OffsetsMeetRows' /\ Right(walk)'
  BY <1>1, <1>6 DEF Waiting, Pending, Cached, KeyOf, Kept, Bounded, OffsetsMeetRows, Right, Beyond
<1>10. fetch'.got \in Answers /\ fetch'.got.total \in Nat
  BY <1>0 DEF ReadsInto, Answers
<1>11. Bounded(fetch.got, Query)'
  <2>1. fetch'.got.total = fetch.got.total \/ fetch'.got.total = CountIn(rows, Query)
    BY <1>0 DEF ReadsInto
  <2>2. fetch'.got.page = fetch.got.page \/ fetch'.got.page = Page(Query)
    BY <1>0 DEF ReadsInto
  <2>3. fetch.got.total <= CountIn(rows, Query) /\ fetch.got.page.size <= Limit
    BY DEF SoFar, Bounded
  <2> QED
    BY <1>1, <1>2, <2>1, <2>2, <2>3, PageShape DEF Bounded
<1>12. SearchSoFar'
  <2>1. CASE page = "logs" /\ fetch.done = 0
    BY <1>1, <1>6, <2>1 DEF SearchSoFar
  <2>2. CASE page = "logs" /\ fetch.done = 1
    <3>1. fetch'.got.total = fetch.got.total /\ fetch'.got.page = Page(Query)
      BY <1>0, <1>4, <2>2 DEF ReadsInto
    <3>2. Covers(fetch'.got, Query)
      BY <1>2, <1>10, <3>1, PageCovers DEF SoFar, Bounded
    <3>3. strayed = "no" /\ offset > 0 => fetch'.got.page.size > 0
      BY <1>2, <3>1, PageShape DEF OffsetsMeetRows
    <3>4. fetch'.done = 2
      BY <1>6, <2>2
    <3> QED
      BY <1>1, <2>2, <3>2, <3>3, <3>4 DEF SearchSoFar
  <2>3. CASE page = "analytics"
    BY <1>1, <2>3 DEF SearchSoFar
  <2> QED
    BY <1>4, <2>1, <2>2, <2>3
<1>13. AnalyticsSoFar'
  <2>0. LevelDistribution(fetch.got) \in Nat /\ Figures(fetch.got).errors \in Nat
    BY <1>2 DEF LevelDistribution, Figures, Answers, Logs
  <2>1. CASE page = "logs"
    BY <1>1, <2>1 DEF AnalyticsSoFar
  <2>2. CASE page = "analytics" /\ fetch.done = 0
    BY <1>1, <1>6, <2>2 DEF AnalyticsSoFar
  <2>3. CASE page = "analytics" /\ fetch.done = 1
    <3>1. /\ fetch'.got.total = fetch.got.total /\ LevelDistribution(fetch'.got) = CountIn(rows, Query)
          /\ Figures(fetch'.got).errors = ErrorsIn(rows, Query)
      BY <1>0, <1>4, <2>3 DEF ReadsInto
    <3>2. fetch.got.total <= CountIn(rows, Query)
      BY DEF SoFar, Bounded
    <3>3. fetch'.done = 2
      BY <1>6, <2>3
    <3> QED
      BY <1>1, <1>2, <3>1, <3>2, <3>3 DEF AnalyticsSoFar
  <2>4. ASSUME page = "analytics", fetch.done >= 2
        PROVE  /\ fetch.got.total <= LevelDistribution(fetch.got)
               /\ LevelDistribution(fetch.got) <= CountIn(rows, Query)
               /\ Figures(fetch.got).errors <= ErrorsIn(rows, Query)
    BY <2>4 DEF SoFar, AnalyticsSoFar
  <2>5. CASE page = "analytics" /\ fetch.done = 2
    <3>1. /\ fetch'.got.total = fetch.got.total /\ fetch'.got.levels = fetch.got.levels
          /\ fetch'.got.services = CountIn(rows, Query)
      BY <1>0, <1>4, <2>5 DEF ReadsInto
    <3>2. /\ fetch'.done = 3 /\ LevelDistribution(fetch'.got) = LevelDistribution(fetch.got)
          /\ Figures(fetch'.got).errors = Figures(fetch.got).errors
      BY <1>6, <2>5, <3>1 DEF LevelDistribution, Figures
    <3> QED
      BY <1>1, <2>4, <2>5, <3>1, <3>2 DEF AnalyticsSoFar
  <2>6. CASE page = "analytics" /\ fetch.done = 3
    <3>1. /\ fetch'.got.total = fetch.got.total /\ fetch'.got.levels = fetch.got.levels
          /\ fetch'.got.services = fetch.got.services
          /\ fetch'.got.errors = ErrorsIn(rows, Query)
      BY <1>0, <1>4, <2>6 DEF ReadsInto
    <3>2. /\ fetch'.done = 4 /\ LevelDistribution(fetch'.got) = LevelDistribution(fetch.got)
          /\ Figures(fetch'.got).errors = Figures(fetch.got).errors
      BY <1>6, <2>6, <3>1 DEF LevelDistribution, Figures
    <3>3. LevelDistribution(fetch.got) <= fetch.got.services
      BY <2>6 DEF SoFar, AnalyticsSoFar
    <3> QED
      BY <1>1, <2>4, <2>6, <3>1, <3>2, <3>3 DEF AnalyticsSoFar
  <2> QED
    BY <1>4, <2>1, <2>2, <2>3, <2>5, <2>6
<1>14. Right(fetch.look)'
  BY <1>1, <1>7 DEF Right, Beyond
<1> QED
  BY <1>8, <1>9, <1>11, <1>12, <1>13, <1>14 DEF SoFar

--------------------------------------------------------------------------------

LEMMA InitInv == Init => Inv
<1> SUFFICES ASSUME Init PROVE Inv
  OBVIOUS
<1>1. rows \in Seq(Logs) /\ Len(rows) <= MaxLogs
  BY LimitAssumption DEF Init
<1>2. AskedTyped
  BY HomeAssumption DEF Init, AskedTyped, Filters
<1>3. New(fetch, Query) /\ fetch.phase = "running" /\ Query \in Queries
  BY <1>2, QueryNow, UnreadType DEF Init
<1>4. Typed /\ Waiting
  BY <1>1, <1>2, <1>3 DEF Init, Typed, AskedTyped, New, Walks, Waiting
<1>5. Kept
  BY DEF Init, Kept
<1>6. SoFar
  <2>1. CountIn(rows, Query) \in Nat
    BY <1>1, MatchingType
  <2>2. Bounded(fetch.got, Query)
    BY <1>3, <2>1, LimitAssumption DEF Bounded, New
  <2> QED
    BY <1>3, <2>2 DEF SoFar, SearchSoFar, AnalyticsSoFar, Right, New
<1>7. OffsetsMeetRows /\ Right(walk)
  BY DEF Init, OffsetsMeetRows, Right
<1> QED
  BY <1>4, <1>5, <1>6, <1>7 DEF Inv

\* Inv is inductive: it holds of every state the explorer can reach.
THEOREM Invariant == Spec => []Inv
<1>1. Inv /\ [Next]_vars => Inv'
  BY UserStep, StatementStep, ArriveStep, StoreStep, FetchEffects, FetchStep DEF Next, Inv
<1> QED
  BY <1>1, InitInv, PTL DEF Spec

--------------------------------------------------------------------------------

\* Every variable keeps its type, an answer has no more rows than the limit and counts no more logs
\* than there are, the cache has one answer for each key, and the fetch is the one of the page's query.
THEOREM TypeCorrect == Spec => []TypeOK
<1>1. Inv => TypeOK
  <2> SUFFICES ASSUME Inv PROVE TypeOK
    OBVIOUS
  <2>1. ASSUME NEW e \in cache \cup previous PROVE e.got.page.size <= Limit /\ e.got.total <= MaxLogs
    <3>1. /\ e.got.total <= CountIn(rows, e.query) /\ e.got.page.size <= Limit
          /\ e.got.total \in Nat
      BY DEF Inv, Typed, Kept, Bounded, Answers
    <3>2. /\ CountIn(rows, e.query) <= Len(rows) /\ Len(rows) <= MaxLogs
          /\ CountIn(rows, e.query) \in Nat /\ Len(rows) \in Nat
      BY MatchingType DEF Inv, Typed
    <3> QED
      BY <3>1, <3>2, LimitAssumption
  <2> QED
    BY <2>1 DEF Inv, Typed, TypeOK, Fetches, Walks
<1> QED
  BY <1>1, Invariant, PTL

\* Whatever order answers, clicks, polls and failures come in, what a page shows was read for the
\* project, the filters and the offset it has now; rows of another query are on it only while a fetch
\* sent for just these is under way.
THEOREM ShownFitsTheorem == Spec => []ShownFits
<1>1. Inv => ShownFits
  <2> SUFFICES ASSUME Inv, NEW e \in Data, e.query # Query
               PROVE  fetch.phase = "running" /\ fetch.query = Query
    BY DEF ShownFits
  <2>1. \A d \in Cached(Query) : d.query = Query
    BY DEF Inv, Typed, Cached, KeyOf
  <2>2. Pending
    BY <2>1 DEF Data
  <2> QED
    BY <2>2 DEF Inv, Typed, Waiting
<1> QED
  BY <1>1, Invariant, PTL

\* However many logs arrive between the statements of a call, the table has the rows its range
\* claims and no chart falls behind the figures above it.
THEOREM AnswersAddUpTheorem == Spec => []AnswersAddUp
<1>1. Inv => AnswersAddUp
  BY DEF Inv, Kept, Fitting, Covers, AddsUp, AnswersAddUp
<1> QED
  BY <1>1, Invariant, PTL

\* "No logs found" beyond the first page follows only on an offset that was carried to another
\* project or chosen on another query's total.
THEOREM NotStrandedTheorem == Spec => []NotStranded
<1>1. Inv => NotStranded
  <2> SUFFICES ASSUME Inv, NEW e \in Cached(Query), page = "logs", NothingFound(e), offset # 0,
                      strayed # "yes"
               PROVE  FALSE
    BY DEF NotStranded
  <2>1. e.query = Query /\ e \in cache
    BY DEF Inv, Typed, Cached, KeyOf
  <2>2. e.query.page = "logs" /\ e.query.offset > 0 /\ strayed = "no"
    BY <2>1, QueryNow DEF Inv, Typed, AskedTyped
  <2>3. e.got.page.size > 0
    BY <2>1, <2>2 DEF Inv, OffsetsMeetRows
  <2> QED
    BY <2>3 DEF NothingFound
<1> QED
  BY <1>1, Invariant, PTL

\* A user who pages from the first page to the last and waits for each misses no log that was there
\* at the start and matches, however many rows arrive late.
THEOREM WalkMissesNothingTheorem == Spec => []WalkMissesNothing
<1>1. Inv => WalkMissesNothing
  BY DEF Inv, Right, WalkMissesNothing
<1> QED
  BY <1>1, Invariant, PTL
================================================================================
