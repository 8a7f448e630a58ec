------------------------------- MODULE LogExplorer -------------------------------
(***************************************************************************)
(* The Log Explorer and the Analytics page of the dashboard                *)
(* (app/dashboard/logs, app/dashboard/analytics, lib/hooks/use-logs.ts)    *)
(* over the API of LogSearch, with the library that caches its answers     *)
(* (React Query, external): one entry per query, fetched when a page asks  *)
(* for it and every 30 seconds, kept for a while once nobody asks.         *)
(***************************************************************************)
EXTENDS LogSearch

CONSTANTS
  Retries,      \* the retries of a failed call
  MaxClicks,    \* bound on what the user does
  MaxFaults     \* bound on calls that fail

ASSUME ExplorerBounds == Retries \in Nat /\ MaxClicks \in Nat /\ MaxFaults \in Nat

VARIABLES
  page,         \* "logs" or "analytics"
  projectId,    \* the selected project
  filter,       \* the form's filters
  offset,
  cache,        \* the answers kept, each with its key and the query it answers
  previous,     \* keepPreviousData: the answer shown last, as a set of one or none
  failed,       \* the keys whose last fetch failed
  fetch,        \* the fetch of the page's query
  strayed,      \* history: "yes" once an offset met a query it had not been checked against
  walk,         \* history: where a user paging to the end stands with the log sought
  clicks, faults   \* counted against their bounds

asked == <<page, projectId, filter, offset>>
store == <<cache, previous, failed>>
vars == <<rows, asked, store, fetch, strayed, walk, clicks, faults>>

Query == IF page = "logs" THEN LogsQuery(projectId, filter, offset) ELSE AnalyticsQuery(projectId)

\* (variant) The offset is no part of the key.
KeyWithoutOffset(q) == [q EXCEPT !.offset = 0]

\* queryKey: every part of the query.
KeyOf(q) == q

Cached(q) == {e \in cache : e.key = KeyOf(q)}
Idle(q) == [phase |-> "idle", query |-> q, done |-> 0, tries |-> 0, got |-> Unread, look |-> "off"]
Sent(q) == [Idle(q) EXCEPT !.phase = "running"]

Init ==
  /\ rows = <<>> /\ page = "logs" /\ projectId = Home /\ filter = "all" /\ offset = 0
  /\ cache = {} /\ previous = {} /\ failed = {} /\ fetch = Sent(Query)
  /\ strayed = "no" /\ walk = "off" /\ clicks = 0 /\ faults = 0

--------------------------------------------------------------------------------
(* What the page shows *)

Pending == Cached(Query) = {} /\ KeyOf(Query) \notin failed

\* The data of the hook: the query's own, or what was shown before it while it is pending.
Data == IF Cached(Query) # {} THEN Cached(Query) ELSE IF Pending /\ page = "logs" THEN previous ELSE {}
IsError == KeyOf(Query) \in failed

\* "No logs found"
NothingFound(d) == ~IsError /\ d.got.page.size = 0

\* The pagination is on the page, below a table with rows.
Paged(d) == ~IsError /\ ~NothingFound(d) /\ d.got.total > Limit

\* "Showing first - last of total"
RangeShown(o, total) == [first |-> o + 1, last |-> IF o + Limit < total THEN o + Limit ELSE total]

\* The Analytics page: the cards, the banner with the error rate ("errors out of total logs") ...
Figures(got) == [total |-> got.total, errors |-> got.levels["error"] + got.levels["sought"]]

\* ... and the charts, by what they add up to: 0 is "No data available", "No service data
\* available", "No error data available".
LevelDistribution(got) == got.levels["plain"] + got.levels["error"] + got.levels["sought"]
ServiceBreakdown(got) == got.services
ErrorTrend(got) == got.errors

--------------------------------------------------------------------------------
(* The fetches *)

\* The page asks for another query, so the old fetch is aborted.  One that has an answer is
\* fetched again only if that is no longer fresh; the answer of the old one is kept to be shown.
Ask ==
  /\ \/ fetch' = Sent(Query')
     \/ fetch' = Idle(Query') /\ \E e \in cache : e.key = KeyOf(Query)'
  /\ failed' = failed \ {k \in failed : k = KeyOf(Query)' /\ ~\E e \in cache : e.key = k}
  /\ previous' = IF page' # page \/ page' = "analytics" THEN {}
                 ELSE IF \E e \in cache : e.key = KeyOf(Query)' THEN {e \in cache : e.key = KeyOf(Query)'}
                 ELSE IF Cached(Query) # {} THEN Cached(Query) ELSE previous
  /\ UNCHANGED <<rows, cache, faults>>

\* refetchInterval
Poll ==
  /\ fetch.phase = "idle" /\ fetch' = Sent(Query)
  /\ failed' = IF Cached(Query) = {} THEN failed \ {KeyOf(Query)} ELSE failed
  /\ UNCHANGED <<rows, asked, cache, previous, strayed, walk, clicks, faults>>

\* History: what the page being read will tell a user of the walk: the log sought is on it, may come
\* on a later page, or has been missed if this is the last.  A total counted before a log came
\* between does not tell the last page: the next answer will.
Look(got) ==
  IF offset > 0 /\ walk \notin {"due", "ahead"} THEN walk
  ELSE IF There(Query) = "no" THEN "off"
  ELSE IF Page(Query).sought = "yes" THEN "seen"
  ELSE IF offset + Limit < got.total THEN "ahead"
  ELSE IF got.total < Total(Query) THEN walk
  ELSE "missed"

Statement ==
  /\ fetch.phase = "running" /\ fetch.done < Len(Statements(fetch.query))
  /\ LET s == Statements(fetch.query)[fetch.done + 1]
     IN fetch' = [fetch EXCEPT !.done = @ + 1, !.got = Read(s, fetch.query, @),
                               !.look = IF s = "page" THEN Look(fetch.got) ELSE @]
  /\ UNCHANGED <<rows, asked, store, strayed, walk, clicks, faults>>

\* (variant) The error stays.
StillFailed == UNCHANGED failed

Recovered == failed' = failed \ {KeyOf(fetch.query)}

Arrive ==
  /\ fetch.phase = "running" /\ fetch.done = Len(Statements(fetch.query))
  /\ LET e == [key |-> KeyOf(fetch.query), query |-> fetch.query, got |-> fetch.got]
     IN /\ cache' = (cache \ Cached(fetch.query)) \cup {e}
        /\ previous' = IF page = "logs" THEN {e} ELSE {}
  /\ Recovered
  /\ walk' = fetch.look /\ fetch' = Idle(fetch.query)
  /\ UNCHANGED <<rows, asked, strayed, clicks, faults>>

\* The call fails: it is sent again, twice.
Fail ==
  /\ fetch.phase = "running" /\ faults < MaxFaults /\ faults' = faults + 1
  /\ IF fetch.tries < Retries
       THEN fetch' = [Sent(fetch.query) EXCEPT !.tries = fetch.tries + 1] /\ UNCHANGED failed
       ELSE fetch' = Idle(fetch.query) /\ failed' = failed \cup {KeyOf(fetch.query)}
  /\ UNCHANGED <<rows, asked, cache, previous, strayed, walk, clicks>>

\* gcTime: an answer nobody asks for is dropped.
Forget(e) ==
  /\ e.key # KeyOf(Query)
  /\ cache' = cache \ {e} /\ failed' = failed \ {e.key}
  /\ UNCHANGED <<rows, asked, previous, fetch, strayed, walk, clicks, faults>>

--------------------------------------------------------------------------------
(* The user *)

Click == clicks < MaxClicks /\ clicks' = clicks + 1

\* (variant) A new filter keeps the offset.
FilterOnly(f) == filter' = f /\ UNCHANGED offset

\* handleFilterChange, clearFilters
SetFilter(f) == filter' = f /\ offset' = 0

Type(f) ==
  /\ Click /\ page = "logs" /\ f # filter
  /\ SetFilter(f) /\ walk' = "off"
  /\ UNCHANGED <<page, projectId, strayed>> /\ Ask

\* (variant) One log is skipped.
SkippingOffset == offset + Limit + 1

NextOffset == offset + Limit

\* The buttons of LogPagination work with the total shown, which may be another query's.
Next_ ==
  /\ Click /\ page = "logs" /\ \E d \in Data : Paged(d) /\ offset + Limit < d.got.total
  /\ offset' = NextOffset
  /\ strayed' = IF \E d \in Data : d.query.project # projectId \/ d.query.filter # filter THEN "yes" ELSE strayed
  /\ walk' = IF walk = "ahead" THEN "due" ELSE "off"
  /\ UNCHANGED <<page, projectId, filter>> /\ Ask

Previous ==
  /\ Click /\ page = "logs" /\ offset > 0 /\ \E d \in Data : Paged(d)
  /\ offset' = IF offset < Limit THEN 0 ELSE offset - Limit
  /\ walk' = "off"
  /\ UNCHANGED <<page, projectId, filter, strayed>> /\ Ask

\* The sidebar: another project is selected, the filters and the offset stay.
SwitchProject(p) ==
  /\ Click /\ p # projectId /\ projectId' = p
  /\ strayed' = IF offset > 0 THEN "yes" ELSE strayed
  /\ walk' = "off"
  /\ UNCHANGED <<page, filter, offset>> /\ Ask

\* The other page: the filters and the offset are state of the page that goes.
Turn ==
  /\ Click /\ page' = IF page = "logs" THEN "analytics" ELSE "logs"
  /\ filter' = "all" /\ offset' = 0 /\ walk' = "off"
  /\ UNCHANGED <<projectId, strayed>> /\ Ask

User ==
  \/ \E f \in Filters : Type(f)
  \/ Next_
  \/ Previous
  \/ \E p \in Projects : SwitchProject(p)
  \/ Turn

Store(l, at) == Insert(l, at) /\ UNCHANGED <<asked, store, fetch, strayed, walk, clicks, faults>>

Next ==
  \/ User
  \/ Poll
  \/ Statement
  \/ Arrive
  \/ Fail
  \/ \E e \in cache : Forget(e)
  \/ \E l \in Logs, at \in 0 .. MaxLogs : Store(l, at)

Spec == Init /\ [][Next]_vars

\* The interval's timer, the API and the network go on.
FairSpec == Spec /\ WF_vars(Poll) /\ WF_vars(Statement) /\ WF_vars(Arrive)

--------------------------------------------------------------------------------
(* Properties *)

TypeOK ==
  /\ rows \in Seq(Logs) /\ Len(rows) <= MaxLogs
  /\ page \in {"logs", "analytics"} /\ projectId \in Projects /\ filter \in Filters /\ offset \in Nat
  /\ \A e \in cache \cup previous : e.got.page.size <= Limit /\ e.got.total <= MaxLogs
  /\ \A e, f \in cache : e.key = f.key => e = f
  /\ fetch.phase \in {"idle", "running"} /\ fetch.query = Query
  /\ fetch.done \in 0 .. 4 /\ fetch.tries \in 0 .. Retries
  /\ strayed \in {"yes", "no"} /\ walk \in {"off", "due", "ahead", "seen", "missed"}
  /\ page = "logs" \/ (filter = "all" /\ offset = 0)

\* Whatever order answers, failures, clicks and polls come in, what a page shows was read for its own
\* project, filters and offset (use-logs.ts:10, 21), but while a fetch for just these is under way:
\* the rows of another query (use-logs.ts:13) never stay.
ShownFits ==
  \A e \in Data : e.query = Query \/ (fetch.phase = "running" /\ fetch.query = Query)

\* Each call reads in several statements while logs arrive (postgres_log_repository.py:53-66,
\* 73-102): the table has the rows the range below it claims, and on the Analytics page no chart
\* falls behind the figures above it, let alone says that there is no data where they count some.
AnswersAddUp ==
  \A e \in cache :
    IF e.query.page = "logs"
      THEN LET range == RangeShown(e.query.offset, e.got.total)
           IN e.got.page.size >= range.last - range.first + 1
      ELSE LET shown == Figures(e.got)
           IN /\ shown.total <= LevelDistribution(e.got)
              /\ LevelDistribution(e.got) <= ServiceBreakdown(e.got)
              /\ shown.errors <= ErrorTrend(e.got)

\* The explorer says "No logs found" (page.tsx:105-120) beyond the first page only after the
\* offset was carried to another project or chosen on another query's total: filters reset it,
\* and the table only grows.
NotStranded ==
  \A e \in Cached(Query) :
    page = "logs" /\ NothingFound(e) => offset = 0 \/ strayed = "yes"

\* Paging by offset over a growing table: a user who goes from the first page to the last, and
\* waits for each page, misses no log that was there at the start and matches, late rows or not.
WalkMissesNothing == walk # "missed"

\* With the poll the page catches up with the table once logs, clicks and failures cease.
CatchesUp == <>[](\E e \in Data : e.query = Query /\ e.got = Answer(Query) /\ ~IsError)
================================================================================
