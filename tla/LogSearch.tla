-------------------------------- MODULE LogSearch --------------------------------
(***************************************************************************)
(* Log search and analytics of the API                                     *)
(* (infrastructure/postgres_log_repository.py) over a table that grows.    *)
(*                                                                         *)
(* A call reads in several statements of one READ COMMITTED transaction:   *)
(* each sees the rows committed before it.  The table is kept newest       *)
(* timestamp first; a row may arrive late, at any place of that order.     *)
(* Rows of equal timestamp, whose order the database may change from one   *)
(* statement to the next, are left out.                                    *)
(***************************************************************************)
EXTENDS Integers, Sequences, FiniteSets

CONSTANTS
  Projects,     \* the projects of the organization
  Home,         \* the one with logs
  Limit,        \* the page size
  MaxLogs       \* bound on the logs stored

ASSUME HomeAssumption == Home \in Projects
ASSUME LimitAssumption == Limit \in Nat \ {0} /\ MaxLogs \in Nat

VARIABLE rows   \* the logs of Home, by timestamp, descending

\* One log is followed, "sought", a CRITICAL; the others are of level ERROR or of none the
\* errors count.  "errors" stands for a filter that leaves some of the logs, that one among them.
Logs == {"plain", "error", "sought"}
Filters == {"all", "errors"}

\* What a page asks for; the analytics have neither filter nor offset.
LogsQuery(p, f, o) == [page |-> "logs", project |-> p, filter |-> f, offset |-> o]
AnalyticsQuery(p) == [page |-> "analytics", project |-> p, filter |-> "all", offset |-> 0]

\* The rows the WHERE clause leaves, by their places in the table, and how many come before one.
Matching(q) ==
  {i \in DOMAIN rows : q.project = Home /\ (q.filter = "errors" => rows[i] # "plain")}
Ahead(i, q) == Cardinality({j \in Matching(q) : j < i})
Total(q) == Cardinality(Matching(q))
There(q) == IF \E i \in Matching(q) : rows[i] = "sought" THEN "yes" ELSE "no"

\* ORDER BY timestamp DESC LIMIT limit OFFSET offset: how many rows that leaves, and whether the
\* log sought is one of them.
Size(q, last) == IF q.offset < last THEN last - q.offset ELSE 0
Sought(q, last) ==
  IF \E i \in Matching(q) : rows[i] = "sought" /\ q.offset <= Ahead(i, q) /\ Ahead(i, q) < last
    THEN "yes" ELSE "no"

\* (variant) The limit is dropped.
LastWithoutLimit(q) == Total(q)

Last(q) == IF q.offset + Limit < Total(q) THEN q.offset + Limit ELSE Total(q)

Page(q) == [size |-> Size(q, Last(q)), sought |-> Sought(q, Last(q))]

\* (variant) The page is read before the total, the levels before the total of the analytics.
TotalLater(q) == IF q.page = "logs" THEN <<"page", "total">> ELSE <<"levels", "total", "services", "errors">>

\* The statements of a call, in their order.
Statements(q) == IF q.page = "logs" THEN <<"total", "page">> ELSE <<"total", "levels", "services", "errors">>

Unread == [total |-> 0, levels |-> [l \in Logs |-> 0], services |-> 0, errors |-> 0,
           page |-> [size |-> 0, sought |-> "no"]]

CountOf(l, q) == Cardinality({i \in Matching(q) : rows[i] = l})

\* A statement adds its result to what the call has read.  The counts by service, and those of
\* the errors by minute, are modelled by their sums.
Read(s, q, got) ==
  CASE s = "page" -> [got EXCEPT !.page = Page(q)]
    [] s = "levels" -> [got EXCEPT !.levels = [l \in Logs |-> CountOf(l, q)]]
    [] s = "errors" -> [got EXCEPT !.errors = CountOf("error", q) + CountOf("sought", q)]
    [] OTHER -> [got EXCEPT ![s] = Total(q)]

\* What the call would answer if no log arrived meanwhile.
Answer(q) ==
  IF q.page = "logs" THEN Read("page", q, Read("total", q, Unread))
  ELSE Read("errors", q, Read("services", q, Read("levels", q, Read("total", q, Unread))))

\* The worker stores a log, at the place of its timestamp.
Insert(l, at) ==
  /\ Len(rows) < MaxLogs /\ at \in 0 .. Len(rows)
  /\ l = "sought" => \A i \in DOMAIN rows : rows[i] # "sought"
  /\ rows' = SubSeq(rows, 1, at) \o <<l>> \o SubSeq(rows, at + 1, Len(rows))
================================================================================
