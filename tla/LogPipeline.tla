------------------------------ MODULE LogPipeline ------------------------------
(***************************************************************************)
(* A log's way through OrgLog: POST /api/v1/ingest or /api/v1/logs, the    *)
(* Redis stream org_logs_stream with its consumer group                    *)
(* log_ingestion_workers, the LogWorker loop, the PostgreSQL table of logs *)
(* and the pub/sub channels the dashboards listen to.                      *)
(*                                                                         *)
(* One action is one call the code awaits: between two of them every other *)
(* worker and request may run.  What Redis and PostgreSQL do is modelled   *)
(* from how the code uses them; the failures are those their clients raise *)
(* (a call refused, or carried out and its reply lost), the death of a     *)
(* process, and the loss of the stream's key.                              *)
(***************************************************************************)
EXTENDS Integers, Sequences, FiniteSets, Functions

CONSTANTS
  Logs,            \* the requests clients send, one log each
  Admitted,        \* those whose token is valid and whose project is theirs
  Unstorable,      \* those from_dict or the INSERT always refuses
  Consumers,       \* one worker-<uuid4> name per LogWorker ever created
  BatchCount,      \* XREADGROUP's count (10 in the code)
  RedisRetries,    \* how often the Redis client repeats a call whose connection broke
  MaxRedisFaults,  \* bounds on the failures of one behaviour:
  MaxDbFaults,
  MaxCrashes,
  MaxKeyLosses

ASSUME LogsAssumption == /\ Admitted \subseteq Logs
                         /\ Unstorable \subseteq Logs
                         /\ Logs \cap Consumers = {}
ASSUME CountsAssumption == /\ BatchCount \in Nat \ {0}
                           /\ RedisRetries \in Nat
ASSUME BoundsAssumption == {MaxRedisFaults, MaxDbFaults, MaxCrashes, MaxKeyLosses} \subseteq Nat

VARIABLES
  request,   \* what became of each request
  tries,     \* how often the call a request or worker is making was repeated
  stream,    \* every XADD so far: the entry with id e holds the log stream[e]
  evicted,   \* the entries 1..evicted went with a lost key
  lost,      \* (history) how many of each log's XADDs were carried out and their reply lost
  group,     \* whether the consumer group exists
  last,      \* the group's last-delivered id
  pel,       \* the group's pending entries, by the consumer they were given to
  pc,        \* where each worker is
  cursor,    \* the entry a worker is processing ...
  upto,      \* ... and the last one of its batch
  rows,      \* the entry each row of the table came from, in commit order
  aired,     \* the entry each PUBLISH came from, in order
  acked,     \* the entries XACK was executed for
  spent      \* the failures so far, by kind

vars == <<request, tries, stream, evicted, lost, group, last, pel, pc, cursor, upto,
          rows, aired, acked, spent>>
streamVars == <<stream, evicted, lost>>
groupVars == <<group, last, pel>>
workVars == <<pc, cursor, upto>>
outVars == <<rows, aired, acked>>

RequestStates == {"unsent", "xadd", "queued", "failed", "refused"}
WorkerStates == {"unborn", "create", "poll", "save", "commit", "publish", "ack", "dead"}
Budget == [redis |-> MaxRedisFaults, db |-> MaxDbFaults, crash |-> MaxCrashes, key |-> MaxKeyLosses]
NoFaults == [kind \in DOMAIN Budget |-> 0]

Ids == 1..Len(stream)
Working(c) == pc[c] \in {"save", "commit", "publish", "ack"}
Running(c) == pc[c] \notin {"unborn", "dead"}

Grouped == group = "made"

\* Everything up to this id was delivered to some consumer, or went with a lost key.
High == IF Grouped THEN last ELSE evicted

\* The entries of its batch a worker still has in memory, and those it will still save.
Holds(c) == IF Working(c) THEN cursor[c]..upto[c] ELSE {}
ToStore(c) == IF pc[c] \in {"save", "commit"} THEN Holds(c) ELSE Holds(c) \ {cursor[c]}

Init ==
  /\ request = [l \in Logs |-> "unsent"]
  /\ tries = [x \in Logs \cup Consumers |-> 0]
  /\ stream = <<>> /\ evicted = 0 /\ lost = [l \in Logs |-> 0]
  /\ group = "missing" /\ last = 0 /\ pel = [c \in Consumers |-> {}]
  /\ pc = [c \in Consumers |-> "unborn"]
  /\ cursor = [c \in Consumers |-> 0] /\ upto = [c \in Consumers |-> 0]
  /\ rows = <<>> /\ aired = <<>> /\ acked = {}
  /\ spent = NoFaults

--------------------------------------------------------------------------------
(* Failures and the Redis client's repetition of a call *)

Fault(kind) == /\ spent[kind] < Budget[kind]
               /\ spent' = [spent EXCEPT ![kind] = @ + 1]

Repeat(x) == tries[x] < RedisRetries /\ tries' = [tries EXCEPT ![x] = @ + 1]
GiveUpOn(x) == tries[x] = RedisRetries /\ tries' = [tries EXCEPT ![x] = 0]
CallEnds(x) == tries' = [tries EXCEPT ![x] = 0]

--------------------------------------------------------------------------------
(* The API: a request is admitted, then its log is added to the stream *)

Answer(l, state) == request' = [request EXCEPT ![l] = state]

Admit(l) ==
  /\ request[l] = "unsent" /\ l \in Admitted
  /\ Answer(l, "xadd")
  /\ UNCHANGED <<tries, streamVars, groupVars, workVars, outVars, spent>>

\* 401, 403 or 404.
Refuse(l) ==
  /\ request[l] = "unsent" /\ l \notin Admitted
  /\ Answer(l, "refused")
  /\ UNCHANGED <<tries, streamVars, groupVars, workVars, outVars, spent>>

\* The project cannot be looked up: a 500, and nothing was added.
LookupFails(l) ==
  /\ request[l] = "unsent"
  /\ Fault("db")
  /\ Answer(l, "failed")
  /\ UNCHANGED <<tries, streamVars, groupVars, workVars, outVars>>

\* XADD creates the key when it is missing, without a group.
Append1(l) == stream' = Append(stream, l) /\ UNCHANGED evicted

XaddOk(l) ==
  /\ request[l] = "xadd"
  /\ Append1(l)
  /\ Answer(l, "queued") /\ CallEnds(l)
  /\ UNCHANGED <<lost, groupVars, workVars, outVars, spent>>

\* The entry is on the stream and the reply is lost: the Redis client adds it again or raises.
XaddReplyLost(l) ==
  /\ request[l] = "xadd"
  /\ Fault("redis")
  /\ Append1(l) /\ lost' = [lost EXCEPT ![l] = @ + 1]
  /\ \/ Repeat(l) /\ UNCHANGED request
     \/ GiveUpOn(l) /\ Answer(l, "failed")
  /\ UNCHANGED <<groupVars, workVars, outVars>>

\* (variant) The answer does not wait for the XADD.
XaddFailsUnnoticed(l) ==
  /\ request[l] = "xadd"
  /\ Fault("redis")
  /\ Answer(l, "queued") /\ CallEnds(l)
  /\ UNCHANGED <<streamVars, groupVars, workVars, outVars>>

\* An error reply, or no attempt got through.
XaddFails(l) ==
  /\ request[l] = "xadd"
  /\ Fault("redis")
  /\ Answer(l, "failed") /\ CallEnds(l)
  /\ UNCHANGED <<streamVars, groupVars, workVars, outVars>>

--------------------------------------------------------------------------------
(* LogWorker.start: the group, then one batch after the other *)

GoTo(c, label) == pc' = [pc EXCEPT ![c] = label] /\ UNCHANGED <<cursor, upto>>

Start(c) ==
  /\ pc[c] = "unborn"
  /\ GoTo(c, "create")
  /\ UNCHANGED <<request, tries, streamVars, groupVars, outVars, spent>>

\* (variants) The group starts at "$"; an existing group is made afresh.
MakeGroupAtEnd ==
  /\ group' = "made"
  /\ last' = IF Grouped THEN last ELSE Len(stream)
  /\ UNCHANGED pel
MakeGroupAfresh ==
  /\ group' = "made"
  /\ last' = evicted
  /\ UNCHANGED pel

\* XGROUP CREATE ... id=0 MKSTREAM; BUSYGROUP is ignored.
MakeGroup ==
  /\ group' = "made"
  /\ last' = High
  /\ UNCHANGED pel

CreateGroup(c) ==
  /\ pc[c] = "create"
  /\ MakeGroup
  /\ GoTo(c, "poll")
  /\ UNCHANGED <<request, tries, streamVars, outVars, spent>>

\* Any other error leaves start(), whether or not the group was made.
CreateFails(c) ==
  /\ pc[c] = "create"
  /\ Fault("redis")
  /\ MakeGroup \/ UNCHANGED groupVars
  /\ GoTo(c, "dead")
  /\ UNCHANGED <<request, tries, streamVars, outVars>>

\* (variant) The batch is as long as the count asks for.
BatchEndUncapped == last + BatchCount
BatchEnd == IF last + BatchCount < Len(stream) THEN last + BatchCount ELSE Len(stream)

\* (variant) The group does not move on.
DeliverToEach(c) ==
  /\ Grouped /\ last < Len(stream)
  /\ pel' = [pel EXCEPT ![c] = @ \cup (last + 1)..BatchEnd]
  /\ UNCHANGED <<group, last>>

\* XREADGROUP ">": the oldest entries given to nobody yet become c's pending ones.
Deliver(c) ==
  /\ Grouped /\ last < Len(stream)
  /\ last' = BatchEnd
  /\ pel' = [pel EXCEPT ![c] = @ \cup (last + 1)..BatchEnd]
  /\ UNCHANGED group

\* (variant) The batch starts with the last entry delivered.
ReadFromLast(c) ==
  /\ pc[c] = "poll"
  /\ Deliver(c)
  /\ pc' = [pc EXCEPT ![c] = "save"]
  /\ cursor' = [cursor EXCEPT ![c] = IF last = 0 THEN 1 ELSE last]
  /\ upto' = [upto EXCEPT ![c] = BatchEnd]
  /\ CallEnds(c)
  /\ UNCHANGED <<request, streamVars, outVars, spent>>

Read(c) ==
  /\ pc[c] = "poll"
  /\ Deliver(c)
  /\ pc' = [pc EXCEPT ![c] = "save"]
  /\ cursor' = [cursor EXCEPT ![c] = last + 1]
  /\ upto' = [upto EXCEPT ![c] = BatchEnd]
  /\ CallEnds(c)
  /\ UNCHANGED <<request, streamVars, outVars, spent>>

\* Redis has recorded the delivery and c never sees it: the client reads on or raises.
ReadReplyLost(c) ==
  /\ pc[c] = "poll"
  /\ Fault("redis")
  /\ Deliver(c)
  /\ \/ Repeat(c) /\ UNCHANGED workVars
     \/ GiveUpOn(c) /\ GoTo(c, "dead")
  /\ UNCHANGED <<request, streamVars, outVars>>

\* (variant) The loop swallows NOGROUP and reads on.
ReadNoGroupIgnored(c) ==
  /\ pc[c] = "poll" /\ ~Grouped
  /\ UNCHANGED vars

\* NOGROUP, after the key was lost, leaves start().
ReadNoGroup(c) ==
  /\ pc[c] = "poll" /\ ~Grouped
  /\ GoTo(c, "dead") /\ CallEnds(c)
  /\ UNCHANGED <<request, streamVars, groupVars, outVars, spent>>

ReadFails(c) ==
  /\ pc[c] = "poll"
  /\ Fault("redis")
  /\ GoTo(c, "dead") /\ CallEnds(c)
  /\ UNCHANGED <<request, streamVars, groupVars, outVars>>

--------------------------------------------------------------------------------
(* LogWorker.process_event, for the entry at c's cursor *)

\* The event is over, well or badly: the next one of the batch, or the next batch.
Advance(c) ==
  /\ cursor' = [cursor EXCEPT ![c] = @ + 1]
  /\ pc' = [pc EXCEPT ![c] = IF cursor[c] < upto[c] THEN "save" ELSE "poll"]
  /\ UNCHANGED upto

InsertRow(c) == rows' = Append(rows, cursor[c]) /\ UNCHANGED <<aired, acked>>
Broadcast(c) == aired' = Append(aired, cursor[c]) /\ UNCHANGED <<rows, acked>>

\* XACK takes the entry from the group's pending ones, whoever they belong to.
Acknowledge(c) ==
  /\ acked' = acked \cup {cursor[c]}
  /\ pel' = [d \in Consumers |-> pel[d] \ {cursor[c]}]
  /\ UNCHANGED <<rows, aired, group, last>>

\* json.loads, from_dict and the INSERT.
Save(c) ==
  /\ pc[c] = "save" /\ stream[cursor[c]] \notin Unstorable
  /\ GoTo(c, "commit")
  /\ UNCHANGED <<request, tries, streamVars, groupVars, outVars, spent>>

\* Any exception is logged, and the entry stays pending.
SaveFails(c) ==
  /\ pc[c] = "save"
  /\ \/ stream[cursor[c]] \in Unstorable /\ UNCHANGED spent
     \/ Fault("db")
  /\ Advance(c)
  /\ UNCHANGED <<request, tries, streamVars, groupVars, outVars>>

Commit(c) ==
  /\ pc[c] = "commit"
  /\ InsertRow(c)
  /\ GoTo(c, "publish")
  /\ UNCHANGED <<request, tries, streamVars, groupVars, spent>>

\* The commit may have been carried out all the same.
CommitFails(c) ==
  /\ pc[c] = "commit"
  /\ Fault("db")
  /\ InsertRow(c) \/ UNCHANGED outVars
  /\ Advance(c)
  /\ UNCHANGED <<request, tries, streamVars, groupVars>>

Publish(c) ==
  /\ pc[c] = "publish"
  /\ Broadcast(c)
  /\ GoTo(c, "ack") /\ CallEnds(c)
  /\ UNCHANGED <<request, streamVars, groupVars, spent>>

\* Listeners have the log and the worker does not know: it publishes again or raises.
PublishReplyLost(c) ==
  /\ pc[c] = "publish"
  /\ Fault("redis")
  /\ Broadcast(c)
  /\ \/ Repeat(c) /\ UNCHANGED workVars
     \/ GiveUpOn(c) /\ Advance(c)
  /\ UNCHANGED <<request, streamVars, groupVars>>

\* (variant) A failed broadcast does not keep the entry from being acknowledged.
PublishFailsUnnoticed(c) ==
  /\ pc[c] = "publish"
  /\ Fault("redis")
  /\ GoTo(c, "ack") /\ CallEnds(c)
  /\ UNCHANGED <<request, streamVars, groupVars, outVars>>

PublishFails(c) ==
  /\ pc[c] = "publish"
  /\ Fault("redis")
  /\ Advance(c) /\ CallEnds(c)
  /\ UNCHANGED <<request, streamVars, groupVars, outVars>>

Ack(c) ==
  /\ pc[c] = "ack"
  /\ Acknowledge(c)
  /\ Advance(c)
  /\ UNCHANGED <<request, tries, streamVars, spent>>

AckFails(c) ==
  /\ pc[c] = "ack"
  /\ Fault("redis")
  /\ Acknowledge(c) \/ UNCHANGED <<outVars, groupVars>>
  /\ Advance(c)
  /\ UNCHANGED <<request, tries, streamVars>>

--------------------------------------------------------------------------------
(* What happens to the processes and to Redis *)

\* The process dies, or its lifespan ends and cancels the task at whatever it awaits.
Crash(c) ==
  /\ Running(c)
  /\ Fault("crash")
  /\ GoTo(c, "dead") /\ CallEnds(c)
  /\ UNCHANGED <<request, streamVars, groupVars, outVars>>

\* Eviction (allkeys-lru) or a restart of a Redis without a volume takes the stream and its group.
LoseKey ==
  /\ Fault("key")
  /\ evicted' = Len(stream)
  /\ group' = "missing" /\ pel' = [c \in Consumers |-> {}]
  /\ UNCHANGED <<request, tries, stream, lost, last, workVars, outVars>>

--------------------------------------------------------------------------------

ApiStep(l) ==
  \/ Admit(l) \/ Refuse(l) \/ LookupFails(l)
  \/ XaddOk(l) \/ XaddReplyLost(l) \/ XaddFails(l)

GroupStep(c) ==
  \/ CreateGroup(c) \/ CreateFails(c)
  \/ Read(c) \/ ReadReplyLost(c) \/ ReadNoGroup(c) \/ ReadFails(c)

EventStep(c) ==
  \/ Save(c) \/ SaveFails(c) \/ Commit(c) \/ CommitFails(c)
  \/ Publish(c) \/ PublishReplyLost(c) \/ PublishFails(c)
  \/ Ack(c) \/ AckFails(c)

Next ==
  \/ \E l \in Logs : ApiStep(l)
  \/ \E c \in Consumers : Start(c) \/ GroupStep(c) \/ EventStep(c) \/ Crash(c)
  \/ LoseKey

Spec == Init /\ [][Next]_vars

(* The server runs the requests it has; uvicorn, compose or the host starts    *)
(* every process; an awaited call that nothing disturbs returns.  Nobody must  *)
(* send a log and nothing must fail: a failure is never what fairness asks for *)
(* (an idle worker may poll for ever without an error).                        *)
Fairness ==
  /\ \A l \in Logs : WF_vars(request[l] = "xadd" /\ ApiStep(l) /\ UNCHANGED spent)
  /\ \A c \in Consumers :
       WF_vars(Start(c)) /\ WF_vars((GroupStep(c) \/ EventStep(c)) /\ UNCHANGED spent)

FairSpec == Spec /\ Fairness
--------------------------------------------------------------------------------
(* Properties *)

\* Every variable has its type: see the declarations.
TypeOK ==
  /\ request \in [Logs -> RequestStates]
  /\ tries \in [Logs \cup Consumers -> 0..RedisRetries]
  /\ stream \in Seq(Logs)
  /\ evicted \in 0..Len(stream)
  /\ lost \in [Logs -> Nat]
  /\ group \in {"missing", "made"}
  /\ last \in 0..Len(stream)
  /\ pel \in [Consumers -> SUBSET Ids]
  /\ pc \in [Consumers -> WorkerStates]
  /\ cursor \in [Consumers -> Nat]
  /\ upto \in [Consumers -> 0..Len(stream)]
  /\ rows \in Seq(Ids)
  /\ aired \in Seq(Ids)
  /\ acked \subseteq Ids
  /\ spent \in [DOMAIN Budget -> Nat]

\* No entry has two rows, whichever workers read, die or miss replies: a second row
\* for a log can only come from a second XADD of it.
OneRowPerEntry == IsInjective(rows)

\* No entry is passed over: while the key lives, each entry the group is past was
\* acknowledged or is some consumer's pending one (a group made at "$", or a batch
\* recorded for nobody, would lose entries without a trace).
NothingSkipped ==
  \A e \in (evicted + 1)..High : e \in acked \/ \E c \in Consumers : e \in pel[c]

\* Two workers never process the same entry, nor is one pending for two consumers; and
\* what a worker still holds is pending for it as long as the key lives.
NoSharedEntry ==
  \A c, d \in Consumers :
    /\ c # d => Holds(c) \cap Holds(d) = {} /\ pel[c] \cap pel[d] = {}
    /\ Grouped => \A e \in Holds(c) : e > evicted => e \in pel[c]

\* A dashboard never shows a log the table does not hold: process_event commits, then publishes.
AiredIsStored == Range(aired) \subseteq Range(rows)

\* XACK is the last thing done for an entry: acknowledged means stored and broadcast.
AckedIsStoredAndAired == acked \subseteq Range(rows) \cap Range(aired)

\* What a client is told fits what is on the stream: a refused log is not there, a queued one is,
\* and an error answer leaves a log behind only for an XADD whose reply was lost.  The copies are
\* those XADDs and the one that was answered, and no more than the Redis client makes attempts.
Copies(l) == {e \in Ids : stream[e] = l}
AnswerMatchesStream ==
  \A l \in Logs :
    /\ request[l] \in {"unsent", "refused"} => Copies(l) = {}
    /\ request[l] \in {"xadd", "failed"} => Cardinality(Copies(l)) = lost[l]
    /\ request[l] = "queued" => Cardinality(Copies(l)) = lost[l] + 1
    /\ Cardinality(Copies(l)) <= 1 + RedisRetries

\* The pipeline does what LogDelivery promises: an entry gets at most one row, is broadcast only
\* once it has it, and one that a worker dropped, or that died with its worker, is never stored.
Delivery == INSTANCE LogDelivery WITH
  posted <- Len(stream),
  stored <- Range(rows),
  aired <- Range(aired),
  gone <- (1..High) \ (Range(rows) \cup UNION {ToStore(c) : c \in Consumers})
ImplementsDelivery == Delivery!Spec

\* An entry is delivered to a worker (or goes with its key) as long as a worker is left to read it.
PossibleIds == 1..(Cardinality(Logs) * (RedisRetries + 1))
BacklogDrains ==
  \A e \in PossibleIds : e \in Ids ~> (e <= High \/ \A c \in Consumers : pc[c] = "dead")

\* A log whose request was answered "queued" is stored, broadcast and acknowledged, unless the
\* table cannot take it or some call, process or key failed on the way.
Delivered(l) == \E e \in Copies(l) : e \in acked /\ e \in Range(rows) /\ e \in Range(aired)
QueuedIsDelivered ==
  \A l \in Logs \ Unstorable : request[l] = "queued" ~> (Delivered(l) \/ spent # NoFaults)
--------------------------------------------------------------------------------
(* A claim of docs/ARCHITECTURE.md the code does not keep *)

\* "A database outage doesn't cause log loss - they wait in Redis" (line 912): a storable log
\* that was queued is stored in the end.  process_event gives up on an entry after one
\* exception, and nothing reads pending entries again.
OutageLosesNothing ==
  \A l \in Logs \ Unstorable :
    request[l] = "queued" ~> \E e \in Copies(l) : e \in Range(rows)
================================================================================
