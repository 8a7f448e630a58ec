# OrgLog in TLA+

OrgLog collects log entries from services, stores them in PostgreSQL and shows
them on a dashboard. This directory holds TLA+ specifications of it, the TLC
runs that check them and the proofs TLAPS checks. Paths below are relative to
the root of the OrgLog repository.

    tlc -config pipeline_safety.cfg MCLogPipeline     # one of the runs below
    tlapm LogPipelineProofs.tla                       # the proofs about one module

## 1. The system

    application --(SDK)--> API --XADD--> Redis stream --XREADGROUP--> LogWorker --INSERT--> PostgreSQL
                                                                        |                      |
    dashboard <--WebSocket-- API <--SUBSCRIBE-- Redis pub/sub <--PUBLISH-+      API <--SELECT--+

| component | code | state | operations | correct when |
|---|---|---|---|---|
| Python SDK | `sdk/src/orglog/client.py` | buffer, token, closed flag, HTTP client; a flusher thread | log calls, `flush`, `close`, send with one re-login, atexit | no entry is sent twice or slips out of the buffer; a call returns; exceptions are the only losses |
| Ingestion API | `app/api/v1/ingest.py`, `logs.py:33`, `services/log_ingestion_service.py`, `infrastructure/redis_publisher.py` | none of its own | check the token and the project, XADD, answer | "queued" means the log is on the stream |
| Redis stream, group | `app/core/redis.py`, `constants.py` | entries, last-delivered id, pending entries | XADD, XGROUP CREATE, XREADGROUP, XACK | every entry goes to one consumer |
| Log worker | `app/workers/log_worker.py`, started by `app/main.py:36` and by `python -m app.workers.log_worker` | its name, its batch in memory | make the group, read, `process_event` | stored, then broadcast, then acknowledged; one row per entry; an event that fails does not stop the rest |
| Live broadcast | `infrastructure/redis_pubsub.py`, `app/api/v1/ws.py` | a subscription per socket | publish; accept, subscribe, forward, clean up | a connected dashboard gets what is published, in order; a subscription ends after its socket |
| Accounts, tokens | `services/auth_service.py`, `api/v1/auth.py`, `core/security.py` | users, one organization, signed tokens | register, login, refresh, logout, me | one user per address, one organization per domain, whatever overlaps |
| Projects | `services/project_service.py`, `api/v1/projects.py` | projects by organization | create, list, get, validate | a created project can be used once its creation was answered |
| Request session | `data/database/session.py` | a transaction per request | commit after the handler, or roll back | what was answered is committed |
| Search, analytics | `infrastructure/postgres_log_repository.py:33-111` | none | count and page; four counts | total and page, total and parts, agree |
| Live log provider | `frontend/src/lib/providers/live-logs-provider.tsx`, `app/dashboard/live/page.tsx` | socket, reconnect timer, attempts, messages, flags | connect, close, pause, resume, reconnect, clear, project switch | one socket, for the selected project; what the page says fits it |
| Live Tail page | `app/dashboard/live/page.tsx`, `components/logs/live-log-stream.tsx` | level filter, open row, scrolling | filter, open a row, scroll, jump to the latest | the list is what was received and passes the filter, newest first; it follows unless the user left its top |
| Dashboard session | `frontend/src/lib/providers/auth-provider.tsx`, `app/login`, `app/register`, `app/dashboard/layout.tsx` | stored token, user, spinner, form, page | mount, guard, submit, sign out | the user shown is the token's; no page waits for ever |
| Project selection | `frontend/src/lib/providers/project-provider.tsx`, `components/layout/sidebar.tsx`, `no-project.tsx` | list, selection, stored selection, two forms | fetch, switch, create | the project shown is the user's last choice |
| Log explorer, analytics page | `frontend/src/app/dashboard/logs`, `app/dashboard/analytics`, `components/logs`, `lib/hooks/use-logs.ts` | filters, offset; React Query's cache | filter, page, poll, retry | what is shown answers this query and adds up; paging misses nothing |

What makes it hard: the worker is started twice in a deployment that uses
`render.yaml` (inside the API and as a service of its own), so two workers share
one consumer group; each runs a chain of awaited calls to three services, any of
which can fail before or after it took effect; the Redis client repeats calls by
itself; the stream can vanish (`allkeys-lru` in `render.yaml`, no volume in
`docker-compose.yml`); the SDK shares everything but its buffer between threads
without a lock; the dashboard's promises and timers resolve in any order. There
are no tests in the repository. `PROJECT.json` lists each of these hazards at
its line with the properties that watch it.

## 2. Modules

| module | what it is |
|---|---|
| `LogDelivery` | what the pipeline promises about an entry: stored at most once or given up for good, broadcast only when stored |
| `LogPipeline` | API, stream, consumer group, workers, table and broadcast, with their failures |
| `LogPipelineProofs` | the theorems about it |
| `SdkClient` | the SDK's threads, buffer, token and HTTP client |
| `LiveFeed` | what the live tail promises a viewer: messages of its channel, each at most once, in order |
| `LiveFanout` | the WebSocket handlers between Redis's channel and the browsers |
| `Accounts` | registrations, logins, token checks and projects as concurrent transactions |
| `LiveLogs` | the dashboard's end of the live tail: socket, timer, flags, buffer, the page's status and buttons |
| `LiveTail` | the Live Tail page's filter and list over it, with the browser's scrolling |
| `DashboardSession` | forms, stored token, user and calls of one browser tab |
| `ProjectSelection` | the list of projects, the selection and the forms that create one; extends `DashboardSession`, whose steps mount and unmount it |
| `LogSearch` | search and analytics of the API, statement by statement, over a growing table |
| `LogExplorer` | the explorer and the analytics page over `LogSearch`, with React Query's cache |
| `SdkClientProofs`, `LiveFanoutProofs`, `AccountsProofs`, `LiveLogsProofs`, `ProjectSelectionProofs`, `LogExplorerProofs` | the theorems about those modules; `ProjectSelectionProofs` has those about `DashboardSession`, `LogExplorerProofs` those about `LogSearch` |
| `MCLogPipeline`, `MCSdkClient`, `MCLiveFanout`, `MCAccounts`, `MCLiveLogs`, `MCDashboard`, `MCExplorer` | their small instances for TLC |

Operators marked *(variant)* in a comment are altered forms of the operator that
follows them, the way a bug would alter it. Nothing uses them; substituting one
must make the property that `PROJECT.json` ("mutants") names fail, which shows
that the property depends on that code.

### LogPipeline

One action is one awaited call. `stream` keeps every entry ever added, so the id
of an entry is its index; a lost key moves `evicted` instead of removing entries,
which keeps ids unique as Redis's time-based ids are. `group`, `last` and `pel`
are the consumer group's existence, its last-delivered id and its pending
entries; `pc`, `cursor` and `upto` are a worker's place in `start` and
`process_event`, the entry at hand and the last one of its batch; `rows`, `aired`
and `acked` record commits, PUBLISHes and XACKs; `lost` is history, the XADDs of a
request whose replies were lost. `High` is the id everything up
to which was delivered or lost with a key. (`group` holds "missing" or "made"
rather than a Boolean because the provers handle that better.)

| code | actions |
|---|---|
| `ingest_log`, `create_log`, `get_current_user`, the project lookup | `Admit`, `Refuse`, `LookupFails` |
| `RedisPublisher.publish` | `XaddOk`, `XaddReplyLost`, `XaddFails` |
| `LogWorker()` and its task | `Start`, `Crash` |
| `create_consumer_group` | `CreateGroup`, `CreateFails` |
| `xreadgroup` in `start` | `Read`, `ReadReplyLost`, `ReadNoGroup`, `ReadFails` |
| `json.loads`, `from_dict`, `save` in `process_event` | `Save`, `SaveFails` |
| `session.commit` | `Commit`, `CommitFails` |
| `pubsub.publish` | `Publish`, `PublishReplyLost`, `PublishFails` |
| `xack` | `Ack`, `AckFails` |
| eviction or restart of Redis | `LoseKey` |

An exception in `process_event` is caught there (`log_worker.py:72`): the worker
goes on to the next entry (`Advance`) and the entry stays pending. An exception
elsewhere ends the worker: nothing restarts the task. `Unstorable` are logs that
the table always refuses although the API accepted them (an offset-less timestamp
is one: the schema takes it, a `timestamptz` parameter does not). redis-py repeats
a call whose connection broke (`RedisRetries`, 3 by default in the version locked
in `poetry.lock`); a repeated XADD adds a second entry, a repeated XREADGROUP
returns the next batch and strands the first.

Left out: the payload, the project an entry belongs to, the number of attempts
behind a call that finally got through without side effect, the block timeout of an
empty read (it changes nothing), `XTRIM` (nothing calls it).

### SdkClient

An action ends wherever another thread may run: the blocks under `self._lock`
are one step, the tests and assignments of `_closed`, `_access_token` and `_client`
are steps of their own, and a request and its answer are two (`Login` sends, `LoginOk` has the answer, which may
come after `close()` has shut the client). `token` and
`accepted` count expiries: the API refuses tokens older than `accepted`. A
thread's place in the code is `pc`, the entries it still has to send `batch`. The
SDK sends the entries of a batch one by one; an exception leaves `_send_batch`,
the rest of the batch is gone (`dropped`), and the caller, or the flusher's
`except`, gets it. `Exit` is the interpreter's exit: it joins the application's
threads, then atexit runs `close()` in the main thread, then the process and
the daemon flusher end (`Over`). `late` is a history variable: entries logged when
the logger was closed already. So is `met`: the expiries that came while some thread was between its 401 and the request
it makes again, which is what `OneExpiryLosesNothing` lets a token be refused for a second time.

| code | actions |
|---|---|
| `_log` | `Log` |
| `flush` | `CallFlush`, `Flush` |
| `close` | `CallClose`, `CheckClosed`, `MarkClosed`, `Flush`, `ShutClient` |
| `_background_flush` | `LoopAgain`, `Wake`, `Flush` |
| `_send_batch`, `_send_single` | `Post`, `PostOnClosed`, `PostOk`, `Unauthorized`, `PostFails` |
| `_login` | `Login`, `LoginOk`, `LoginFails`, `StoreToken` |
| the API's clock, the interpreter | `Expire`, `Exit`, `Over` |

Left out: the payload and its time stamp, log levels and their validation, a
constructor that raises (there is no object then), a metadata value that JSON cannot
encode (it raises like a failed call, which `PostFails` covers).

### LiveFanout

One channel, any number of sockets. A message that Redis pushes to a subscription waits
in its connection (`inbox`), is forwarded by the handler (`current`), travels on the
socket (`wire`) and is `seen` by the browser. `browser` and `link` are the two ends of the
socket: the server's end goes "down" when a close frame arrives or a ping stays
unanswered (`Notice`), which the handler learns only when it sends. A broken Redis connection
(`Break`) loses a suffix of what was pushed; redis-py connects and subscribes again
inside `listen()` without telling the handler (`Resubscribe`), or raises (`ListenFails`).

| code | actions |
|---|---|
| `websocket.accept` | `Accept` |
| `RedisPubSub.subscribe` | `Subscribe`, `SubscribeFails` |
| `async for message in pubsub.listen()` | `Receive`, `Resubscribe`, `ListenFails` |
| `websocket.send_text` | `Send`, `SendFails` |
| the `finally` | `Unsubscribe` |
| `RedisPubSub.publish` | `Publish` |
| browser, uvicorn, Redis | `Connect`, `Leave`, `Deliver`, `Notice`, `Closed`, `Break` |

Left out: several projects (channels share nothing), the text of a message. The steps of the
worker around its `publish` are in `LogPipeline`.

### Accounts

An action is one SQL statement of one request's transaction. `wrote` and `committed` are
the database: a row is visible to others when its request is in `committed`
(READ COMMITTED, PostgreSQL's default, which `session.py` leaves alone). `InsertUnique`
waits while an uncommitted row has the same key and fails when it is committed. The
response leaves in `Answer`; `Commit` comes after it, because FastAPI 0.135.1 (`poetry.lock`)
ends dependencies with `yield` after the response. An exception rolls back before its
response (`Raise`). Tokens are those a login returned; a token names the user's row. `named` is the project a lookup
asks for: it goes through `get_current_user` first, and must be of the user's organization.

| code | actions |
|---|---|
| the routes' requests | `AskRegister`, `AskLogin`, `AskRefresh`, `AskProject`, `AskLookup` |
| `register` | `FindUser`, `FindOrg`, `InsertOrg`, `InsertUser` |
| `login` | `FindUser` |
| `get_user_by_id` in `refresh_token` and `get_current_user` | `CheckUser` |
| `create_project` | `InsertProject` |
| `get_project`, `get_project_by_id`, `validate_project_access` | `FindProject` |
| `get_async_session` | `Answer`, `Commit`, `CommitFails`, `StatementFails` |

Left out: passwords (always the right one), token expiry, the list of projects (it only reads), the
logout route (it clears a cookie), a second organization: `settings.ORG_DOMAIN` is one.

### LiveLogs

An action is one callback. React runs the effects of a click's render inside the click,
so `SwitchProject`, `Pause`, `Resume` and `Reconnect` contain `Effect`; a project that a promise
selects (a list that arrives, a project created) leaves effects "due", and socket events, the timer and
clicks may come before `RunEffects`. A socket whose handlers were removed can change nothing and
is dropped from `sockets`. `reconnectTimeout` holds the project the pending timer's `connect` closed
over, which is how a timer of an old render would show.

| code | actions |
|---|---|
| `connect`, `cleanupWs` | operators `Connect`, `CleanupWs` of the actions below |
| `ws.onopen`, `onmessage`, `onerror` with `onclose` | `OnOpen`, `OnMessage`, `OnClose` |
| `setTimeout(connect, delay)` | `TimerFires` |
| the effect on `[projectId, connect, cleanupWs]` | `RunEffects`, `Effect` |
| the page's buttons | `Pause`, `Resume`, `Reconnect`, `ClearMessages` |
| project list, creation, sidebar, sign-out | `ProjectArrives`, `SwitchProject`, `Unmount` |
| `websocket_logs` of the API | `Publish` |

Left out: the delay's length.

### LiveTail

Each step of `LiveLogs` renders the page again (`Follow`): rows come and go, and the effect scrolls to the top if the
list is to follow and its length changed (`Rerender`). The list is `scroll-smooth`, so the browser gets there in
frames (`Glide`) and tells of them, as of what the user does, by a scroll event that comes later (`HandleScroll`, one
due event at most, as browsers coalesce them); that a shorter list may be pulled to its top is the browser's, too. `LevelOf` gives each
log its level. `opened` is history: the log whose row the user opened during a pause.

| code | actions |
|---|---|
| `filteredMessages`, `messageStats` | operators `Shown`, `CountOf`, `Cards` |
| mini-cards, level selection | `Filter`, by `PickCard` and `PickLevel` |
| a row's click | `ToggleRow` |
| the effect on `[messages.length, autoScroll]`, `handleScroll` | `Rerender`, `HandleScroll` |
| "Jump to latest" | `Jump` |
| user and browser | `UserScrolls`, `Glide`, `Revisit` (to another page and back) |

Left out: the text and metadata of a row, new rows that push what the user reads down.

### DashboardSession and ProjectSelection

An action is a click, an answer, or a page the router has ready. A call remembers whether
the component that made it is still mounted ("here"): if not, what it sets on components is dropped, what it
writes to localStorage and its `router.push` are not. `issued` and `expired` number the tokens, so that a
token's user and its 30 minutes are known. `Mount` stands for everything a fresh page does, `Load`
for a page loaded by its address. `ProjectSelection` joins each step of the session to what it does to the project
provider (`Follow`, `Reload`): the provider lives while a user is shown.

| code | actions |
|---|---|
| `handleSubmit` of the two forms | `Submit`, `RegisterOk`, `RegisterFails`, `RegisterInvalid`, `LoginOk`, `LoginFails` |
| `AuthProvider`: effect, `me()`, `logout` | `Mount`, `MeOk`, `MeFails`, `Logout` |
| `DashboardGuard` | `Guard` |
| router, links, reload, the token's age | `Arrive`, `Go`, `Load`, `Expire` |
| `fetchProjects` | `Appear`, `Serve`, `Listed`, `Failed` |
| `createProject`, `handleCreateProject`, `handleCreate` | `Create`, `Serve`, `Created`, `Failed` |
| `switchProject`, the forms' buttons, navigation | `Switch`, `OpenOrEscape`, `Turn` |

A registration whose fields the schema refuses (`Rejected`) is answered with a list
in `detail`, which the form renders as a child: the page goes ("crashed"). Two history variables
name what the properties except: `overtaken`, a late answer of an older page that changed the token under a dashboard;
`patient`, "no" once the user acted while a call was under way, or a call failed.

Left out: other tabs; the sidebar's folding and drop-downs, which only hide the buttons; `login` and
`register` of the provider and `refreshProjects`, which nothing calls; that the API commits a
project after it has answered, which `Accounts` has.

### LogSearch and LogExplorer

`rows` are the logs of one project, newest timestamp first; `Insert` puts a log anywhere, because
its timestamp is the sender's. A call reads one statement at a time (READ COMMITTED), and
`Store` may come between any two. One log, "sought", is CRITICAL and is followed; the others are ERROR or of a level the errors do
not count. The form's filters are one predicate, which leaves the errors, several as a rule, or all rows. A page is stated
by what the properties tell apart: how many rows it has (`Size`) and whether the one followed is among them (`Sought`), from its place
among the rows that match (`Ahead`).

React Query is modelled from how `use-logs.ts` and `query-provider.tsx` configure it: an answer per key,
a fetch when a page asks for a key, a poll every 30 seconds, retries (2 in the code, 1 in the run), the
previous answer shown while a new key is pending (`keepPreviousData`), an unused answer dropped after a while. A fetch keeps the query
it was sent for (`fetch.query`), and its answer is cached under that query's key, with that query beside it. `Look` is
history: where a user who pages to the end stands with the log sought when the page's statement is read.

| code | actions |
|---|---|
| `search`, `get_analytics` | `Statement`, by `Statements` and `Read` |
| `LogFilters`, `handleFilterChange` | `Type` |
| `LogPagination` | `Next_`, `Previous` |
| `useLogs`, `useAnalytics` | `Ask`, `Poll`, `Arrive`, `Fail`, `Forget` |
| sidebar, navigation | `SwitchProject`, `Turn` |
| the worker's `save` and commit | `Store` |

Left out: rows with one timestamp, whose order PostgreSQL may change from one statement to the next
(`ORDER BY timestamp` alone): there paging can really miss a row; the overview page, which asks both
queries at once; `useHealth`.

## 3. Runs

| run | instance | shows |
|---|---|---|
| `pipeline_safety` | 3 requests (one unstorable, one refused), 2 workers, batches of 2, 1 repeat; 2 Redis failures, 1 database failure, 1 crash, 1 lost key; symmetric workers | the safety properties below and that the pipeline implements `LogDelivery` |
| `pipeline_liveness` | 2 requests, 1 failure of each kind | the backlog is read while a worker is left; a queued log arrives unless something failed |
| `pipeline_outage` (violation) | 1 request, 1 database failure | `docs/ARCHITECTURE.md:912` "A database outage doesn't cause log loss": it does |
| `sdk` | 2 entries, 2 threads and the flusher, batches of 2, 1 failed call, 2 expiries | nothing is sent twice or lost without an exception; every call returns, the flusher survives |
| `sdk_exit` (violation) | 2 entries, 1 thread and the flusher, no failure | `docs/INTEGRATION_GUIDE.md:334` "ensures remaining logs are sent on process exit": not those the flusher holds |
| `live` | 2 sockets, 2 messages, 2 failures of each handler's Redis connection | the properties of the live tail and that it implements `LiveFeed` |
| `live_quiet` (violation) | 1 socket, 1 message, no failure | `docs/ARCHITECTURE.md:315` "On disconnect, the subscription is cleaned up": not on a quiet project |
| `accounts` | 4 requests, 2 addresses, 1 failed statement or commit | the properties of the accounts |
| `accounts_login` (violation) | 2 requests, no failure | `docs/auth_implementation.md:31-32`: the answer to a registration comes before the user is there |
| `livelogs` | 2 projects, 5 clicks and 2 looks (clicks and scrolling on the list), 3 failing sockets, 2 attempts, 3 logs of 2 levels, a buffer of 2 | one socket for the selected project, a status and a list that fit it, a connection in the end |
| `dashboard` | 2 accepted addresses and a refused one, 2 projects, 3 clicks, 1 failing call, tokens that expire | user and token agree, the last choice stays, no page waits for ever |
| `explorer` | 2 projects, pages of 1, 3 logs, 2 clicks, 2 failing calls, 1 retry | answers fit their query and add up, nobody is stranded, a walk misses nothing, the page catches up |

The properties of the pipeline: `OneRowPerEntry`, `NothingSkipped`,
`NoSharedEntry`, `AckedIsStoredAndAired`, `AnswerMatchesStream`,
`ImplementsDelivery` (safety); `BacklogDrains`, `QueuedIsDelivered`
(liveness). Of the SDK: `OnePlace`, `ExitLeavesOnlyLate`, `OneExpiryLosesNothing` (of steps); `CallsReturn`, `BufferDrains`. Of the live tail: `NoGap`,
`ImplementsFeed`; `Forwarded`, `CleanedUpByNextMessage`. Of the accounts: `OneOfEach`,
`WholeTransactions`; `EveryRequestEnds`. Of the dashboard's live logs: `OneSocket`,
`FollowsUser`, `StatusFits`, `TailFits`; `Reconnects`. Of session and projects: `UserFitsToken`,
`LastChoiceShown`; `SessionSettles`. Of explorer and analytics: `ShownFits`, `AnswersAddUp`, `NotStranded`,
`WalkMissesNothing`; `CatchesUp`. Each is stated in words above its definition, with what it excepts.

Disagreements met while modelling that no run shows:

- `docs/ARCHITECTURE.md:255` and `:213` say a dead worker's pending messages are reassigned; `log_worker.py:33`
  reads only `>` and nothing claims. (`QueuedIsDelivered` therefore excepts crashes.)
- `docs/ARCHITECTURE.md:767` says a change of project updates all data across all pages; the live log buffer keeps the
  messages of the old one, and after a switch "Connected" may stay on while the new socket connects.
- `postgres_log_repository.py:93` says "last 60 minutes"; the query has no limit of time.
- The levels are counted after the total, so the error rate of the Analytics page may pass 100 %.
- The Live Tail expands a row by its index: the next message moves the detail to another log. (`TailFits` speaks of
  the open row during a pause.)
- `live-logs-provider.tsx:30` says `totalReceived` counts what was cleared as well; `clearMessages` sets it to 0.

**Bounds.** Two workers and two entries that reach the stream, each possibly twice
by a repeated XADD, give batches of different lengths, a full one, entries left
behind it, and a second worker reading between any two calls of the first. Two Redis failures allow
a failed call inside the aftermath of another (a repeated XREADGROUP, then a lost
XACK). One crash leaves one worker of two; two would leave none, which the
properties except. In the SDK two threads and the flusher are enough for any two to
meet in the buffer, the token and `close`; two entries with batches of two give a
full batch, or one that a flush or a close took half-filled; two expiries give the 401 that comes after a re-login.
Two messages give one that is forwarded while the next is pushed, and one on either
side of a break; two failures give a connection that breaks and cannot be made again; sockets
share only the channel. Four requests are what the longest chain needs
(registration, login, project, lookup), and enough for two registrations, of one address or of
two, to overlap while others log in.
Three failing sockets with two attempts use the attempts up, or succeed after one; five
clicks pause, resume and switch around them; three logs overflow a buffer of two, and two looks filter, open a row or scroll away and
jump back while logs arrive. Two clicks of the explorer carry an offset to another query, or walk to the last of three pages. Three clicks (forms submitted, links,
sign-outs, projects created, navigation) of the session give a registration, a second sign-in and an action that overtakes
either; switching between projects, opening a form and answers do not count against them. Pages of one log
with three logs make three pages, with room for two logs to arrive between the statements of a call.
All bounds on failures are guards of the failing actions (`MaxRedisFaults`, ...),
never state constraints.

**Deadlock** is checked for `explorer`, whose poll never ends. The behaviours of the other instances
end when requests, log calls or clicks are used up.

**Fairness.** The event loop runs every task and an awaited call that nothing
disturbs returns, so each worker's next step, and a request that is at its XADD, is weakly
fair; so are the interpreter's threads, and the HTTP calls return because the client has a
timeout (`client.py:74`). Both conditions say `UNCHANGED` of the failure counters: a failure
is never what fairness asks for. In `LiveFanout` the network delivers and the server's pings
find a browser that is gone (uvicorn's `ws_ping_timeout` is on by default); in `Accounts` the database
answers a statement that waits for nothing. Clients need not send anything, the
application need not log, flush, close or exit, no token need expire. In `LiveLogs` the browser's tasks run:
a socket that is neither refused nor broken opens, timers fire, React runs due effects. In the session and the
selection the router shows the page it was asked for and a call is answered or fails; no click and no expiry is
asked for. In `LogExplorer` the poll's timer runs (React Query stops it while the window is in the background, so
`CatchesUp` speaks of a tab in front), and statements and answers come; clicks, logs and failures are bounded
because `CatchesUp` is about what happens once they cease.

## 4. Proofs

Every invariant a passing run checks but `TailFits`, and the action property `OneExpiryLosesNothing`, is a theorem of `Spec` for all
values of the constants, and so are both refinements. (`TailFits` filters with `SelectSeq`, which none of the provers can expand.) The only assumptions are the named ones of the modules (`ASSUME` at the
declaration of the constants): sets are disjoint from the value for "nobody", bounds are naturals, a page, a
batch or a buffer has a size above 0. Each proof module starts with its inductive invariant, `Inv` (`IInv` in
`LogPipelineProofs`), which TLC checked on the run's instance before it was proved; `Invariant` says it always holds,
and the properties follow from it state by state.

| module | theorem | says |
|---|---|---|
| `LogPipelineProofs` | `TypeCorrect` | `TypeOK` |
| | `StoredAtMostOnce` | `OneRowPerEntry` |
| | `NoEntrySkipped` | `NothingSkipped` |
| | `EntriesNotShared` | `NoSharedEntry` |
| | `AcknowledgedLast` | `AiredIsStored /\ AckedIsStoredAndAired` |
| | `AnswersTrue` | `AnswerMatchesStream` |
| | `Implementation` | `Spec => ImplementsDelivery` |
| `SdkClientProofs` | `TypeCorrect`, `OnePlaceTheorem`, `OneExpiryTheorem`, `ExitLeavesOnlyLateTheorem` | `TypeOK`, `OnePlace`, `OneExpiryLosesNothing`, `ExitLeavesOnlyLate` |
| `LiveFanoutProofs` | `TypeCorrect`, `NoGapTheorem` | `TypeOK`, `NoGap` |
| | `Implementation` | `Spec => ImplementsFeed` |
| `AccountsProofs` | `TypeCorrect`, `OneOfEachTheorem`, `WholeTransactionsTheorem` | `TypeOK`, `OneOfEach`, `WholeTransactions` |
| `LiveLogsProofs` | `TypeCorrect`, `OneSocketTheorem`, `FollowsUserTheorem`, `StatusFitsTheorem` | `TypeOK`, `OneSocket`, `FollowsUser`, `StatusFits` |
| | `NewestFirstTheorem`, `TailKeepsLiveLogs` | `NewestFirst`; a behaviour of `LiveTail` is one of `LiveLogs` |
| `ProjectSelectionProofs` | `TypeCorrect`, `UserFitsTokenTheorem`, `LastChoiceShownTheorem` | `TypeOK`, `UserFitsToken`, `LastChoiceShown` |
| `LogExplorerProofs` | `TypeCorrect`, `ShownFitsTheorem`, `AnswersAddUpTheorem`, `NotStrandedTheorem`, `WalkMissesNothingTheorem` | `TypeOK`, `ShownFits`, `AnswersAddUp`, `NotStranded`, `WalkMissesNothing` |

**LogPipeline.** That no entry is stored twice is not inductive. It needs that two
workers never hold the same entry (`NoSharedEntry`), which needs that a batch just
delivered is new to everyone: nothing a worker holds, nothing stored, acknowledged
or pending lies above `High` (`OnlyDelivered`); and that what a worker has yet to
store has no row, while what it publishes or acknowledges has (`RowsFitWorkers`).
`IInv` is the conjunction of these with the type invariant (`TypeInv`, with the
fact that a worker's cursor is inside its batch). `OnlyDelivered` survives the loss of the key
because `High` never decreases (`HighStep`): a new group starts at the first id after the
lost ones. To keep the case analysis small, `Effects` reduces the thirty actions to a dozen
effects on the stream, the group and the workers (`Posts`, `Takes`, `Drops`,
`Stores`, ...), and each invariant is proved effect by effect. For the refinement,
`gone` is what is up to `High`, without a row and in no worker's hands to be
stored; `GoneGrows` shows it only grows, so every step is a `Post`, `Store`,
`GiveUp` or `Air` of `LogDelivery`, or a stutter. `AnswerMatchesStream` has an invariant of its own: a request
that is still at its XADD, or failed there, has one copy on the stream for each attempt whose reply was lost, and no more of these than
attempts were made.

**SdkClient.** `OnePlace` counts places, so the invariant says it without counting (`Once`): buffer, batches,
what the API has and what was dropped are without repetition, disjoint, and together what was logged. The step forms (an entry is buffered, a flush takes
the buffer, the API takes the first of a batch, an exception drops the rest) each keep it. `OneExpiryLosesNothing`
needs `Renewed`: the token a login answered with, and the one posted again, is the newest there is or expired while some thread was
renewing its own; so a second 401 is one of those, and every other entry given up has a failed call or a closed client beside it. `ExitLeavesOnlyLate` needs `ClosedIsFlushed`:
while the logger is closed and its buffer still has something in time, a thread inside `close()` is about to flush; and `Exiting`:
during the exit Main is alone and on its way through `close()`.

**LiveFanout.** `Ordered`: what a browser has shown, what is on the wire, what its handler holds and what its
subscription has buffered ascend, in that order. `Placed`: while browser and Redis connection hold, these are
consecutive numbers from the subscription to the newest message, which is `NoGap`; it survives because a subscription starts empty
(`Staged`). For `ImplementsFeed` every step of a handler is a stutter but the one in which the browser takes a message, and `Ordered` says that this message is newer than those shown.

**Accounts.** `OneOfEach` speaks of committed rows; `UniqueRows` says it of all rows, committed or not, as a unique index does: an
INSERT waits for the transaction that has written the key and goes on only when that was rolled back. `Transactional` ties
a request's place to its rows and its commit: a failure leaves none. `OwnOrganization` says that a request which inserts a user or a project
has an organization that is stored or its own, so that what a commit makes visible is whole; `FoundIsStored`, with
the fact that no committed transaction is undone, says the same of tokens. Together they are `WholeTransactions`.

**LiveLogs.** `Wired`: the socket with handlers is the provider's, alone, and no timer is set beside it; `connect` cleans
up before it opens, and a timer is set only by the loss of the only socket. `Followed` and `Flagged` carry the properties
through the time in which effects are due. `Ordered` says that what a socket still has to tell is newer than the buffer, and gives `NewestFirst`:
as there is one socket, what it has is what was broadcast since it opened. `TailKeepsLiveLogs` carries all of this to `LiveTail`.

**DashboardSession, ProjectSelection.** `UserFitsToken` needs `Asking`: the `me()` call of the page shown is the only one,
nobody is shown while it runs, it asks with a token issued to the user it will show, and that token is still the stored one unless an
older page's answer has overtaken it; and `OfForms`: while a dashboard is shown, an answer to a form comes from a page left. `LastChoiceShown` needs `WhileWaiting`: a user who
waits has one call under way, and for each kind of call it says what list, selection and stored selection are at each phase of it; after the provider has
gone, the stored selection is still the choice (`Remembered`). `EachOnce` says that each answer to a form brings
a project of its own, so that the list never has one three times; `Numbered` that the calls under way fit under
the bound on projects (it counts, with `FiniteSetTheorems`; unmounting the provider and turning a page rewrite the calls, and `Covered` shows that
leaves no more of them).

**LogExplorer, LogSearch.** `ShownFits` needs `Typed`, which says under which query an answer is kept and that the only fetch there is was
sent for what the page asks, and `Waiting`: a page without an answer or an error has a fetch under way. What matches a query only grows, and a log stored moves the log sought back or leaves it
(`Growth`). So a total is at most what matches later (`Bounded`) and a page read after its total covers the range shown (`Covers`); the
analytics are counted in an order in which each figure is at most the chart read after it (`AnalyticsSoFar`). `OffsetsMeetRows`: an offset
that was checked against its own query's total lies within what matches, and stays there. `OnTheWay`: while the user pages on, the log sought is
behind the pages seen.

**Model-checked only.** The liveness properties (`BacklogDrains`, `QueuedIsDelivered`, `CallsReturn`,
`BufferDrains`, `Forwarded`, `CleanedUpByNextMessage`, `EveryRequestEnds`, `Reconnects`, `SessionSettles`,
`CatchesUp`) need fairness and ENABLED, which are out of the provers' reach; `TailFits` as said above. The four runs that expect a
violation refute a claim by a behaviour of a small instance, which is all that takes.

## 5. Plan

1. Done: all modules of section 2, their runs, and theorems for every invariant but `TailFits`, and for both refinements.
2. Next, to prove: action properties that now are inside lemmas, as theorems of their own (in `LogPipeline`, that stored, acknowledged
   and given-up entries stay so; in `Accounts`, that a commit is final); the safety half of the liveness properties (what a
   worker, a thread or a request can be waiting for); the scrolling half of `TailFits`, with the rows shown as a set.
3. `EndToEnd`: the SDK's requests composed with `LogPipeline` and `LiveFanout`, from a log call to a dashboard.

## 6. Not modelled

- `frontend/src/lib/hooks/use-websocket.ts`: no component uses it.
- Rendering: tables, charts beyond their totals, the overview page, the header's health badge, the UI kit.
- Constants, schemas, formatting and configuration.
- Migrations and their failure at start (`app/main.py:20`, logged and ignored).
- Build and deployment files, except for what they say of Redis.

`PROJECT.json` ("components") gives the reason for each.
