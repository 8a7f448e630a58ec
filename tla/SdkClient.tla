------------------------------- MODULE SdkClient -------------------------------
(***************************************************************************)
(* The Python SDK (sdk/src/orglog/client.py): an OrgLog object shared by   *)
(* the threads of an application, its background flusher and the close()   *)
(* its atexit handler calls.  The buffer is handled under the lock; all    *)
(* else (the token, the closed flag, the HTTP client) is shared without    *)
(* one, and an action ends wherever another thread may run.                *)
(***************************************************************************)
EXTENDS Integers, Sequences, FiniteSets, Functions

CONSTANTS
  Entries,      \* the log calls of the application, one entry each
  AppThreads,   \* its threads ...
  Main,         \* ... with the one that runs the atexit handlers
  Flushers,     \* the flusher thread, or nothing when auto_flush is off
  BatchSize,
  Credentials,  \* "given" or "none": can the client log in again?
  MaxFaults,    \* bounds on failed calls and
  MaxExpiries   \* on tokens that expire

ASSUME ThreadsAssumption == Main \in AppThreads /\ AppThreads \cap Flushers = {}
ASSUME BatchSizeAssumption == BatchSize \in Nat \ {0}
ASSUME BoundsAssumption == MaxFaults \in Nat /\ MaxExpiries \in Nat

VARIABLES
  logged,    \* the entries the application has logged
  late,      \* those it logged when the logger was closed already
  buffer,    \* self._buffer
  logger,    \* self._closed: "open" or "closed"
  client,    \* self._client: "open" or "closed"
  token,     \* self._access_token, counted by expiry
  accepted,  \* the oldest token the API still accepts
  pc,        \* where each thread is
  closing,   \* the threads in close() that have set _closed
  batch,     \* what a thread has left to send
  held,      \* the token in the request it makes, or a login got it
  met,       \* (history) the tokens that expired while a thread was Renewing its own
  received,  \* the entries the API took, in order
  dropped,   \* the entries an exception kept from being sent
  process,   \* "running", "exiting" (atexit) or "over"
  faults     \* failed calls so far

bufferVars == <<logged, late, buffer>>
sharedVars == <<logger, client>>
tokenVars == <<token, accepted, held, met>>
sentVars == <<received, dropped>>
runVars == <<process, faults>>
vars == <<bufferVars, sharedVars, tokenVars, pc, closing, batch, sentVars, runVars>>

Threads == AppThreads \cup Flushers
Outside == {"idle", "loop", "sleep", "gone"}
Sending == {"send", "post", "login", "asked", "store", "again", "repost"}
Renewing == {"store", "again", "repost"}
Places == Outside \cup Sending \cup {"flush", "check", "mark", "shut"}

\* __init__ has logged in, or was given a token, and started the flusher.
Init ==
  /\ logged = {} /\ late = {} /\ buffer = <<>>
  /\ logger = "open" /\ client = "open"
  /\ token = 0 /\ accepted = 0 /\ held = [t \in Threads |-> 0] /\ met = {}
  /\ pc = [t \in Threads |-> IF t \in AppThreads THEN "idle" ELSE "loop"]
  /\ closing = {} /\ batch = [t \in Threads |-> <<>>]
  /\ received = <<>> /\ dropped = {}
  /\ process = "running" /\ faults = 0

Fault == faults < MaxFaults /\ faults' = faults + 1
GoTo(t, place) == pc' = [pc EXCEPT ![t] = place]

\* Where a thread goes when an exception leaves flush(), and when its batch is sent.
Caller(t) == IF t \in Flushers THEN "loop" ELSE "idle"
Sent(t) == IF t \in closing THEN "shut" ELSE Caller(t)

--------------------------------------------------------------------------------
(* The calls of the object, and the flusher's loop *)

\* (variant) The buffer is copied and not cleared.
TakeCopy(t, entries) ==
  /\ batch' = [batch EXCEPT ![t] = entries] /\ GoTo(t, "send")
  /\ buffer' = entries

\* The lock is held from the append to the clear.
TakeAll(t, entries) ==
  /\ batch' = [batch EXCEPT ![t] = entries] /\ GoTo(t, "send")
  /\ buffer' = <<>>

\* _log: the thread that fills the batch sends it.  Nothing asks whether the logger is closed.
Log(t, e) ==
  /\ pc[t] = "idle" /\ process = "running" /\ e \notin logged
  /\ logged' = logged \cup {e} /\ late' = IF logger = "closed" THEN late \cup {e} ELSE late
  /\ IF Len(buffer) + 1 >= BatchSize
       THEN TakeAll(t, Append(buffer, e))
       ELSE buffer' = Append(buffer, e) /\ UNCHANGED <<pc, batch>>
  /\ UNCHANGED <<sharedVars, tokenVars, closing, sentVars, runVars>>

CallFlush(t) ==
  /\ pc[t] = "idle" /\ process = "running"
  /\ GoTo(t, "flush")
  /\ UNCHANGED <<bufferVars, sharedVars, tokenVars, closing, batch, sentVars, runVars>>

Flush(t) ==
  /\ pc[t] = "flush"
  /\ IF buffer = <<>> THEN GoTo(t, Sent(t)) /\ UNCHANGED <<buffer, batch>>
                      ELSE TakeAll(t, buffer)
  /\ UNCHANGED <<logged, late, sharedVars, tokenVars, closing, sentVars, runVars>>

CallClose(t) ==
  /\ pc[t] = "idle" /\ process = "running"
  /\ GoTo(t, "check")
  /\ UNCHANGED <<bufferVars, sharedVars, tokenVars, closing, batch, sentVars, runVars>>

\* close() reads _closed, sets it, flushes and closes the HTTP client: four steps.
CheckClosed(t) ==
  /\ pc[t] = "check"
  /\ GoTo(t, IF logger = "closed" THEN "idle" ELSE "mark")
  /\ UNCHANGED <<bufferVars, sharedVars, tokenVars, closing, batch, sentVars, runVars>>

\* (variant) close() leaves the flushing to the flusher's last round.
MarkClosedOnly(t) ==
  /\ pc[t] = "mark"
  /\ logger' = "closed" /\ closing' = closing \cup {t}
  /\ GoTo(t, "shut")
  /\ UNCHANGED <<bufferVars, client, tokenVars, batch, sentVars, runVars>>

MarkClosed(t) ==
  /\ pc[t] = "mark"
  /\ logger' = "closed" /\ closing' = closing \cup {t}
  /\ GoTo(t, "flush")
  /\ UNCHANGED <<bufferVars, client, tokenVars, batch, sentVars, runVars>>

ShutClient(t) ==
  /\ pc[t] = "shut"
  /\ client' = "closed" /\ closing' = closing \ {t}
  /\ GoTo(t, "idle")
  /\ UNCHANGED <<bufferVars, logger, tokenVars, batch, sentVars, runVars>>

\* The flusher reads _closed, sleeps, then flushes whatever _closed is by then.
LoopAgain(t) ==
  /\ pc[t] = "loop"
  /\ GoTo(t, IF logger = "closed" THEN "gone" ELSE "sleep")
  /\ UNCHANGED <<bufferVars, sharedVars, tokenVars, closing, batch, sentVars, runVars>>

Wake(t) ==
  /\ pc[t] = "sleep"
  /\ GoTo(t, "flush")
  /\ UNCHANGED <<bufferVars, sharedVars, tokenVars, closing, batch, sentVars, runVars>>

--------------------------------------------------------------------------------
(* _send_batch, _send_single and _login, for the first entry of the batch *)

\* (variants) The batch survives the exception; the exception ends the flusher.
RaiseKeepingBatch(t, unsent) ==
  /\ dropped' = dropped \cup Range(unsent)
  /\ closing' = closing \ {t} /\ GoTo(t, Caller(t))
  /\ UNCHANGED batch
RaiseUncaught(t, unsent) ==
  /\ batch' = [batch EXCEPT ![t] = <<>>] /\ dropped' = dropped \cup Range(unsent)
  /\ closing' = closing \ {t} /\ GoTo(t, IF t \in Flushers THEN "gone" ELSE "idle")

\* The exception leaves _send_batch, and close(): the entry and those behind it are not sent.
Raise(t, unsent) ==
  /\ batch' = [batch EXCEPT ![t] = <<>>] /\ dropped' = dropped \cup Range(unsent)
  /\ closing' = closing \ {t} /\ GoTo(t, Caller(t))

\* The header is made of the token of now.
Post(t) ==
  /\ pc[t] \in {"send", "again"} /\ client = "open"
  /\ held' = [held EXCEPT ![t] = token]
  /\ GoTo(t, IF pc[t] = "send" THEN "post" ELSE "repost")
  /\ UNCHANGED <<bufferVars, sharedVars, token, accepted, met, closing, batch, sentVars, runVars>>

Login(t) ==
  /\ pc[t] = "login" /\ client = "open"
  /\ GoTo(t, "asked")
  /\ UNCHANGED <<bufferVars, sharedVars, tokenVars, closing, batch, sentVars, runVars>>

\* A closed client raises, whatever it is to post.
PostOnClosed(t) ==
  /\ pc[t] \in {"send", "again", "login"} /\ client = "closed"
  /\ Raise(t, batch[t])
  /\ UNCHANGED <<bufferVars, sharedVars, tokenVars, received, runVars>>

PostOk(t) ==
  /\ pc[t] \in {"post", "repost"} /\ held[t] >= accepted
  /\ received' = Append(received, Head(batch[t]))
  /\ batch' = [batch EXCEPT ![t] = Tail(@)]
  /\ GoTo(t, IF Len(batch[t]) > 1 THEN "send" ELSE Sent(t))
  /\ UNCHANGED <<bufferVars, sharedVars, tokenVars, closing, dropped, runVars>>

\* (variants) The request is made again without a login; a client logs in again once in its life.
UnauthorizedWithoutLogin(t) ==
  /\ pc[t] \in {"post", "repost"} /\ held[t] < accepted
  /\ GoTo(t, "send")
  /\ UNCHANGED <<bufferVars, sharedVars, tokenVars, closing, batch, sentVars, runVars>>
UnauthorizedOnce(t) ==
  /\ pc[t] \in {"post", "repost"} /\ held[t] < accepted
  /\ IF pc[t] = "post" /\ Credentials = "given" /\ token = 0
       THEN GoTo(t, "login") /\ UNCHANGED <<closing, batch, dropped>>
       ELSE Raise(t, batch[t])
  /\ UNCHANGED <<bufferVars, sharedVars, tokenVars, received, runVars>>

\* 401: log in and post once more, unless that was done or cannot be.
Unauthorized(t) ==
  /\ pc[t] \in {"post", "repost"} /\ held[t] < accepted
  /\ IF pc[t] = "post" /\ Credentials = "given"
       THEN GoTo(t, "login") /\ UNCHANGED <<closing, batch, dropped>>
       ELSE Raise(t, batch[t])
  /\ UNCHANGED <<bufferVars, sharedVars, tokenVars, received, runVars>>

\* A connection error or an error status; the API may have taken the entry before the
\* connection broke.  Closing the client breaks the connections in use.
PostFails(t) ==
  /\ pc[t] \in {"post", "repost"}
  /\ \/ Fault
     \/ client = "closed" /\ UNCHANGED faults
  /\ \/ Raise(t, batch[t]) /\ UNCHANGED received
     \/ /\ held[t] >= accepted
        /\ received' = Append(received, Head(batch[t]))
        /\ Raise(t, Tail(batch[t]))
  /\ UNCHANGED <<bufferVars, sharedVars, tokenVars, process>>

\* The API issues a token; the thread stores it in a later step.
LoginOk(t) ==
  /\ pc[t] = "asked"
  /\ held' = [held EXCEPT ![t] = accepted]
  /\ GoTo(t, "store")
  /\ UNCHANGED <<bufferVars, sharedVars, token, accepted, met, closing, batch, sentVars, runVars>>

LoginFails(t) ==
  /\ pc[t] = "asked"
  /\ \/ Fault
     \/ client = "closed" /\ UNCHANGED faults
  /\ Raise(t, batch[t])
  /\ UNCHANGED <<bufferVars, sharedVars, tokenVars, received, process>>

StoreToken(t) ==
  /\ pc[t] = "store"
  /\ token' = held[t]
  /\ GoTo(t, "again")
  /\ UNCHANGED <<bufferVars, sharedVars, accepted, held, met, closing, batch, sentVars, runVars>>

--------------------------------------------------------------------------------
(* The API's clock and the end of the process *)

Expire ==
  /\ accepted < MaxExpiries
  /\ accepted' = accepted + 1
  /\ met' = IF \E t \in Threads : pc[t] \in Renewing THEN met \cup {accepted} ELSE met
  /\ UNCHANGED <<bufferVars, sharedVars, token, held, pc, closing, batch, sentVars, runVars>>

\* The interpreter has joined the application's threads; atexit runs close() if it was registered.
Exit ==
  /\ process = "running" /\ \A t \in AppThreads : pc[t] = "idle"
  /\ process' = "exiting"
  /\ IF Flushers # {} THEN GoTo(Main, "check") ELSE UNCHANGED pc
  /\ UNCHANGED <<bufferVars, sharedVars, tokenVars, closing, batch, sentVars, faults>>

\* The flusher is a daemon thread: it ends wherever it is.
Over ==
  /\ process = "exiting" /\ pc[Main] = "idle"
  /\ process' = "over"
  /\ pc' = [t \in Threads |-> "gone"]
  /\ UNCHANGED <<bufferVars, sharedVars, tokenVars, closing, batch, sentVars, faults>>

--------------------------------------------------------------------------------

SendStep(t) ==
  \/ Post(t) \/ Login(t) \/ PostOnClosed(t) \/ PostOk(t) \/ Unauthorized(t) \/ PostFails(t)
  \/ LoginOk(t) \/ LoginFails(t) \/ StoreToken(t)

CallStep(t) == CheckClosed(t) \/ MarkClosed(t) \/ ShutClient(t) \/ Flush(t)

Next ==
  \/ \E t \in AppThreads : CallFlush(t) \/ CallClose(t) \/ \E e \in Entries : Log(t, e)
  \/ \E t \in Flushers : LoopAgain(t) \/ Wake(t)
  \/ \E t \in Threads : CallStep(t) \/ SendStep(t)
  \/ Expire \/ Exit \/ Over

Spec == Init /\ [][Next]_vars

(* The interpreter runs every thread, time.sleep and the HTTP calls (30 s      *)
(* timeout) return.  The application need not call anything or exit, nothing   *)
(* need fail, no token need expire.                                            *)
Fairness ==
  /\ \A t \in Threads : WF_vars((CallStep(t) \/ SendStep(t)) /\ UNCHANGED faults)
  /\ \A t \in Flushers : WF_vars(LoopAgain(t) \/ Wake(t))

FairSpec == Spec /\ Fairness

--------------------------------------------------------------------------------
(* Properties *)

\* Every variable has its type: see the declarations.  A thread has a batch while it sends, only.
TypeOK ==
  /\ logged \subseteq Entries /\ late \subseteq logged
  /\ buffer \in Seq(Entries)
  /\ logger \in {"open", "closed"} /\ client \in {"open", "closed"}
  /\ token \in Nat /\ accepted \in Nat /\ held \in [Threads -> Nat] /\ met \subseteq Nat
  /\ pc \in [Threads -> Places] /\ closing \subseteq AppThreads
  /\ batch \in [Threads -> Seq(Entries)]
  /\ received \in Seq(Entries) /\ dropped \subseteq Entries
  /\ process \in {"running", "exiting", "over"}
  /\ faults \in Nat
  /\ process # "over" => \A t \in Threads : batch[t] # <<>> <=> pc[t] \in Sending

\* Every entry logged is in exactly one place (the buffer, one thread's batch, the API, or dropped
\* with an exception) and there once: the flusher and the threads never send an entry twice,
\* and none slips out between copying and clearing the buffer.
PlacesOf(e) ==
  {<<"buffer", i>> : i \in {j \in DOMAIN buffer : buffer[j] = e}}
    \cup {<<"received", i>> : i \in {j \in DOMAIN received : received[j] = e}}
    \cup (UNION {{<<"batch", t, i>> : i \in {j \in DOMAIN batch[t] : batch[t][j] = e}} : t \in Threads})
    \cup {<<"dropped", d>> : d \in {e} \cap dropped}
OnePlace == \A e \in Entries : Cardinality(PlacesOf(e)) = IF e \in logged THEN 1 ELSE 0

\* With credentials, an entry is given up only by a call that fails, on a closed client, or when the
\* request made again after a login is refused for a token that expired since a login was answered:
\* however many tokens expire, an expiry that meets no login loses nothing.
OneExpiryLosesNothing ==
  [][Credentials = "given" /\ dropped' # dropped =>
       \/ faults' # faults \/ client = "closed"
       \/ \E t \in Threads : pc[t] = "repost" /\ batch'[t] # batch[t] /\ held[t] \in met]_vars

\* Whatever close() calls raced or raised before it, the atexit handler leaves in the buffer only
\* what was logged to a closed logger.
ExitLeavesOnlyLate ==
  (process = "over" /\ Flushers # {}) => Range(buffer) \subseteq late

\* The calls return: no thread is kept in the library, and the flusher gets back to its loop.
CallsReturn == \A t \in Threads : pc[t] \notin Outside ~> pc[t] \in Outside

\* The flusher never dies of an exception: an entry in the buffer leaves it, unless the logger is
\* closed or the process over.
BufferDrains ==
  \A e \in Entries :
    e \in Range(buffer) ~> (e \notin Range(buffer) \/ logger = "closed" \/ process = "over")

--------------------------------------------------------------------------------
(* A claim of docs/INTEGRATION_GUIDE.md the code does not keep *)

\* "atexit handler ensures remaining logs are sent on process exit" (line 334): when the process
\* is over and nothing failed, expired or was logged late, the API has every entry.  close() closes
\* the HTTP client under a flusher that has taken the buffer, or the process ends under it.
ExitSendsAll ==
  (process = "over" /\ faults = 0 /\ accepted = 0 /\ late = {}) => logged \subseteq Range(received)
================================================================================
