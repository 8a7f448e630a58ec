-------------------------------- MODULE LiveLogs --------------------------------
(***************************************************************************)
(* The dashboard's live log provider (lib/providers/live-logs-provider.tsx)*)
(* with the Live Tail page's buttons: one WebSocket that follows the       *)
(* selected project, a reconnect timer, a buffer of messages.  LiveTail    *)
(* adds what the page makes of the buffer.                                 *)
(*                                                                         *)
(* An action is one callback: a click, a socket event, the timer, React's  *)
(* effects.  React runs the effects of a click inside the click; those of  *)
(* a render that a promise caused (a project list or a created project)    *)
(* run later, and callbacks of the old render may come before them.        *)
(***************************************************************************)
EXTENDS Integers, Sequences, FiniteSets

CONSTANTS
  Projects,      \* the projects of the organization
  None,          \* no project, no timer
  MaxMessages,   \* MAX_MESSAGES
  MaxAttempts,   \* MAX_RECONNECT_ATTEMPTS
  MaxPublished,  \* bound on the logs broadcast
  MaxFailures,   \* bound on sockets that close by themselves
  MaxClicks      \* bound on what the user does

ASSUME NoneAssumption == None \notin Projects
ASSUME SizesAssumption == MaxMessages \in Nat \ {0} /\ MaxAttempts \in Nat
ASSUME BoundsAssumption == MaxPublished \in Nat /\ MaxFailures \in Nat /\ MaxClicks \in Nat

VARIABLES
  mounted,            \* "yes" while the dashboard's layout is there
  projectId,          \* the selected project
  effects,            \* "due" between a render with a new project and its effects
  isStreaming,        \* "on" or "off" (and isStreamingRef)
  isConnected,        \* what the page shows, as the next two
  isConnecting,
  error,
  sockets,            \* the WebSockets that have their handlers
  wsRef,              \* the number of the provider's socket, 0 for none
  reconnectTimeout,   \* the project the pending timer will connect to
  reconnectAttempts,
  messages,           \* the buffer, newest first
  totalReceived,
  published,          \* logs broadcast so far
  failures, clicks    \* counted against their bounds

flags == <<isConnected, isConnecting, error>>
wires == <<sockets, wsRef, reconnectTimeout>>
buffer == <<messages, totalReceived>>
user == <<mounted, projectId, effects, isStreaming>>
bounds == <<published, failures, clicks>>
vars == <<user, flags, wires, reconnectAttempts, buffer, bounds>>

Init ==
  /\ mounted = "yes" /\ projectId = None /\ effects = "done" /\ isStreaming = "on"
  /\ isConnected = "no" /\ isConnecting = "no" /\ error = "no"
  /\ sockets = {} /\ wsRef = 0 /\ reconnectTimeout = None /\ reconnectAttempts = 0
  /\ messages = <<>> /\ totalReceived = 0
  /\ published = 0 /\ failures = 0 /\ clicks = 0

--------------------------------------------------------------------------------
(* cleanupWs and connect *)

Others == {s \in sockets : s.id # wsRef}
FreeId == CHOOSE i \in 1 .. Cardinality(Others) + 1 : \A s \in Others : s.id # i

\* (variants) The timer goes on; the socket keeps its handlers.
CleanupWsKeepingTimer == sockets' = Others /\ wsRef' = 0 /\ UNCHANGED reconnectTimeout
CleanupWsKeepingHandlers == wsRef' = 0 /\ reconnectTimeout' = None /\ UNCHANGED sockets

\* cleanupWs: the timer is cleared; the socket loses its handlers and is closed.
CleanupWs == sockets' = Others /\ wsRef' = 0 /\ reconnectTimeout' = None

\* (variant) Nothing is done while the flag says connected.
ConnectUnlessConnected(p) ==
  IF isConnected = "yes" THEN CleanupWs /\ UNCHANGED <<isConnecting, error>>
  ELSE
    /\ sockets' = Others \cup {[id |-> FreeId, project |-> p, phase |-> "connecting", inbox |-> <<>>]}
    /\ wsRef' = FreeId /\ reconnectTimeout' = None
    /\ isConnecting' = "yes" /\ error' = "no"
\* connect: clean up, then a socket with its four handlers.
Connect(p) ==
  /\ sockets' = Others \cup {[id |-> FreeId, project |-> p, phase |-> "connecting", inbox |-> <<>>]}
  /\ wsRef' = FreeId /\ reconnectTimeout' = None
  /\ isConnecting' = "yes" /\ error' = "no"

--------------------------------------------------------------------------------
(* The handlers of a socket, and the timer *)

OnOpen(s) ==
  /\ s.phase = "connecting"
  /\ sockets' = (sockets \ {s}) \cup {[s EXCEPT !.phase = "open"]}
  /\ isConnected' = "yes" /\ isConnecting' = "no" /\ error' = "no"
  /\ reconnectAttempts' = 0
  /\ UNCHANGED <<user, wsRef, reconnectTimeout, buffer, bounds>>

Prepend(m) == SubSeq(<<m>> \o messages, 1, IF Len(messages) < MaxMessages THEN Len(messages) + 1 ELSE MaxMessages)

OnMessage(s) ==
  /\ s.inbox # <<>>
  /\ sockets' = (sockets \ {s}) \cup {[s EXCEPT !.inbox = Tail(@)]}
  /\ messages' = Prepend(Head(s.inbox))
  /\ totalReceived' = totalReceived + 1
  /\ UNCHANGED <<user, flags, wsRef, reconnectTimeout, reconnectAttempts, bounds>>

\* (variant) One attempt too many.
MayRetryOnceMore(s) == isStreaming = "on" /\ reconnectAttempts <= MaxAttempts
\* The condition of the automatic reconnect.
MayRetry(s) == isStreaming = "on" /\ reconnectAttempts < MaxAttempts

\* (variant) The flag of a connection in progress is left as it is.
ClosedFlagsLeft(failed) == isConnected' = "no" /\ error' = (IF failed THEN "yes" ELSE error) /\ UNCHANGED isConnecting

ClosedFlags(failed) == isConnected' = "no" /\ isConnecting' = "no" /\ error' = IF failed THEN "yes" ELSE error

\* onclose, in the same task after onerror if the connection failed.  The timer's callback is
\* the connect of the render that made the socket.
OnClose(s, failed) ==
  /\ failures < MaxFailures /\ failures' = failures + 1
  /\ sockets' = sockets \ {s} /\ wsRef' = 0
  /\ ClosedFlags(failed)
  /\ IF MayRetry(s)
       THEN reconnectTimeout' = s.project /\ reconnectAttempts' = reconnectAttempts + 1
       ELSE UNCHANGED <<reconnectTimeout, reconnectAttempts>>
  /\ UNCHANGED <<user, buffer, published, clicks>>

TimerFires ==
  /\ reconnectTimeout # None
  /\ Connect(reconnectTimeout)
  /\ UNCHANGED <<user, isConnected, reconnectAttempts, buffer, bounds>>

--------------------------------------------------------------------------------
(* Renders and their effects *)

\* The clean-up of the effect of the last render, then the effect of this one.
Effect(p) ==
  IF isStreaming' = "on" /\ p # None THEN Connect(p) ELSE CleanupWs /\ UNCHANGED <<isConnecting, error>>

\* A promise selects a project: a list that arrived, a project that was created.  (React runs
\* effects that are due before it renders again.)
ProjectArrives(p) ==
  /\ clicks < MaxClicks /\ clicks' = clicks + 1
  /\ projectId # p /\ effects = "done"
  /\ projectId' = p /\ effects' = "due"
  /\ UNCHANGED <<mounted, isStreaming, flags, wires, reconnectAttempts, buffer, published, failures>>

RunEffects ==
  /\ effects = "due" /\ effects' = "done"
  /\ UNCHANGED <<mounted, projectId, isStreaming, isConnected, reconnectAttempts, buffer, bounds>>
  /\ Effect(projectId)

Click == clicks < MaxClicks /\ clicks' = clicks + 1 /\ UNCHANGED <<published, failures>>

\* The sidebar's project list.
SwitchProject(p) ==
  /\ Click
  /\ projectId \notin {None, p} /\ projectId' = p
  /\ effects' = "done"
  /\ UNCHANGED <<mounted, isStreaming, isConnected, reconnectAttempts, buffer>>
  /\ Effect(p)

\* Effects that were still due come after the click's own calls and before those of its render:
\* they connect once more, which only the flag remembers.
Connecting == IF effects = "due" THEN "yes" ELSE "no"

\* Without a project the Live Tail page has nothing of the following.
PageShown == projectId # None

\* setStreaming(false)
Pause ==
  /\ Click
  /\ PageShown /\ isStreaming = "on"
  /\ isStreaming' = "off" /\ effects' = "done"
  /\ isConnected' = "no" /\ isConnecting' = Connecting
  /\ error' = IF effects = "due" THEN "no" ELSE error
  /\ CleanupWs
  /\ UNCHANGED <<mounted, projectId, reconnectAttempts, buffer>>

\* setStreaming(true): it connects, and the effect of its render replaces that socket at once.
Resume ==
  /\ Click
  /\ PageShown /\ isStreaming = "off"
  /\ isStreaming' = "on" /\ effects' = "done"
  /\ reconnectAttempts' = IF wsRef = 0 THEN 0 ELSE reconnectAttempts
  /\ UNCHANGED <<mounted, projectId, isConnected, buffer>>
  /\ Connect(projectId)

\* The Live Tail page: its status card, its error banner, and the button for reconnect.
Status ==
  IF isConnected = "yes" THEN "Connected"
  ELSE IF isConnecting = "yes" THEN "Connecting..."
  ELSE IF isStreaming = "on" THEN "Disconnected" ELSE "Paused"
Banner == error = "yes"
ReconnectShown == isStreaming = "on" /\ isConnected = "no" /\ isConnecting = "no"

\* reconnect
Reconnect ==
  /\ Click
  /\ PageShown /\ ReconnectShown
  /\ reconnectAttempts' = 0 /\ effects' = "done"
  /\ UNCHANGED <<mounted, projectId, isStreaming, isConnected, buffer>>
  /\ Connect(projectId)

ClearMessages ==
  /\ Click
  /\ PageShown /\ messages # <<>>
  /\ messages' = <<>> /\ totalReceived' = 0
  /\ UNCHANGED <<user, flags, wires, reconnectAttempts>>

\* Logging out unmounts the layout: the effect's clean-up runs, the state is gone.
Unmount ==
  /\ Click
  /\ mounted' = "no" /\ projectId' = None /\ effects' = "done" /\ isStreaming' = "off"
  /\ CleanupWs
  /\ isConnected' = "no" /\ isConnecting' = "no" /\ error' = "no"
  /\ reconnectAttempts' = 0 /\ messages' = <<>> /\ totalReceived' = 0

\* A log of project p is broadcast to the sockets that are open for it.
Publish(p) ==
  /\ published < MaxPublished /\ published' = published + 1
  /\ sockets' = {IF s.phase = "open" /\ s.project = p
                   THEN [s EXCEPT !.inbox = Append(@, [project |-> p, n |-> published'])]
                   ELSE s : s \in sockets}
  /\ UNCHANGED <<user, flags, wsRef, reconnectTimeout, reconnectAttempts, buffer, failures, clicks>>

--------------------------------------------------------------------------------
SocketEvent == \E s \in sockets : OnOpen(s) \/ OnMessage(s) \/ (\E failed \in BOOLEAN : OnClose(s, failed))

Next ==
  /\ mounted = "yes"
  /\ \/ SocketEvent
     \/ TimerFires
     \/ RunEffects
     \/ \E p \in Projects : ProjectArrives(p) \/ SwitchProject(p) \/ Publish(p)
     \/ Pause \/ Resume \/ Reconnect \/ ClearMessages \/ Unmount

Spec == Init /\ [][Next]_vars

--------------------------------------------------------------------------------
Message == [project : Projects, n : 1 .. MaxPublished]
YesNo == {"yes", "no"}

\* Types: the buffer holds at most MAX_MESSAGES, the attempts never pass their limit.
TypeOK ==
  /\ mounted \in YesNo /\ projectId \in Projects \cup {None}
  /\ effects \in {"done", "due"} /\ isStreaming \in {"on", "off"}
  /\ isConnected \in YesNo /\ isConnecting \in YesNo /\ error \in YesNo
  /\ \A s \in sockets : /\ s.id \in Nat \ {0} /\ s.project \in Projects
                        /\ s.phase \in {"connecting", "open"} /\ s.inbox \in Seq(Message)
  /\ wsRef \in Nat /\ reconnectTimeout \in Projects \cup {None}
  /\ reconnectAttempts \in 0 .. MaxAttempts
  /\ messages \in Seq(Message) /\ Len(messages) <= MaxMessages /\ totalReceived \in 0 .. MaxPublished
  /\ published \in 0 .. MaxPublished /\ failures \in 0 .. MaxFailures /\ clicks \in 0 .. MaxClicks

\* At any time one socket at most can change the provider's state, it is the one the provider will
\* close, and none is there while a timer is set to make another: whatever clicks, events and
\* timers do, connect() never leaves a second one behind.
OneSocket ==
  /\ \A s \in sockets : s.id = wsRef
  /\ Cardinality(sockets) <= 1
  /\ wsRef # 0 => sockets # {} /\ reconnectTimeout = None

\* Once the effects have run, a socket or a timer is for the selected project, and there is none
\* after a pause or a logout: a timer or a socket of an earlier render never outlives it.
FollowsUser ==
  effects = "done" =>
    /\ \A s \in sockets : s.project = projectId /\ isStreaming = "on"
    /\ reconnectTimeout # None => reconnectTimeout = projectId /\ isStreaming = "on"

\* What the page says fits the socket: an open one is shown as connected; "Connected", and
\* "Connecting..." while streaming is on, mean that there is one or one being made; and exactly when
\* streaming is on without any, its attempts used up or not, the button to reconnect is offered.
\* (After a switch "Connected" is still shown while the new one connects.)
StatusFits ==
  effects = "done" =>
    /\ (\E s \in sockets : s.phase = "open") => Status = "Connected"
    /\ Status = "Connected" => sockets # {}
    /\ Status = "Connecting..." /\ isStreaming = "on" => \E s \in sockets : s.phase = "connecting"
    /\ ReconnectShown \/ Banner => sockets = {}
    /\ sockets = {} /\ isStreaming = "on" /\ PageShown => ReconnectShown

\* The buffer is newest first and has no log twice, over pauses, switches and reconnects: the
\* sockets that filled it were never heard side by side.
NewestFirst == \A i, j \in DOMAIN messages : i < j => messages[i].n > messages[j].n

\* With streaming on and a project selected, the provider comes to be connected for the selected
\* project, unless it used up its attempts or the user pauses or leaves.
Reconnects ==
  (projectId # None /\ isStreaming = "on")
    ~> \/ \E s \in sockets : s.phase = "open" /\ s.project = projectId /\ s.id = wsRef
       \/ reconnectAttempts = MaxAttempts
       \/ isStreaming = "off"
================================================================================
