----------------------------- MODULE LiveLogsProofs -----------------------------
(***************************************************************************)
(* What holds of LiveLogs for any projects, limits, failures and clicks,   *)
(* and so of LiveTail, whose steps are its steps or leave it alone.        *)
(***************************************************************************)
EXTENDS LiveTail, FiniteSetTheorems, TLAPS

Socket == [id : Nat \ {0}, project : Projects, phase : {"connecting", "open"}, inbox : Seq(Message)]

\* The types of everything but the sockets.
Typed ==
  /\ mounted \in YesNo /\ projectId \in Projects \cup {None}
  /\ effects \in {"done", "due"} /\ isStreaming \in {"on", "off"}
  /\ isConnected \in YesNo /\ isConnecting \in YesNo /\ error \in YesNo
  /\ wsRef \in Nat /\ reconnectTimeout \in Projects \cup {None}
  /\ reconnectAttempts \in 0 .. MaxAttempts
  /\ messages \in Seq(Message) /\ Len(messages) <= MaxMessages /\ totalReceived \in Nat
  /\ published \in 0 .. MaxPublished /\ failures \in 0 .. MaxFailures /\ clicks \in 0 .. MaxClicks

\* The socket that has handlers is the provider's, alone, and no timer is set beside it.
Wired ==
  /\ sockets \subseteq Socket
  /\ \A s \in sockets : sockets = {s} /\ s.id = wsRef /\ reconnectTimeout = None
  /\ sockets = {} => wsRef = 0

\* Nothing is received that was not broadcast.
Counted ==
  /\ totalReceived <= published
  /\ \A s \in sockets : totalReceived + Len(s.inbox) <= published

\* Sockets and timers are there for streaming only, and for the project of the last effects.
Followed ==
  /\ sockets # {} \/ reconnectTimeout # None => isStreaming = "on"
  /\ effects = "done" => /\ \A s \in sockets : s.project = projectId
                         /\ reconnectTimeout # None => reconnectTimeout = projectId
  /\ effects = "due" => projectId \in Projects

\* The flags fit the socket, also while effects are due.
Flagged ==
  /\ \A s \in sockets : s.phase = "open" => isConnected = "yes"
  /\ \A s \in sockets : s.phase = "connecting" => isConnecting = "yes"
  /\ error = "yes" => sockets = {}
  /\ isConnected = "yes" => sockets # {}
  /\ isConnecting = "yes" /\ isStreaming = "on" => \E s \in sockets : s.phase = "connecting"

\* What a socket still has to tell is in the order of broadcasting, and newer than the buffer.
Queued(s) ==
  \A i \in DOMAIN s.inbox :
    /\ s.inbox[i].n <= published
    /\ \A j \in DOMAIN messages : messages[j].n < s.inbox[i].n
    /\ \A k \in DOMAIN s.inbox : k < i => s.inbox[k].n < s.inbox[i].n

Ordered ==
  /\ NewestFirst
  /\ \A j \in DOMAIN messages : messages[j].n <= published
  /\ \A s \in sockets : Queued(s)

Inv == Typed /\ Wired /\ Counted /\ Followed /\ Flagged /\ Ordered

Fresh(p) == [id |-> 1, project |-> p, phase |-> "connecting", inbox |-> <<>>]

\* After a clean-up there is no other socket, so that connect() leaves the new one alone.
LEMMA ConnectAlone ==
  ASSUME Wired, NEW p \in Projects, Connect(p)
  PROVE  /\ sockets' = {Fresh(p)} /\ Fresh(p) \in Socket /\ wsRef' = 1 /\ reconnectTimeout' = None
         /\ isConnecting' = "yes" /\ error' = "no"
<1>1. Others = {}
  BY DEF Wired, Others
<1>2. FreeId = 1
  <2>1. Cardinality(Others) = 0
    BY <1>1, FS_EmptySet
  <2>2. FreeId = CHOOSE i \in 1..1 : TRUE
    BY <1>1, <2>1 DEF FreeId
  <2>3. \E i \in 1..1 : TRUE
    OBVIOUS
  <2> QED
    BY <2>2, <2>3
<1> QED
  BY <1>1, <1>2 DEF Connect, Fresh, Socket

LEMMA CleanupEmpties == Wired /\ CleanupWs => sockets' = {} /\ wsRef' = 0 /\ reconnectTimeout' = None
  BY DEF Wired, CleanupWs, Others

--------------------------------------------------------------------------------
(***************************************************************************)
(* A step connects, cleans up, is a socket's, or leaves the sockets alone. *)
(***************************************************************************)

\* The timer's connect (the first disjunct) and those of the effects.
Connects(p) ==
  /\ sockets' = {Fresh(p)} /\ Fresh(p) \in Socket /\ wsRef' = 1 /\ reconnectTimeout' = None
  /\ isConnecting' = "yes" /\ error' = "no" /\ UNCHANGED isConnected
  /\ isStreaming' = "on"
  /\ \/ UNCHANGED <<projectId, effects>> /\ p = reconnectTimeout
     \/ projectId' = p /\ effects' = "done"
  /\ UNCHANGED <<messages, totalReceived, published>>

\* Streaming is off then, or is switched off: a paused page is not "Connected".
Cleans ==
  /\ sockets' = {} /\ wsRef' = 0 /\ reconnectTimeout' = None
  /\ isStreaming' = "off" /\ effects' = "done"
  /\ isConnected' = "no" \/ (isStreaming = "off" /\ isConnected' = isConnected)
  /\ messages' \in {<<>>, messages}
  /\ totalReceived' \in {0, totalReceived} /\ UNCHANGED published

\* A render with a new project, or a cleared buffer.
Rests ==
  /\ UNCHANGED <<wires, flags, isStreaming, published>>
  /\ \/ UNCHANGED <<projectId, effects>>
     \/ projectId' \in Projects /\ effects' = "due"
  /\ messages' \in {<<>>, messages}
  /\ totalReceived' \in {0, totalReceived}

SocketStep(s) == OnOpen(s) \/ OnMessage(s) \/ \E failed \in BOOLEAN : OnClose(s, failed)

LEMMA Effects ==
  ASSUME Inv, [Next]_vars
  PROVE  \/ \E p \in Projects : Connects(p) \/ Publish(p)
         \/ Cleans
         \/ Rests
         \/ \E s \in sockets : SocketStep(s)
<1> USE DEF Inv
<1>1. CASE UNCHANGED vars
  BY <1>1 DEF vars, user, Rests, buffer, bounds
<1>2. CASE SocketEvent
  BY <1>2 DEF SocketEvent, SocketStep
<1>3. CASE TimerFires
  <2> PICK p \in Projects : p = reconnectTimeout /\ Connect(p)
    BY <1>3 DEF TimerFires, Typed
  <2>1. Connects(p)
    BY <1>3, ConnectAlone DEF TimerFires, Followed, Connects, user, buffer, bounds
  <2> QED
    BY <2>1
<1>4. CASE RunEffects
  <2>1. projectId \in Projects
    BY <1>4 DEF RunEffects, Followed
  <2>2. CASE isStreaming = "on"
    <3>1. Connect(projectId)
      BY <1>4, <2>1, <2>2, NoneAssumption DEF RunEffects, Effect
    <3>2. Connects(projectId)
      BY <1>4, <2>1, <2>2, <3>1, ConnectAlone DEF RunEffects, Connects, buffer, bounds
    <3> QED
      BY <2>1, <3>2
  <2>3. CASE isStreaming # "on"
    BY <1>4, <2>3, CleanupEmpties DEF RunEffects, Effect, Typed, Cleans, buffer, bounds
  <2> QED
    BY <2>2, <2>3
<1>5. ASSUME NEW p \in Projects, ProjectArrives(p) PROVE Rests
  BY <1>5 DEF ProjectArrives, Rests, buffer
<1>6. ASSUME NEW p \in Projects, SwitchProject(p) PROVE Connects(p) \/ Cleans
  <2>1. CASE isStreaming = "on"
    <3>1. Connect(p)
      BY <1>6, <2>1, NoneAssumption DEF SwitchProject, Effect
    <3> QED
      BY <1>6, <2>1, <3>1, ConnectAlone DEF SwitchProject, Click, Connects, buffer
  <2>2. CASE isStreaming # "on"
    BY <1>6, <2>2, CleanupEmpties DEF SwitchProject, Effect, Click, Typed, Cleans, buffer
  <2> QED
    BY <2>1, <2>2
<1>7. CASE Pause \/ Unmount
  BY <1>7, CleanupEmpties DEF Pause, Unmount, Click, Cleans, buffer
<1>8. CASE Resume \/ Reconnect
  <2>1. projectId \in Projects /\ Connect(projectId)
    BY <1>8 DEF Resume, Reconnect, PageShown, Typed
  <2>2. Connects(projectId)
    BY <1>8, <2>1, ConnectAlone DEF Resume, Reconnect, ReconnectShown, Click, Connects, buffer
  <2> QED
    BY <2>1, <2>2
<1>9. CASE ClearMessages
  BY <1>9 DEF ClearMessages, Click, Rests, user
<1> QED
  BY <1>1, <1>2, <1>3, <1>4, <1>5, <1>6, <1>7, <1>8, <1>9 DEF Next

--------------------------------------------------------------------------------

LEMMA InitInv == Init => Inv
<1> SUFFICES ASSUME Init PROVE Inv
  OBVIOUS
<1>1. Typed
  BY SizesAssumption, BoundsAssumption DEF Init, Typed, YesNo
<1>2. Wired /\ Counted /\ Followed /\ Flagged /\ Ordered
  BY DEF Init, Wired, Counted, Followed, Flagged, Ordered, NewestFirst
<1> QED
  BY <1>1, <1>2 DEF Inv

\* The buffer is cut to MAX_MESSAGES.
LEMMA PrependCuts ==
  ASSUME Typed, NEW m \in Message
  PROVE  Prepend(m) \in Seq(Message) /\ Len(Prepend(m)) <= MaxMessages
<1> DEFINE k == IF Len(messages) < MaxMessages THEN Len(messages) + 1 ELSE MaxMessages
           long == <<m>> \o messages
<1>1. messages \in Seq(Message) /\ Len(messages) \in Nat /\ MaxMessages \in Nat \ {0}
  BY SizesAssumption DEF Typed
<1>2. long \in Seq(Message) /\ Len(long) = Len(messages) + 1
  BY <1>1
<1>3. k \in 1..Len(long) /\ k <= MaxMessages
  BY <1>1, <1>2
<1>4. SubSeq(long, 1, k) \in Seq(Message) /\ Len(SubSeq(long, 1, k)) = k
  <2> HIDE DEF long, k
  <2> QED
    BY <1>2, <1>3
<1> QED
  BY <1>3, <1>4 DEF Prepend

LEMMA NextTyped == Inv /\ [Next]_vars => Typed'
<1> SUFFICES ASSUME Inv, [Next]_vars PROVE Typed'
  OBVIOUS
<1> USE SizesAssumption, BoundsAssumption DEF Inv, Typed, YesNo
<1>1. CASE UNCHANGED vars
  BY <1>1 DEF vars, user, flags, wires, buffer, bounds
<1>2. ASSUME NEW s \in sockets, SocketStep(s) PROVE Typed'
  <2>1. s \in Socket
    BY DEF Wired
  <2>2. CASE OnOpen(s)
    BY <2>2 DEF OnOpen, user, buffer, bounds
  <2>3. CASE OnMessage(s)
    <3>1. Head(s.inbox) \in Message
      BY <2>1, <2>3 DEF OnMessage, Socket
    <3>2. messages' \in Seq(Message) /\ Len(messages') <= MaxMessages
      BY <2>3, <3>1, PrependCuts DEF OnMessage
    <3> QED
      BY <2>3, <3>2 DEF OnMessage, user, flags, bounds
  <2>4. ASSUME NEW failed \in BOOLEAN, OnClose(s, failed) PROVE Typed'
    <3>1. reconnectTimeout' \in Projects \cup {None} /\ reconnectAttempts' \in 0 .. MaxAttempts
      BY <2>1, <2>4 DEF OnClose, MayRetry, Socket
    <3> QED
      BY <2>4, <3>1 DEF OnClose, ClosedFlags, user, buffer
  <2> QED
    BY <1>2, <2>2, <2>3, <2>4 DEF SocketStep
<1>3. CASE TimerFires
  <2>1. reconnectTimeout \in Projects
    BY <1>3 DEF TimerFires
  <2> QED
    BY <1>3, <2>1, ConnectAlone DEF TimerFires, user, buffer, bounds
<1>4. ASSUME NEW p \in Projects \cup {None}, Effect(p)
      PROVE  /\ wsRef' \in Nat /\ reconnectTimeout' \in Projects \cup {None}
             /\ isConnecting' \in {"yes", "no"} /\ error' \in {"yes", "no"}
  BY <1>4, ConnectAlone, CleanupEmpties DEF Effect
<1>5. CASE RunEffects
  BY <1>4, <1>5 DEF RunEffects, buffer, bounds
<1>6. ASSUME NEW p \in Projects, ProjectArrives(p) \/ SwitchProject(p) PROVE Typed'
  BY <1>4, <1>6 DEF ProjectArrives, SwitchProject, Click, flags, wires, buffer
<1>7. ASSUME NEW p \in Projects, Publish(p) PROVE Typed'
  BY <1>7 DEF Publish, user, flags, buffer
<1>8. CASE Pause \/ Unmount
  <2>1. CASE Pause
    BY <2>1, CleanupEmpties DEF Pause, Click, Connecting, buffer
  <2>2. CASE Unmount
    BY <2>2, CleanupEmpties DEF Unmount, Click
  <2> QED
    BY <1>8, <2>1, <2>2
<1>9. CASE Resume \/ Reconnect
  <2>1. projectId \in Projects /\ Connect(projectId)
    BY <1>9 DEF Resume, Reconnect, PageShown
  <2> QED
    BY <1>9, <2>1, ConnectAlone DEF Resume, Reconnect, Click, buffer
<1>10. CASE ClearMessages
  BY <1>10 DEF ClearMessages, Click, user, flags, wires
<1> QED
  BY <1>1, <1>2, <1>3, <1>5, <1>6, <1>7, <1>8, <1>9, <1>10 DEF Next, SocketEvent, SocketStep

--------------------------------------------------------------------------------
(* What becomes of the one socket *)

\* The socket s has become t, the same but for its phase and its inbox.
Becomes(s, t) == sockets = {s} /\ sockets' = {t} /\ t.id = s.id /\ t.project = s.project

LEMMA SocketSteps ==
  ASSUME Inv, NEW s \in sockets, SocketStep(s)
  PROVE  /\ s \in Socket /\ sockets = {s} /\ s.id = wsRef /\ reconnectTimeout = None
         /\ \/ OnOpen(s) /\ \E t \in Socket : Becomes(s, t) /\ t.phase = "open" /\ t.inbox = s.inbox
            \/ OnMessage(s) /\ \E t \in Socket :
                 Becomes(s, t) /\ t.phase = s.phase /\ t.inbox = Tail(s.inbox)
                 /\ Len(t.inbox) + 1 = Len(s.inbox)
            \/ (\E failed \in BOOLEAN : OnClose(s, failed)) /\ sockets' = {}
<1>1. s \in Socket /\ sockets = {s} /\ s.id = wsRef /\ reconnectTimeout = None
  BY DEF Inv, Wired
<1>2. CASE OnOpen(s)
  <2>1. [s EXCEPT !.phase = "open"] \in Socket
    BY <1>1 DEF Socket
  <2> QED
    BY <1>1, <1>2, <2>1 DEF OnOpen, Socket, Becomes
<1>3. CASE OnMessage(s)
  <2> DEFINE rest == Tail(s.inbox)
             t == [s EXCEPT !.inbox = rest]
  <2>1. rest \in Seq(Message) /\ Len(rest) + 1 = Len(s.inbox)
    BY <1>1, <1>3 DEF OnMessage, Socket
  <2>2. sockets' = {t}
    BY <1>1, <1>3 DEF OnMessage
  <2>3. t \in Socket /\ t.id = s.id /\ t.project = s.project /\ t.phase = s.phase /\ t.inbox = rest
    <3> HIDE DEF rest
    <3> QED
      BY <1>1, <2>1 DEF Socket
  <2>4. rest = Tail(s.inbox)
    OBVIOUS
  <2> HIDE DEF rest, t
  <2>5. Becomes(s, t) /\ t.phase = s.phase /\ t.inbox = Tail(s.inbox) /\ Len(t.inbox) + 1 = Len(s.inbox)
    BY <1>1, <2>1, <2>2, <2>3, <2>4 DEF Becomes
  <2> QED
    BY <1>1, <1>3, <2>3, <2>5
<1>4. CASE \E failed \in BOOLEAN : OnClose(s, failed)
  BY <1>1, <1>4 DEF OnClose
<1> QED
  BY <1>1, <1>2, <1>3, <1>4 DEF SocketStep

LEMMA PublishAppends ==
  ASSUME Inv, NEW p \in Projects, Publish(p)
  PROVE  \/ sockets = {} /\ sockets' = {}
         \/ \E s \in sockets, t \in Socket :
              /\ Becomes(s, t) /\ t.phase = s.phase /\ Len(t.inbox) <= Len(s.inbox) + 1
              /\ t.inbox \in {s.inbox, Append(s.inbox, [project |-> p, n |-> published'])}
<1>1. CASE sockets = {}
  BY <1>1 DEF Publish
<1>2. ASSUME NEW s \in sockets PROVE \E t \in Socket :
              /\ Becomes(s, t) /\ t.phase = s.phase /\ Len(t.inbox) <= Len(s.inbox) + 1
              /\ t.inbox \in {s.inbox, Append(s.inbox, [project |-> p, n |-> published'])}
  <2> DEFINE m == [project |-> p, n |-> published']
             t == IF s.phase = "open" /\ s.project = p
                    THEN [s EXCEPT !.inbox = Append(@, m)] ELSE s
  <2>1. s \in Socket /\ sockets = {s} /\ s.inbox \in Seq(Message)
    BY DEF Inv, Wired, Socket
  <2>2. m \in Message
    BY BoundsAssumption DEF Inv, Typed, Publish, Message
  <2>3. Append(s.inbox, m) \in Seq(Message) /\ Len(Append(s.inbox, m)) = Len(s.inbox) + 1
    BY <2>1, <2>2
  <2>4. t \in Socket /\ t.id = s.id /\ t.project = s.project /\ t.phase = s.phase
        /\ Len(t.inbox) <= Len(s.inbox) + 1 /\ t.inbox \in {s.inbox, Append(s.inbox, m)}
    <3> HIDE DEF m
    <3> QED
      BY <2>1, <2>3 DEF Socket
  <2>5. sockets' = {t}
    BY <2>1 DEF Publish
  <2> HIDE DEF t
  <2> QED
    BY <2>1, <2>4, <2>5 DEF Becomes
<1> QED
  BY <1>1, <1>2

\* What the other conjuncts need of it.
LEMMA PublishFills ==
  ASSUME Inv, NEW p \in Projects, Publish(p)
  PROVE  \/ sockets = {} /\ sockets' = {}
         \/ \E s \in sockets, t \in Socket :
              Becomes(s, t) /\ t.phase = s.phase /\ Len(t.inbox) <= Len(s.inbox) + 1
BY PublishAppends

LEMMA NextWired == Inv /\ [Next]_vars => Wired'
<1> SUFFICES ASSUME Inv, [Next]_vars PROVE Wired'
  OBVIOUS
<1> USE DEF Wired
<1>1. ASSUME NEW p \in Projects, Connects(p) PROVE Wired'
  BY <1>1 DEF Connects, Fresh
<1>2. ASSUME NEW p \in Projects, Publish(p) PROVE Wired'
  <2>1. UNCHANGED <<wsRef, reconnectTimeout>>
    BY <1>2 DEF Publish
  <2> QED
    BY <1>2, <2>1, PublishFills DEF Inv, Becomes
<1>3. CASE Cleans
  BY <1>3 DEF Cleans
<1>4. CASE Rests
  BY <1>4 DEF Rests, wires, Inv
<1>5. ASSUME NEW s \in sockets, SocketStep(s) PROVE Wired'
  <2>1. CASE OnOpen(s) /\ \E t \in Socket : Becomes(s, t) /\ t.phase = "open" /\ t.inbox = s.inbox
    BY <1>5, <2>1, SocketSteps DEF OnOpen, Becomes
  <2>2. CASE OnMessage(s) /\ \E t \in Socket :
               Becomes(s, t) /\ t.phase = s.phase /\ t.inbox = Tail(s.inbox)
               /\ Len(t.inbox) + 1 = Len(s.inbox)
    BY <1>5, <2>2, SocketSteps DEF OnMessage, Becomes
  <2>3. CASE (\E failed \in BOOLEAN : OnClose(s, failed)) /\ sockets' = {}
    BY <2>3 DEF OnClose
  <2> QED
    BY <1>5, <2>1, <2>2, <2>3, SocketSteps
<1> QED
  BY <1>1, <1>2, <1>3, <1>4, <1>5, Effects

LEMMA NextCounted == Inv /\ [Next]_vars => Counted'
<1> SUFFICES ASSUME Inv, [Next]_vars PROVE Counted'
  OBVIOUS
<1> USE DEF Counted
<1>0. totalReceived \in Nat /\ published \in Nat /\ \A s \in sockets : Len(s.inbox) \in Nat
  BY BoundsAssumption DEF Inv, Typed, Wired, Socket
<1>1. ASSUME NEW p \in Projects, Connects(p) PROVE Counted'
  BY <1>0, <1>1 DEF Inv, Connects, Fresh
<1>2. ASSUME NEW p \in Projects, Publish(p) PROVE Counted'
  <2>1. published' = published + 1 /\ totalReceived' = totalReceived
    BY <1>2 DEF Publish, buffer
  <2>2. \A t \in Socket : Len(t.inbox) \in Nat
    BY DEF Socket
  <2> QED
    BY <1>0, <1>2, <2>1, <2>2, PublishFills DEF Inv, Becomes
<1>3. CASE Cleans
  BY <1>0, <1>3 DEF Inv, Cleans
<1>4. CASE Rests
  BY <1>0, <1>4 DEF Inv, Rests, wires
<1>5. ASSUME NEW s \in sockets, SocketStep(s) PROVE Counted'
  <2>1. CASE OnOpen(s) /\ \E t \in Socket : Becomes(s, t) /\ t.phase = "open" /\ t.inbox = s.inbox
    BY <1>5, <2>1, SocketSteps DEF Inv, OnOpen, Becomes, buffer, bounds
  <2>2. CASE OnMessage(s) /\ \E t \in Socket :
               Becomes(s, t) /\ t.phase = s.phase /\ t.inbox = Tail(s.inbox)
               /\ Len(t.inbox) + 1 = Len(s.inbox)
    <3>1. totalReceived' = totalReceived + 1 /\ published' = published
      BY <2>2 DEF OnMessage, bounds
    <3>2. PICK t \in Socket : Becomes(s, t) /\ Len(t.inbox) + 1 = Len(s.inbox)
      BY <2>2
    <3>3. Len(t.inbox) \in Nat
      BY DEF Socket
    <3>4. totalReceived + Len(s.inbox) <= published /\ sockets' = {t}
      BY <3>2 DEF Inv, Becomes
    <3>5. totalReceived \in Nat /\ published \in Nat /\ Len(s.inbox) \in Nat
      BY <1>0
    <3>6. totalReceived' + Len(t.inbox) <= published' /\ totalReceived' <= published'
      <4> DEFINE n == Len(t.inbox)
                 m == Len(s.inbox)
      <4>1. n + 1 = m /\ n \in Nat /\ m \in Nat /\ totalReceived + m <= published
        BY <3>2, <3>3, <3>4, <3>5
      <4> HIDE DEF n, m
      <4>2. totalReceived' + n <= published' /\ totalReceived' <= published'
        BY <3>1, <3>5, <4>1
      <4> QED
        BY <4>2 DEF n
    <3> QED
      BY <3>4, <3>6
  <2>3. CASE (\E failed \in BOOLEAN : OnClose(s, failed)) /\ sockets' = {}
    BY <2>3 DEF Inv, OnClose, buffer
  <2> QED
    BY <1>5, <2>1, <2>2, <2>3, SocketSteps
<1> QED
  BY <1>1, <1>2, <1>3, <1>4, <1>5, Effects

LEMMA NextFollowed == Inv /\ [Next]_vars => Followed'
<1> SUFFICES ASSUME Inv, [Next]_vars PROVE Followed'
  OBVIOUS
<1> USE DEF Followed
<1>1. ASSUME NEW p \in Projects, Connects(p) PROVE Followed'
  BY <1>1, NoneAssumption DEF Inv, Connects, Fresh
<1>2. ASSUME NEW p \in Projects, Publish(p) PROVE Followed'
  BY <1>2, PublishFills DEF Inv, Becomes, Publish, user
<1>3. CASE Cleans
  BY <1>3 DEF Cleans
<1>4. CASE Rests
  BY <1>4 DEF Inv, Rests, wires
<1>5. ASSUME NEW s \in sockets, SocketStep(s) PROVE Followed'
  <2>1. CASE OnOpen(s) /\ \E t \in Socket : Becomes(s, t) /\ t.phase = "open" /\ t.inbox = s.inbox
    BY <1>5, <2>1, SocketSteps DEF Inv, OnOpen, Becomes, user
  <2>2. CASE OnMessage(s) /\ \E t \in Socket :
               Becomes(s, t) /\ t.phase = s.phase /\ t.inbox = Tail(s.inbox)
               /\ Len(t.inbox) + 1 = Len(s.inbox)
    BY <1>5, <2>2, SocketSteps DEF Inv, OnMessage, Becomes, user
  <2>3. CASE (\E failed \in BOOLEAN : OnClose(s, failed)) /\ sockets' = {}
    BY <2>3 DEF Inv, OnClose, MayRetry, user
  <2> QED
    BY <1>5, <2>1, <2>2, <2>3, SocketSteps
<1> QED
  BY <1>1, <1>2, <1>3, <1>4, <1>5, Effects

LEMMA NextFlagged == Inv /\ [Next]_vars => Flagged'
<1> SUFFICES ASSUME Inv, [Next]_vars PROVE Flagged'
  OBVIOUS
<1> USE DEF Flagged
<1>1. ASSUME NEW p \in Projects, Connects(p) PROVE Flagged'
  BY <1>1 DEF Connects, Fresh
<1>2. ASSUME NEW p \in Projects, Publish(p) PROVE Flagged'
  BY <1>2, PublishFills DEF Inv, Becomes, Publish, user, flags
<1>3. CASE Cleans
  BY <1>3 DEF Cleans, Inv, Followed, Typed
<1>4. CASE Rests
  BY <1>4 DEF Inv, Rests, wires, flags
<1>5. ASSUME NEW s \in sockets, SocketStep(s) PROVE Flagged'
  <2>1. CASE OnOpen(s) /\ \E t \in Socket : Becomes(s, t) /\ t.phase = "open" /\ t.inbox = s.inbox
    BY <1>5, <2>1, SocketSteps DEF Inv, OnOpen, Becomes
  <2>2. CASE OnMessage(s) /\ \E t \in Socket :
               Becomes(s, t) /\ t.phase = s.phase /\ t.inbox = Tail(s.inbox)
               /\ Len(t.inbox) + 1 = Len(s.inbox)
    BY <1>5, <2>2, SocketSteps DEF Inv, OnMessage, Becomes, user, flags
  <2>3. CASE (\E failed \in BOOLEAN : OnClose(s, failed)) /\ sockets' = {}
    BY <2>3 DEF OnClose, ClosedFlags
  <2> QED
    BY <1>5, <2>1, <2>2, <2>3, SocketSteps
<1> QED
  BY <1>1, <1>2, <1>3, <1>4, <1>5, Effects

\* The buffer with a message before it, cut.
LEMMA PrependShifts ==
  ASSUME Typed, NEW m \in Message, NEW i \in DOMAIN Prepend(m)
  PROVE  /\ i \in Nat \ {0}
         /\ i = 1 => Prepend(m)[i] = m
         /\ i # 1 => i - 1 \in DOMAIN messages /\ Prepend(m)[i] = messages[i - 1]
<1> DEFINE k == IF Len(messages) < MaxMessages THEN Len(messages) + 1 ELSE MaxMessages
           long == <<m>> \o messages
<1>1. messages \in Seq(Message) /\ Len(messages) \in Nat /\ MaxMessages \in Nat \ {0}
  BY SizesAssumption DEF Typed
<1>2. long \in Seq(Message) /\ Len(long) = Len(messages) + 1
  BY <1>1
<1>3. long[1] = m /\ \A j \in 2 .. Len(messages) + 1 : long[j] = messages[j - 1]
  BY <1>1
<1>4. k \in 1 .. Len(long)
  BY <1>1, <1>2
<1>5. Prepend(m) = SubSeq(long, 1, k)
  BY DEF Prepend
<1>6. Len(SubSeq(long, 1, k)) = k /\ \A j \in 1 .. k : SubSeq(long, 1, k)[j] = long[j]
  <2> HIDE DEF long, k
  <2> QED
    BY <1>2, <1>4
<1>7. SubSeq(long, 1, k) \in Seq(Message)
  <2> HIDE DEF long, k
  <2> QED
    BY <1>2, <1>4
<1>8. i \in 1 .. k /\ Prepend(m)[i] = long[i]
  <2> HIDE DEF long, k
  <2> QED
    BY <1>5, <1>6, <1>7
<1>9. k <= Len(messages) + 1
  BY <1>2, <1>4
<1> HIDE DEF long, k
<1>10. DOMAIN messages = 1 .. Len(messages)
  BY <1>1
<1> QED
  BY <1>1, <1>3, <1>4, <1>8, <1>9, <1>10

LEMMA NextOrdered == Inv /\ [Next]_vars => Ordered'
<1> SUFFICES ASSUME Inv, [Next]_vars PROVE Ordered'
  OBVIOUS
<1>0. /\ messages \in Seq(Message) /\ published \in Nat
      /\ \A m \in Message : m.n \in Nat
      /\ \A j \in DOMAIN messages : messages[j].n \in Nat
      /\ \A s \in sockets : s.inbox \in Seq(Message) /\ \A i \in DOMAIN s.inbox : s.inbox[i].n \in Nat
  <2>1. \A m \in Message : m.n \in Nat
    BY BoundsAssumption DEF Message
  <2>2. messages \in Seq(Message) /\ published \in Nat
    BY BoundsAssumption DEF Inv, Typed
  <2>3. \A s \in sockets : s.inbox \in Seq(Message)
    BY DEF Inv, Wired, Socket
  <2>4. \A q \in Seq(Message) : \A i \in DOMAIN q : q[i] \in Message
    OBVIOUS
  <2> QED
    BY <2>1, <2>2, <2>3, <2>4
<1>1. ASSUME NEW p \in Projects, Connects(p) PROVE Ordered'
  BY <1>1 DEF Inv, Connects, Fresh, Ordered, NewestFirst, Queued
<1>2. ASSUME NEW p \in Projects, Publish(p) PROVE Ordered'
  <2>1. published' = published + 1 /\ messages' = messages
    BY <1>2 DEF Publish, buffer
  <2>2. CASE sockets' = {}
    BY <1>0, <2>1, <2>2 DEF Inv, Ordered, NewestFirst
  <2>3. ASSUME NEW s \in sockets, NEW t \in Socket, sockets' = {t},
               t.inbox \in {s.inbox, Append(s.inbox, [project |-> p, n |-> published'])}
        PROVE  Ordered'
    <3> DEFINE old == s.inbox
               new == t.inbox
    <3>1. old \in Seq(Message) /\ Queued(s)
      BY <1>0 DEF Inv, Ordered
    <3>2. CASE new = old
      <4>1. Queued(t)'
        BY <1>0, <2>1, <3>1, <3>2 DEF Queued
      <4> QED
        BY <1>0, <2>1, <2>3, <4>1 DEF Inv, Ordered, NewestFirst
    <3>3. CASE new = Append(old, [project |-> p, n |-> published'])
      <4>1. Len(old) \in Nat /\ DOMAIN old = 1 .. Len(old) /\ DOMAIN new = 1 .. Len(old) + 1
            /\ (\A i \in 1 .. Len(old) : new[i] = old[i]) /\ new[Len(old) + 1].n = published'
        <5> HIDE DEF old, new
        <5> QED
          BY <3>1, <3>3
      <4>2. \A i \in 1 .. Len(old) :
              /\ old[i].n \in Nat /\ old[i].n <= published
              /\ \A j \in DOMAIN messages : messages[j].n < old[i].n
              /\ \A k \in 1 .. Len(old) : k < i => old[k].n < old[i].n
        BY <1>0, <3>1, <4>1 DEF Queued
      <4>3. \A i \in 1 .. Len(old) + 1 :
              /\ new[i].n <= published'
              /\ \A j \in DOMAIN messages : messages[j].n < new[i].n
              /\ \A k \in 1 .. Len(old) + 1 : k < i => new[k].n < new[i].n
        <5> HIDE DEF old, new
        <5>1. \A j \in DOMAIN messages : messages[j].n \in Nat /\ messages[j].n <= published
          BY <1>0 DEF Inv, Ordered
        <5> QED
          BY <1>0, <2>1, <4>1, <4>2, <5>1
      <4>4. Queued(t)'
        BY <2>1, <4>1, <4>3 DEF Queued
      <4> QED
        BY <1>0, <2>1, <2>3, <4>4 DEF Inv, Ordered, NewestFirst
    <3> QED
      BY <2>3, <3>2, <3>3
  <2> QED
    BY <1>2, <2>2, <2>3, PublishAppends DEF Becomes
<1>3. CASE Cleans
  BY <1>0, <1>3 DEF Inv, Cleans, Ordered, NewestFirst
<1>4. CASE Rests
  BY <1>0, <1>4 DEF Inv, Rests, wires, Ordered, NewestFirst, Queued
<1>5. ASSUME NEW s \in sockets, SocketStep(s) PROVE Ordered'
  <2>1. CASE OnOpen(s) /\ \E t \in Socket : Becomes(s, t) /\ t.phase = "open" /\ t.inbox = s.inbox
    BY <2>1 DEF Inv, OnOpen, Becomes, Ordered, NewestFirst, Queued, buffer, bounds
  <2>2. CASE OnMessage(s) /\ \E t \in Socket :
               Becomes(s, t) /\ t.phase = s.phase /\ t.inbox = Tail(s.inbox)
               /\ Len(t.inbox) + 1 = Len(s.inbox)
    <3> PICK t \in Socket : Becomes(s, t) /\ t.inbox = Tail(s.inbox)
      BY <2>2
    <3> DEFINE old == s.inbox
               new == t.inbox
               m == Head(old)
    <3>1. old \in Seq(Message) /\ old # <<>> /\ Queued(s)
      BY <1>0, <2>2 DEF Inv, Ordered, OnMessage
    <3>2. m \in Message /\ m = old[1] /\ 1 \in DOMAIN old
          /\ \A i \in DOMAIN new : i \in Nat \ {0} /\ i + 1 \in DOMAIN old /\ new[i] = old[i + 1]
      <4>1. new = Tail(old)
        OBVIOUS
      <4> HIDE DEF old, new
      <4>2. Len(old) \in Nat \ {0} /\ DOMAIN old = 1 .. Len(old)
        BY <3>1
      <4>3. m \in Message /\ m = old[1]
        BY <3>1, <4>2
      <4>4. DOMAIN new = 1 .. Len(old) - 1 /\ \A i \in 1 .. Len(old) - 1 : new[i] = old[i + 1]
        BY <3>1, <4>1, <4>2
      <4> QED
        BY <4>2, <4>3, <4>4
    <3>3. messages' = Prepend(m) /\ published' = published /\ sockets' = {t}
      BY <2>2 DEF OnMessage, Becomes, bounds
    <3>4. m.n \in Nat /\ m.n <= published /\ \A j \in DOMAIN messages : messages[j].n < m.n
      BY <1>0, <3>1, <3>2 DEF Queued
    <3>5. \A i \in DOMAIN new : new[i].n <= published /\ m.n < new[i].n
                               /\ \A k \in DOMAIN new : k < i => new[k].n < new[i].n
      <4> TAKE i \in DOMAIN new
      <4>1. i \in Nat \ {0} /\ i + 1 \in DOMAIN old /\ new[i] = old[i + 1] /\ 1 < i + 1
        BY <3>2
      <4>2. new[i].n <= published /\ m.n < new[i].n
        BY <3>1, <3>2, <4>1 DEF Queued
      <4>3. ASSUME NEW k \in DOMAIN new, k < i PROVE new[k].n < new[i].n
        <5>1. k \in Nat \ {0} /\ k + 1 \in DOMAIN old /\ new[k] = old[k + 1] /\ k + 1 < i + 1
          BY <3>2, <4>1, <4>3
        <5> QED
          BY <3>1, <4>1, <5>1 DEF Queued
      <4> QED
        BY <4>2, <4>3
    <3> HIDE DEF old, new, m
    <3>6. \A i \in DOMAIN Prepend(m) :
            /\ i \in Nat \ {0}
            /\ i = 1 => Prepend(m)[i] = m
            /\ i # 1 => i - 1 \in DOMAIN messages /\ Prepend(m)[i] = messages[i - 1]
      BY <3>2, PrependShifts DEF Inv
    <3>7. \A i \in DOMAIN Prepend(m) : Prepend(m)[i].n <= m.n
      BY <1>0, <3>4, <3>6
    <3>8. ASSUME NEW i \in DOMAIN Prepend(m), NEW j \in DOMAIN Prepend(m), i < j
          PROVE  Prepend(m)[i].n > Prepend(m)[j].n
      <4>1. j > 1 /\ j \in Nat /\ i \in Nat
        BY <3>6, <3>8
      <4>2. j - 1 \in DOMAIN messages /\ Prepend(m)[j] = messages[j - 1]
        BY <3>6, <4>1
      <4>3. CASE i = 1
        BY <1>0, <3>4, <3>6, <4>2, <4>3
      <4>4. CASE i # 1
        <5>1. i - 1 \in DOMAIN messages /\ Prepend(m)[i] = messages[i - 1]
          BY <3>6, <4>4
        <5>2. i - 1 < j - 1
          BY <3>8, <4>1
        <5> QED
          BY <4>2, <5>1, <5>2 DEF Inv, Ordered, NewestFirst
      <4> QED
        BY <4>3, <4>4
    <3>9. NewestFirst'
      BY <3>3, <3>8 DEF NewestFirst
    <3>10. \A j \in DOMAIN messages' : messages'[j].n <= published'
      BY <1>0, <3>3, <3>4, <3>6, <3>7
    <3>11. Queued(t)'
      <4>1. \A i \in DOMAIN new : new[i].n \in Nat
        BY <1>0, <3>2 DEF Socket, Message, new
      <4>2. \A j \in DOMAIN Prepend(m) : Prepend(m)[j].n \in Nat
        BY <1>0, <3>4, <3>6
      <4>3. \A i \in DOMAIN new, j \in DOMAIN Prepend(m) : Prepend(m)[j].n < new[i].n
        BY <3>4, <3>5, <3>7, <4>1, <4>2
      <4> QED
        BY <3>3, <3>5, <4>3 DEF Queued, new
    <3> QED
      BY <3>3, <3>9, <3>10, <3>11 DEF Ordered
  <2>3. CASE (\E failed \in BOOLEAN : OnClose(s, failed)) /\ sockets' = {}
    BY <2>3 DEF Inv, OnClose, Ordered, NewestFirst, buffer
  <2> QED
    BY <1>5, <2>1, <2>2, <2>3, SocketSteps
<1> QED
  BY <1>1, <1>2, <1>3, <1>4, <1>5, Effects

THEOREM Invariant == Spec => []Inv
<1>1. Inv /\ [Next]_vars => Inv'
  BY NextTyped, NextWired, NextCounted, NextFollowed, NextFlagged, NextOrdered DEF Inv
<1> QED
  BY <1>1, InitInv, PTL DEF Spec

--------------------------------------------------------------------------------

\* Every variable keeps its type; no more is received than was broadcast.
THEOREM TypeCorrect == Spec => []TypeOK
<1>1. Inv => TypeOK
  BY BoundsAssumption DEF Inv, Typed, Wired, Counted, Socket, TypeOK
<1> QED
  BY <1>1, Invariant, PTL

\* Whatever clicks, socket events and timers do, and in whatever order, one socket at most has its
\* handlers, it is the one the provider will close, and no timer is set to make another.
THEOREM OneSocketTheorem == Spec => []OneSocket
<1>1. Inv => OneSocket
  <2> SUFFICES ASSUME Inv PROVE OneSocket
    OBVIOUS
  <2>1. Cardinality(sockets) <= 1
    <3>1. CASE sockets = {}
      BY <3>1, FS_EmptySet
    <3>2. ASSUME NEW s \in sockets PROVE Cardinality(sockets) <= 1
      <4>1. sockets = {s}
        BY DEF Inv, Wired
      <4> QED
        BY <4>1, FS_Singleton
    <3> QED
      BY <3>1, <3>2
  <2> QED
    BY <2>1 DEF Inv, Wired, OneSocket
<1> QED
  BY <1>1, Invariant, PTL

\* Once the effects have run, sockets and timers are for the selected project, and there are none
\* after a pause or a logout.
THEOREM FollowsUserTheorem == Spec => []FollowsUser
<1>1. Inv => FollowsUser
  BY DEF Inv, Followed, FollowsUser
<1> QED
  BY <1>1, Invariant, PTL

\* What the status card and the banner say fits the socket, for any number of attempts and failures.
THEOREM StatusFitsTheorem == Spec => []StatusFits
<1>1. Inv => StatusFits
  <2> SUFFICES ASSUME Inv PROVE StatusFits
    OBVIOUS
  <2>1. \A s \in sockets : s.phase \in {"connecting", "open"}
    BY DEF Inv, Wired, Socket
  <2>2. isConnected \in {"yes", "no"} /\ isConnecting \in {"yes", "no"}
    BY DEF Inv, Typed, YesNo
  <2>3. Status = "Disconnected" \/ ReconnectShown => isConnected # "yes" /\ isConnecting # "yes"
    BY DEF Status, ReconnectShown
  <2>4. Status = "Connecting..." => isConnecting = "yes"
    BY DEF Status
  <2>5. isConnected = "yes" <=> Status = "Connected"
    BY DEF Status
  <2>6. sockets = {} /\ isStreaming = "on" => ReconnectShown
    BY <2>2 DEF Inv, Flagged, ReconnectShown
  <2> QED
    BY <2>1, <2>2, <2>3, <2>4, <2>5, <2>6 DEF Inv, Flagged, StatusFits, Banner
<1> QED
  BY <1>1, Invariant, PTL

\* Whatever was paused, switched, lost and connected again, the buffer is newest first and has no
\* log twice.
THEOREM NewestFirstTheorem == Spec => []NewestFirst
<1>1. Inv => NewestFirst
  BY DEF Inv, Ordered
<1> QED
  BY <1>1, Invariant, PTL

\* The page on top of the provider only looks at it: what is proved of LiveLogs holds of LiveTail.
THEOREM TailKeepsLiveLogs == TailSpec => Spec
<1>1. TailInit => Init
  BY DEF TailInit
<1>2. [TailNext]_tailVars => [Next]_vars
  BY DEF TailNext, tailVars
<1> QED
  BY <1>1, <1>2, PTL DEF TailSpec, Spec
================================================================================
