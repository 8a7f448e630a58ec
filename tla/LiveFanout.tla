------------------------------ MODULE LiveFanout ------------------------------
(***************************************************************************)
(* The live tail of one project: the handler of WS /api/v1/ws/{project_id} *)
(* (app/api/v1/ws.py) between the project's Redis channel, to which        *)
(* RedisPubSub subscribes it, and the browser at the other end of the      *)
(* socket.  Channels of different projects share nothing.                  *)
(*                                                                         *)
(* The n-th PUBLISH on the channel is the message n.  A message that Redis *)
(* pushes waits in the subscription's connection (inbox) until listen()    *)
(* reads it, and on the socket (wire) until the browser does.              *)
(***************************************************************************)
EXTENDS Integers, Sequences, Functions

CONSTANTS
  Sockets,      \* the WebSocket connections browsers ever open
  MaxMessages,  \* bounds on messages and
  MaxBreaks     \* on the failures of one handler's Redis connection

ASSUME BoundsAssumption == MaxMessages \in Nat /\ MaxBreaks \in Nat

VARIABLES
  posted,   \* how many messages were published
  browser,  \* the browser's end of each socket
  link,     \* the server's: "up", or "down" once it has noticed that the browser is gone
  pc,       \* where the handler is
  sub,      \* whether Redis has the handler's connection in the channel: "on" or "off"
  inbox,    \* messages pushed to that connection and not read
  current,  \* the message being forwarded
  wire,     \* messages on their way to the browser
  seen,     \* those the browser has received, in order
  joined,   \* posted when the handler subscribed
  breaks    \* the failures of each handler's Redis connection so far

vars == <<posted, browser, link, pc, sub, inbox, current, wire, seen, joined, breaks>>
browserVars == <<browser, wire, seen>>
redisVars == <<sub, inbox, breaks>>
handlerVars == <<current, joined>>

BrowserStates == {"none", "waiting", "open", "closed"}
HandlerStates == {"none", "accept", "subscribe", "listen", "send", "unsubscribe", "over"}

Init ==
  /\ posted = 0
  /\ browser = [s \in Sockets |-> "none"] /\ link = [s \in Sockets |-> "up"]
  /\ pc = [s \in Sockets |-> "none"]
  /\ sub = [s \in Sockets |-> "off"] /\ inbox = [s \in Sockets |-> <<>>]
  /\ current = [s \in Sockets |-> 0] /\ joined = [s \in Sockets |-> 0]
  /\ wire = [s \in Sockets |-> <<>>] /\ seen = [s \in Sockets |-> <<>>]
  /\ breaks = [s \in Sockets |-> 0]

GoTo(s, label) == pc' = [pc EXCEPT ![s] = label]
Fails(s) == breaks[s] < MaxBreaks /\ breaks' = [breaks EXCEPT ![s] = @ + 1]

--------------------------------------------------------------------------------
(* The handler *)

\* The browser's onopen may run from here on; nothing is subscribed yet.
Accept(s) ==
  /\ pc[s] = "accept"
  /\ browser' = [browser EXCEPT ![s] = IF @ = "waiting" THEN "open" ELSE @]
  /\ GoTo(s, "subscribe")
  /\ UNCHANGED <<posted, link, wire, seen, redisVars, handlerVars>>

Subscribe(s) ==
  /\ pc[s] = "subscribe"
  /\ sub' = [sub EXCEPT ![s] = "on"] /\ joined' = [joined EXCEPT ![s] = posted]
  /\ GoTo(s, "listen")
  /\ UNCHANGED <<posted, browserVars, link, inbox, breaks, current>>

\* The exception comes before the try: the handler is over.
SubscribeFails(s) ==
  /\ pc[s] = "subscribe"
  /\ Fails(s)
  /\ GoTo(s, "over")
  /\ UNCHANGED <<posted, browserVars, link, sub, inbox, handlerVars>>

\* (variant) The first message is taken for the confirmation.
ReceiveSkippingFirst(s) ==
  /\ pc[s] = "listen" /\ inbox[s] # <<>>
  /\ inbox' = [inbox EXCEPT ![s] = Tail(@)]
  /\ current' = [current EXCEPT ![s] = Head(inbox[s])]
  /\ IF current[s] = 0 THEN UNCHANGED pc ELSE GoTo(s, "send")
  /\ UNCHANGED <<posted, browserVars, link, sub, breaks, joined>>

\* listen() yields the next message; confirmations are skipped by their type.
Receive(s) ==
  /\ pc[s] = "listen" /\ inbox[s] # <<>>
  /\ inbox' = [inbox EXCEPT ![s] = Tail(@)]
  /\ current' = [current EXCEPT ![s] = Head(inbox[s])]
  /\ GoTo(s, "send")
  /\ UNCHANGED <<posted, browserVars, link, sub, breaks, joined>>

\* (variants) The message is sent and kept; an error of the socket is ignored.
SendAndKeep(s) ==
  /\ pc[s] = "send" /\ link[s] = "up"
  /\ wire' = IF browser[s] = "open" THEN [wire EXCEPT ![s] = Append(@, current[s])] ELSE wire
  /\ GoTo(s, "listen") \/ UNCHANGED pc
  /\ UNCHANGED <<posted, browser, seen, link, redisVars, handlerVars>>
SendFailsIgnored(s) ==
  /\ pc[s] = "send" /\ link[s] = "down"
  /\ GoTo(s, "listen")
  /\ UNCHANGED <<posted, browserVars, link, redisVars, handlerVars>>

\* What is sent before the server knows that the browser is gone is lost.
Send(s) ==
  /\ pc[s] = "send" /\ link[s] = "up"
  /\ wire' = IF browser[s] = "open" THEN [wire EXCEPT ![s] = Append(@, current[s])] ELSE wire
  /\ GoTo(s, "listen")
  /\ UNCHANGED <<posted, browser, seen, link, redisVars, handlerVars>>

\* WebSocketDisconnect: the one place where the handler learns that the browser is gone.
SendFails(s) ==
  /\ pc[s] = "send" /\ link[s] = "down"
  /\ GoTo(s, "unsubscribe")
  /\ UNCHANGED <<posted, browserVars, link, redisVars, handlerVars>>

\* redis-py connects and subscribes again inside listen(), or raises.
Resubscribe(s) ==
  /\ pc[s] = "listen" /\ sub[s] = "off" /\ inbox[s] = <<>>
  /\ sub' = [sub EXCEPT ![s] = "on"]
  /\ UNCHANGED <<posted, browserVars, link, pc, inbox, breaks, handlerVars>>

ListenFails(s) ==
  /\ pc[s] = "listen" /\ sub[s] = "off" /\ inbox[s] = <<>>
  /\ Fails(s)
  /\ GoTo(s, "unsubscribe")
  /\ UNCHANGED <<posted, browserVars, link, sub, inbox, handlerVars>>

\* (variant) The handler ends without its finally.
UnsubscribeForgotten(s) ==
  /\ pc[s] = "unsubscribe"
  /\ GoTo(s, "over")
  /\ UNCHANGED <<posted, browserVars, link, redisVars, handlerVars>>

\* The finally: unsubscribe and close; if that raises the connection is broken anyway.
Unsubscribe(s) ==
  /\ pc[s] = "unsubscribe"
  /\ sub' = [sub EXCEPT ![s] = "off"] /\ inbox' = [inbox EXCEPT ![s] = <<>>]
  /\ GoTo(s, "over")
  /\ UNCHANGED <<posted, browserVars, link, breaks, handlerVars>>

--------------------------------------------------------------------------------
(* Redis, the browser and the server's protocol *)

Connect(s) ==
  /\ browser[s] = "none"
  /\ browser' = [browser EXCEPT ![s] = "waiting"]
  /\ GoTo(s, "accept")
  /\ UNCHANGED <<posted, link, wire, seen, redisVars, handlerVars>>

\* RedisPubSub.publish: whoever is in the channel now gets the message.
Publish ==
  /\ posted < MaxMessages
  /\ posted' = posted + 1
  /\ inbox' = [s \in Sockets |-> IF sub[s] = "on" THEN Append(inbox[s], posted + 1) ELSE inbox[s]]
  /\ UNCHANGED <<browserVars, link, pc, sub, breaks, handlerVars>>

\* Redis drops a slow subscriber, or its connection breaks: what was not read is lost in part.
Break(s) ==
  /\ sub[s] = "on"
  /\ Fails(s)
  /\ sub' = [sub EXCEPT ![s] = "off"]
  /\ \E k \in 0..Len(inbox[s]) : inbox' = [inbox EXCEPT ![s] = SubSeq(@, 1, k)]
  /\ UNCHANGED <<posted, browserVars, link, pc, handlerVars>>

Deliver(s) ==
  /\ browser[s] = "open" /\ wire[s] # <<>>
  /\ seen' = [seen EXCEPT ![s] = Append(@, Head(wire[s]))]
  /\ wire' = [wire EXCEPT ![s] = Tail(@)]
  /\ UNCHANGED <<posted, browser, link, pc, redisVars, handlerVars>>

\* The tab is closed, the project switched, the stream paused, or the network gone.
Leave(s) ==
  /\ browser[s] \in {"waiting", "open"}
  /\ browser' = [browser EXCEPT ![s] = "closed"] /\ wire' = [wire EXCEPT ![s] = <<>>]
  /\ UNCHANGED <<posted, seen, link, pc, redisVars, handlerVars>>

\* A close frame arrived or a ping went unanswered.
Notice(s) ==
  /\ browser[s] = "closed" /\ link[s] = "up"
  /\ link' = [link EXCEPT ![s] = "down"]
  /\ UNCHANGED <<posted, browserVars, pc, redisVars, handlerVars>>

\* The server closes the socket of a handler that is over, after what was sent on it.
Closed(s) ==
  /\ pc[s] = "over" /\ browser[s] \in {"waiting", "open"} /\ wire[s] = <<>>
  /\ browser' = [browser EXCEPT ![s] = "closed"]
  /\ UNCHANGED <<posted, wire, seen, link, pc, redisVars, handlerVars>>

--------------------------------------------------------------------------------

HandlerStep(s) ==
  \/ Accept(s) \/ Subscribe(s) \/ SubscribeFails(s)
  \/ Receive(s) \/ Send(s) \/ SendFails(s)
  \/ Resubscribe(s) \/ ListenFails(s) \/ Unsubscribe(s)

NetworkStep(s) == Deliver(s) \/ Notice(s) \/ Closed(s)

Next ==
  \/ Publish
  \/ \E s \in Sockets : HandlerStep(s) \/ NetworkStep(s) \/ Connect(s) \/ Leave(s) \/ Break(s)

Spec == Init /\ [][Next]_vars

(* The event loop runs every handler; the network delivers, and the server's   *)
(* pings find a browser that is gone.  Nobody need connect, publish or leave,  *)
(* and no failure is asked for.                                                *)
Fairness ==
  \A s \in Sockets :
    /\ WF_vars(HandlerStep(s) /\ UNCHANGED breaks)
    /\ WF_vars(Deliver(s)) /\ WF_vars(Notice(s)) /\ WF_vars(Closed(s))

FairSpec == Spec /\ Fairness

--------------------------------------------------------------------------------
(* Properties *)

\* Every variable has its type: see the declarations.
Types ==
  /\ posted \in Nat
  /\ browser \in [Sockets -> BrowserStates] /\ link \in [Sockets -> {"up", "down"}]
  /\ pc \in [Sockets -> HandlerStates]
  /\ sub \in [Sockets -> {"on", "off"}] /\ inbox \in [Sockets -> Seq(1..posted)]
  /\ current \in [Sockets -> 0..posted] /\ joined \in [Sockets -> 0..posted]
  /\ wire \in [Sockets -> Seq(1..posted)] /\ seen \in [Sockets -> Seq(1..posted)]
  /\ breaks \in [Sockets -> Nat]

\* A handler that has ended, however it did, leaves no subscription behind and nothing to read,
\* and one that has not subscribed has none.
TypeOK ==
  /\ Types
  /\ \A s \in Sockets :
       pc[s] \in {"none", "accept", "subscribe", "over"} => sub[s] = "off" /\ inbox[s] = <<>>

\* What a browser has, or has coming, of its channel.
Pending(s) == IF pc[s] = "send" THEN <<current[s]>> ELSE <<>>
Flow(s) == seen[s] \o wire[s] \o Pending(s) \o inbox[s]

\* A browser that stays, on a Redis connection that holds, gets everything that is published from
\* its subscription on, without a gap: no message is dropped, doubled or overtaken between the
\* channel and the page.
NoGap ==
  \A s \in Sockets :
    (sub[s] = "on" /\ browser[s] = "open" /\ breaks[s] = 0) =>
       Flow(s) = [i \in 1..(posted - joined[s]) |-> joined[s] + i]

\* The browser is shown what LiveFeed says, whatever breaks and however often it is joined again.
Feed == INSTANCE LiveFeed WITH Viewers <- Sockets
ImplementsFeed == Feed!Spec

\* A message pushed to a subscription reaches its browser, unless that leaves or Redis fails.
Forwarded ==
  \A s \in Sockets, n \in 1..MaxMessages :
    n \in Range(inbox[s]) ~> (n \in Range(seen[s]) \/ browser[s] = "closed" \/ breaks[s] > 0)

\* The first message published once the server knows that a browser is gone ends its
\* subscription (the code's way to clean up).
CleanedUpByNextMessage ==
  \A s \in Sockets : (link[s] = "down" /\ inbox[s] # <<>>) ~> sub[s] = "off"

--------------------------------------------------------------------------------
(* A claim of docs/ARCHITECTURE.md the code does not keep *)

\* "On disconnect, the subscription is cleaned up" (line 315): when the browser is gone the
\* subscription goes.  On a quiet project nothing is sent, so the handler never learns of it.
CleanedUpOnDisconnect ==
  \A s \in Sockets : (browser[s] = "closed" /\ sub[s] = "on") ~> sub[s] = "off"
================================================================================
