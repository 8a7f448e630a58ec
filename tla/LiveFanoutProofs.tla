---------------------------- MODULE LiveFanoutProofs ----------------------------
(***************************************************************************)
(* What holds of LiveFanout for any number of sockets, messages and        *)
(* failures.                                                               *)
(***************************************************************************)
EXTENDS LiveFanout, TLAPS

Asc(q) == \A i, j \in 1..Len(q) : i < j => q[i] < q[j]
Before(q, r) == \A i \in 1..Len(q), j \in 1..Len(r) : q[i] < r[j]
Above(q, n) == \A i \in 1..Len(q) : q[i] < n
Below(n, q) == \A i \in 1..Len(q) : n < q[i]

\* What a browser has and has coming is in the order of the channel, wherever it is.
Ordered(s) ==
  /\ Asc(seen[s]) /\ Asc(wire[s]) /\ Asc(inbox[s])
  /\ Before(seen[s], wire[s]) /\ Before(seen[s], inbox[s]) /\ Before(wire[s], inbox[s])
  /\ pc[s] = "send" => /\ current[s] \in 1..posted
                       /\ Above(seen[s], current[s]) /\ Above(wire[s], current[s])
                       /\ Below(current[s], inbox[s])

\* How far the browser, the handler and the subscription of a socket are with each other.
Staged(s) ==
  /\ browser[s] = "none" <=> pc[s] = "none"
  /\ pc[s] \in {"none", "accept", "subscribe"}
       => seen[s] = <<>> /\ wire[s] = <<>>
  /\ pc[s] \in {"none", "accept", "subscribe", "over"} => inbox[s] = <<>> /\ sub[s] = "off"
  /\ browser[s] = "open" => pc[s] # "accept"
  /\ link[s] = "down" => browser[s] = "closed"
  /\ pc[s] \in {"listen", "send"} /\ sub[s] = "off" => breaks[s] > 0

\* Every message from the subscription on has its place on the way to the browser.
NSeen(s) == Len(seen[s])
NWire(s) == Len(wire[s])
NLeft(s) == Len(inbox[s])
Forwarding(s) == IF pc[s] = "send" THEN 1 ELSE 0
Placed(s) ==
  /\ \A i \in 1..NSeen(s) : seen[s][i] = joined[s] + i
  /\ \A i \in 1..NWire(s) : wire[s][i] = joined[s] + NSeen(s) + i
  /\ pc[s] = "send" => current[s] = joined[s] + NSeen(s) + NWire(s) + 1
  /\ \A i \in 1..NLeft(s) :
       inbox[s][i] = joined[s] + NSeen(s) + NWire(s) + Forwarding(s) + i
  /\ NSeen(s) + NWire(s) + Forwarding(s) + NLeft(s) = posted - joined[s]

Steady(s) == sub[s] = "on" /\ browser[s] = "open" /\ breaks[s] = 0

Inv ==
  /\ Types
  /\ \A s \in Sockets : Ordered(s)
  /\ \A s \in Sockets : Staged(s)
  /\ \A s \in Sockets : Steady(s) => Placed(s)

--------------------------------------------------------------------------------
(* Sequences of messages *)

LEMMA SeqMonotone ==
  ASSUME NEW S, NEW T, S \subseteq T, NEW q \in Seq(S)
  PROVE  q \in Seq(T)
  OBVIOUS

LEMMA HeadAndTail ==
  ASSUME NEW S, NEW q \in Seq(S), q # <<>>
  PROVE  Head(q) \in S /\ Tail(q) \in Seq(S)
  OBVIOUS

LEMMA ElementsIn ==
  ASSUME NEW S, NEW q \in Seq(S)
  PROVE  \A i \in 1..Len(q) : q[i] \in S
  OBVIOUS

LEMMA AppendFacts ==
  ASSUME NEW q \in Seq(Nat), NEW n \in Nat
  PROVE  /\ Len(Append(q, n)) = Len(q) + 1
         /\ \A i \in 1..Len(q) : Append(q, n)[i] = q[i]
         /\ Append(q, n)[Len(q) + 1] = n
  OBVIOUS

LEMMA TailFacts ==
  ASSUME NEW q \in Seq(Nat), q # <<>>
  PROVE  /\ Len(q) \in Nat \ {0} /\ Head(q) = q[1] /\ Head(q) \in Nat
         /\ Len(Tail(q)) = Len(q) - 1
         /\ \A i \in 1..Len(Tail(q)) : Tail(q)[i] = q[i + 1]
  OBVIOUS

\* Appending a larger number keeps a sequence ascending.
LEMMA AppendAscends ==
  ASSUME NEW q \in Seq(Nat), NEW n \in Nat, Asc(q), Above(q, n)
  PROVE  Asc(Append(q, n))
<1> DEFINE r == Append(q, n)
<1>1. \A i \in 1..Len(r) : (i \in 1..Len(q) /\ r[i] = q[i]) \/ (i = Len(q) + 1 /\ r[i] = n)
  BY AppendFacts
<1> SUFFICES ASSUME NEW i \in 1..Len(r), NEW j \in 1..Len(r), i < j PROVE r[i] < r[j]
  BY DEF Asc
<1>2. i \in 1..Len(q) /\ r[i] = q[i]
  BY <1>1, AppendFacts
<1>3. CASE j \in 1..Len(q) /\ r[j] = q[j]
  BY <1>2, <1>3 DEF Asc
<1>4. CASE r[j] = n
  BY <1>2, <1>4 DEF Above
<1> HIDE DEF r
<1> QED
  BY <1>1, <1>3, <1>4

LEMMA AppendBounds ==
  ASSUME NEW q \in Seq(Nat), NEW r \in Seq(Nat), NEW n \in Nat
  PROVE  /\ Before(q, r) /\ Above(q, n) => Before(q, Append(r, n))
         /\ Before(q, r) /\ Below(n, r) => Before(Append(q, n), r)
         /\ \A m \in Nat : Above(q, m) /\ n < m => Above(Append(q, n), m)
         /\ \A m \in Nat : Below(m, q) /\ m < n => Below(m, Append(q, n))
  BY AppendFacts DEF Before, Above, Below

\* The head of an ascending sequence is below its tail; what is left keeps its order.
LEMMA TailBounds ==
  ASSUME NEW q \in Seq(Nat), q # <<>>, Asc(q)
  PROVE  /\ Asc(Tail(q)) /\ Below(Head(q), Tail(q))
         /\ \A r \in Seq(Nat) : Before(r, q) => Before(r, Tail(q)) /\ Above(r, Head(q))
         /\ \A r \in Seq(Nat) : Before(q, r) => Before(Tail(q), r) /\ Below(Head(q), r)
         /\ \A m \in Nat : Above(q, m) => Above(Tail(q), m) /\ Head(q) < m
<1> DEFINE n == Len(q)
           t == Tail(q)
<1>1. /\ n \in Nat /\ 1 \in 1..n /\ Head(q) = q[1] /\ Len(t) = n - 1
      /\ \A i \in 1..Len(t) : t[i] = q[i + 1]
  BY TailFacts
<1> HIDE DEF n, t
<1>2. \A i \in 1..Len(t) : i + 1 \in 1..n /\ 1 < i + 1 /\ t[i] = q[i + 1]
  BY <1>1
<1>3. \A i, j \in 1..Len(t) : i < j => i + 1 < j + 1
  OBVIOUS
<1>4. Asc(t) /\ Below(Head(q), t)
  BY <1>1, <1>2, <1>3 DEF Asc, Below, n
<1>5. \A r \in Seq(Nat) : Before(r, q) => Before(r, t) /\ Above(r, Head(q))
  BY <1>1, <1>2 DEF Before, Above, n
<1>6. \A r \in Seq(Nat) : Before(q, r) => Before(t, r) /\ Below(Head(q), r)
  BY <1>1, <1>2 DEF Before, Below, n
<1>7. \A m \in Nat : Above(q, m) => Above(t, m) /\ Head(q) < m
  BY <1>1, <1>2 DEF Above, n
<1> QED
  BY <1>4, <1>5, <1>6, <1>7 DEF t

LEMMA PrefixBounds ==
  ASSUME NEW q \in Seq(Nat), NEW k \in 0..Len(q), Asc(q)
  PROVE  /\ Asc(SubSeq(q, 1, k))
         /\ \A r \in Seq(Nat) : Before(r, q) => Before(r, SubSeq(q, 1, k))
         /\ \A m \in Nat : Below(m, q) => Below(m, SubSeq(q, 1, k))
<1>1. Len(SubSeq(q, 1, k)) = k /\ \A i \in 1..k : i \in 1..Len(q) /\ SubSeq(q, 1, k)[i] = q[i]
  OBVIOUS
<1> QED
  BY <1>1 DEF Asc, Before, Below

--------------------------------------------------------------------------------
(* Types *)

SocketStep(s) == HandlerStep(s) \/ NetworkStep(s) \/ Connect(s) \/ Leave(s) \/ Break(s)

LEMMA InitType == Init => Types
  BY DEF Init, Types, BrowserStates, HandlerStates

LEMMA HandlerType ==
  ASSUME Inv, NEW s \in Sockets, HandlerStep(s)
  PROVE  Types'
<1>0. Types
  BY DEF Inv
<1> USE <1>0 DEF Types, BrowserStates, HandlerStates, GoTo, Fails, browserVars, redisVars, handlerVars
<1>1. CASE Accept(s)
  <2>1. browser' \in [Sockets -> BrowserStates] /\ pc' \in [Sockets -> HandlerStates]
    BY <1>1 DEF Accept
  <2> QED
    BY <1>1, <2>1 DEF Accept
<1>2. CASE Subscribe(s) \/ SubscribeFails(s)
  <2>1. CASE Subscribe(s)
    BY <2>1 DEF Subscribe
  <2>2. CASE SubscribeFails(s)
    BY <2>2 DEF SubscribeFails
  <2> QED
    BY <1>2, <2>1, <2>2
<1>3. CASE Receive(s)
  <2>1. inbox[s] \in Seq(1..posted) /\ inbox[s] # <<>>
    BY <1>3 DEF Receive
  <2>2. Head(inbox[s]) \in 1..posted /\ Tail(inbox[s]) \in Seq(1..posted)
    BY <2>1
  <2> QED
    BY <1>3, <2>2 DEF Receive
<1>4. CASE Send(s)
  <2>1. wire' \in [Sockets -> Seq(1..posted)]
    <3>1. current[s] \in 1..posted /\ wire[s] \in Seq(1..posted)
      BY <1>4 DEF Send, Inv, Ordered
    <3>2. Append(wire[s], current[s]) \in Seq(1..posted)
      BY <3>1
    <3> QED
      BY <1>4, <3>2 DEF Send
  <2> QED
    BY <1>4, <2>1 DEF Send
<1>5. CASE SendFails(s) \/ Resubscribe(s) \/ ListenFails(s)
  <2>1. CASE SendFails(s)
    BY <2>1 DEF SendFails
  <2>2. CASE Resubscribe(s)
    BY <2>2 DEF Resubscribe
  <2>3. CASE ListenFails(s)
    BY <2>3 DEF ListenFails
  <2> QED
    BY <1>5, <2>1, <2>2, <2>3
<1>6. CASE Unsubscribe(s)
  BY <1>6 DEF Unsubscribe
<1> QED
  BY <1>1, <1>2, <1>3, <1>4, <1>5, <1>6 DEF HandlerStep

LEMMA NextType ==
  ASSUME Inv, [Next]_vars
  PROVE  Types'
<1> USE DEF Types, BrowserStates, HandlerStates, GoTo, Fails, browserVars, redisVars, handlerVars
<1>0. Types
  BY DEF Inv
<1>1. CASE UNCHANGED vars
  BY <1>0, <1>1 DEF vars
<1>2. CASE Publish
  <2>1. posted \in Nat /\ posted' = posted + 1 /\ 1..posted \subseteq 1..posted'
    BY <1>0, <1>2 DEF Publish
  <2>2. \A q \in Seq(1..posted) : q \in Seq(1..posted') /\ Append(q, posted + 1) \in Seq(1..posted')
    <3> SUFFICES ASSUME NEW q \in Seq(1..posted)
                 PROVE  q \in Seq(1..posted') /\ Append(q, posted + 1) \in Seq(1..posted')
      OBVIOUS
    <3>1. q \in Seq(1..posted')
      BY <2>1, SeqMonotone
    <3>2. posted + 1 \in 1..posted'
      BY <2>1
    <3> QED
      BY <3>1, <3>2
  <2>3. inbox' \in [Sockets -> Seq(1..posted')]
    BY <1>0, <1>2, <2>2 DEF Publish
  <2>4. wire' \in [Sockets -> Seq(1..posted')] /\ seen' \in [Sockets -> Seq(1..posted')]
    BY <1>0, <1>2, <2>2 DEF Publish
  <2> QED
    BY <1>0, <1>2, <2>1, <2>3, <2>4 DEF Publish
<1>3. ASSUME NEW s \in Sockets, HandlerStep(s) PROVE Types'
  BY <1>0, <1>3, HandlerType
<1>4. ASSUME NEW s \in Sockets, Deliver(s) PROVE Types'
  <2>1. wire[s] \in Seq(1..posted) /\ wire[s] # <<>> /\ seen[s] \in Seq(1..posted)
    BY <1>0, <1>4 DEF Deliver
  <2>2. Head(wire[s]) \in 1..posted /\ Tail(wire[s]) \in Seq(1..posted)
    BY <2>1, HeadAndTail
  <2>3. Append(seen[s], Head(wire[s])) \in Seq(1..posted)
    BY <2>1, <2>2
  <2> QED
    BY <1>0, <1>4, <2>2, <2>3 DEF Deliver
<1>5. ASSUME NEW s \in Sockets, Notice(s) \/ Closed(s) \/ Connect(s) \/ Leave(s) PROVE Types'
  <2>1. CASE Notice(s) \/ Closed(s) \/ Connect(s)
    BY <1>0, <2>1 DEF Notice, Closed, Connect
  <2>2. CASE Leave(s)
    <3>1. wire' \in [Sockets -> Seq(1..posted)] /\ browser' \in [Sockets -> BrowserStates]
      BY <1>0, <2>2 DEF Leave
    <3> QED
      BY <1>0, <2>2, <3>1 DEF Leave
  <2> QED
    BY <1>5, <2>1, <2>2
<1>6. ASSUME NEW s \in Sockets, Break(s) PROVE Types'
  <2> PICK k \in 0..Len(inbox[s]) : inbox' = [inbox EXCEPT ![s] = SubSeq(@, 1, k)]
    BY <1>6 DEF Break
  <2>1. SubSeq(inbox[s], 1, k) \in Seq(1..posted)
    BY <1>0
  <2>2. inbox' \in [Sockets -> Seq(1..posted)]
    BY <1>0, <2>1
  <2> QED
    BY <1>0, <1>6, <2>2 DEF Break
<1> QED
  BY <1>1, <1>2, <1>3, <1>4, <1>5, <1>6 DEF Next, NetworkStep

--------------------------------------------------------------------------------
(* A step is Publish or one socket's; what it does to that socket *)

OthersKept(s) ==
  /\ posted' = posted
  /\ \A t \in Sockets \ {s} :
       /\ browser'[t] = browser[t] /\ link'[t] = link[t] /\ pc'[t] = pc[t] /\ sub'[t] = sub[t]
       /\ inbox'[t] = inbox[t] /\ current'[t] = current[t] /\ wire'[t] = wire[t]
       /\ seen'[t] = seen[t] /\ joined'[t] = joined[t] /\ breaks'[t] = breaks[t]

LEMMA OneSocketSteps ==
  ASSUME Types, NEW s \in Sockets, SocketStep(s)
  PROVE  OthersKept(s)
<1> USE DEF Types, OthersKept, GoTo, Fails, browserVars, redisVars, handlerVars
<1>1. CASE Accept(s) \/ Subscribe(s) \/ SubscribeFails(s) \/ Receive(s)
  BY <1>1 DEF Accept, Subscribe, SubscribeFails, Receive
<1>2. CASE Send(s) \/ SendFails(s) \/ Resubscribe(s) \/ ListenFails(s) \/ Unsubscribe(s)
  BY <1>2 DEF Send, SendFails, Resubscribe, ListenFails, Unsubscribe
<1>3. CASE Deliver(s) \/ Notice(s) \/ Closed(s)
  BY <1>3 DEF Deliver, Notice, Closed, BrowserStates
<1>4. CASE Connect(s) \/ Leave(s) \/ Break(s)
  BY <1>4 DEF Connect, Leave, Break
<1> QED
  BY <1>1, <1>2, <1>3, <1>4 DEF SocketStep, HandlerStep, NetworkStep

LEMMA NextStaged ==
  ASSUME Inv, [Next]_vars, NEW s \in Sockets
  PROVE  Staged(s)'
<1> USE DEF Inv, Types, Staged, GoTo, Fails, browserVars, redisVars, handlerVars
<1>1. CASE UNCHANGED vars
  BY <1>1 DEF vars
<1>2. CASE Publish
  BY <1>2 DEF Publish
<1>3. ASSUME NEW t \in Sockets \ {s}, SocketStep(t) PROVE Staged(s)'
  <2>1. OthersKept(t)
    BY <1>3, OneSocketSteps
  <2>2. /\ browser'[s] = browser[s] /\ link'[s] = link[s] /\ pc'[s] = pc[s] /\ sub'[s] = sub[s]
        /\ inbox'[s] = inbox[s] /\ wire'[s] = wire[s] /\ seen'[s] = seen[s] /\ breaks'[s] = breaks[s]
    BY <1>3, <2>1 DEF OthersKept
  <2> QED
    BY <2>2
<1>4. CASE SocketStep(s)
  <2>1. CASE Accept(s) \/ Subscribe(s) \/ SubscribeFails(s) \/ Receive(s)
    BY <2>1 DEF Accept, Subscribe, SubscribeFails, Receive
  <2>2. CASE Send(s) \/ SendFails(s) \/ Resubscribe(s) \/ ListenFails(s) \/ Unsubscribe(s)
    BY <2>2 DEF Send, SendFails, Resubscribe, ListenFails, Unsubscribe, BrowserStates
  <2>3. CASE Deliver(s) \/ Notice(s) \/ Closed(s)
    BY <2>3 DEF Deliver, Notice, Closed
  <2>4. CASE Connect(s) \/ Leave(s) \/ Break(s)
    BY <2>4 DEF Connect, Leave, Break
  <2> QED
    BY <1>4, <2>1, <2>2, <2>3, <2>4 DEF SocketStep, HandlerStep, NetworkStep
<1> QED
  BY <1>1, <1>2, <1>3, <1>4 DEF Next, SocketStep

--------------------------------------------------------------------------------
(* The order of the messages *)

\* The messages of socket s stay where they are.
Keeps(s) ==
  /\ seen'[s] = seen[s] /\ wire'[s] = wire[s] /\ inbox'[s] = inbox[s] /\ current'[s] = current[s]
  /\ pc'[s] # "send" \/ pc[s] = "send"

\* What the browser has not read, what the handler has not, or the end of that, is lost.
Loses(s) ==
  /\ seen'[s] = seen[s] /\ current'[s] = current[s]
  /\ pc'[s] # "send" \/ pc[s] = "send"
  /\ \/ wire'[s] = <<>> /\ inbox'[s] = inbox[s]
     \/ wire'[s] = wire[s] /\ \E k \in 0..Len(inbox[s]) : inbox'[s] = SubSeq(inbox[s], 1, k)

LEMMA SocketEffects ==
  ASSUME Inv, NEW s \in Sockets, SocketStep(s)
  PROVE  Keeps(s) \/ Loses(s) \/ Receive(s) \/ Send(s) \/ Deliver(s)
<1>0. Types
  BY DEF Inv
<1> USE <1>0 DEF Types, GoTo, browserVars, redisVars, handlerVars
<1>1. CASE Accept(s) \/ Subscribe(s) \/ SubscribeFails(s)
  BY <1>1 DEF Accept, Subscribe, SubscribeFails, Keeps
<1>2. CASE SendFails(s) \/ Resubscribe(s) \/ ListenFails(s)
  BY <1>2 DEF SendFails, Resubscribe, ListenFails, Keeps
<1>3. CASE Notice(s) \/ Closed(s) \/ Connect(s)
  BY <1>3 DEF Notice, Closed, Connect, Keeps
<1>4. CASE Leave(s)
  BY <1>4 DEF Leave, Loses
<1>5. CASE Unsubscribe(s)
  <2>1. SubSeq(inbox[s], 1, 0) = <<>> /\ 0 \in 0..Len(inbox[s])
    BY DEF Types
  <2> QED
    BY <1>5, <2>1 DEF Unsubscribe, Loses
<1>6. CASE Break(s)
  BY <1>6 DEF Break, Loses
<1> QED
  BY <1>1, <1>2, <1>3, <1>4, <1>5, <1>6 DEF SocketStep, HandlerStep, NetworkStep

LEMMA EmptyBounds ==
  /\ Asc(<<>>)
  /\ \A r : Before(r, <<>>) /\ Before(<<>>, r)
  /\ \A m : Above(<<>>, m) /\ Below(m, <<>>)
  BY DEF Asc, Before, Above, Below

LEMMA Streams ==
  ASSUME Types, NEW s \in Sockets
  PROVE  /\ seen[s] \in Seq(Nat) /\ wire[s] \in Seq(Nat) /\ inbox[s] \in Seq(Nat)
         /\ Above(seen[s], posted + 1) /\ Above(wire[s], posted + 1) /\ Above(inbox[s], posted + 1)
<1>1. ASSUME NEW q \in Seq(1..posted) PROVE q \in Seq(Nat) /\ Above(q, posted + 1)
  <2>1. posted \in Nat /\ 1..posted \subseteq Nat
    BY DEF Types
  <2>2. q \in Seq(Nat)
    BY <2>1, SeqMonotone
  <2>3. \A i \in 1..Len(q) : q[i] \in 1..posted
    BY ElementsIn
  <2> QED
    BY <2>1, <2>2, <2>3 DEF Above
<1> QED
  BY <1>1 DEF Types

LEMMA NextOrdered ==
  ASSUME Inv, [Next]_vars, NEW s \in Sockets
  PROVE  Ordered(s)'
<1>0. Types /\ Ordered(s) /\ posted \in Nat
  BY DEF Inv, Types
<1>s. seen[s] \in Seq(Nat) /\ wire[s] \in Seq(Nat) /\ inbox[s] \in Seq(Nat)
  BY <1>0, Streams
<1>1. ASSUME posted' = posted, Keeps(s) PROVE Ordered(s)'
  BY <1>0, <1>1 DEF Keeps, Ordered
<1>2. CASE Publish
  <2>1. /\ seen'[s] = seen[s] /\ wire'[s] = wire[s] /\ pc'[s] = pc[s] /\ current'[s] = current[s]
        /\ posted' = posted + 1
        /\ inbox'[s] = inbox[s] \/ inbox'[s] = Append(inbox[s], posted + 1)
    BY <1>2 DEF Publish, browserVars, handlerVars
  <2>2. CASE inbox'[s] = inbox[s]
    BY <1>0, <2>1, <2>2 DEF Ordered
  <2>3. CASE inbox'[s] = Append(inbox[s], posted + 1)
    <3>1. Asc(inbox[s])'
      BY <1>0, <1>s, <2>3, Streams, AppendAscends DEF Ordered
    <3>2. Before(seen[s], inbox[s])' /\ Before(wire[s], inbox[s])'
      BY <1>0, <1>s, <2>1, <2>3, Streams, AppendBounds DEF Ordered
    <3>3. ASSUME pc[s] = "send" PROVE Below(current[s], inbox[s])' /\ current'[s] \in 1..posted'
      BY <1>0, <1>s, <2>1, <2>3, <3>3, AppendBounds DEF Ordered
    <3> QED
      BY <1>0, <2>1, <3>1, <3>2, <3>3 DEF Ordered
  <2> QED
    BY <2>1, <2>2, <2>3
<1>3. ASSUME NEW t \in Sockets \ {s}, SocketStep(t) PROVE posted' = posted /\ Keeps(s)
  <2>1. OthersKept(t)
    BY <1>0, <1>3, OneSocketSteps
  <2> QED
    BY <2>1 DEF OthersKept, Keeps
<1>4. CASE SocketStep(s)
  <2>0. posted' = posted
    BY <1>0, <1>4, OneSocketSteps DEF OthersKept
  <2>1. CASE Loses(s)
    <3>1. CASE wire'[s] = <<>> /\ inbox'[s] = inbox[s]
      BY <1>0, <2>0, <2>1, <3>1, EmptyBounds DEF Loses, Ordered
    <3>2. ASSUME NEW k \in 0..Len(inbox[s]), inbox'[s] = SubSeq(inbox[s], 1, k), wire'[s] = wire[s]
          PROVE  Ordered(s)'
      <4>1. Asc(inbox[s])' /\ Before(seen[s], inbox[s])' /\ Before(wire[s], inbox[s])'
        BY <1>0, <1>s, <2>1, <3>2, PrefixBounds DEF Loses, Ordered
      <4>2. pc[s] = "send" => Below(current[s], inbox'[s])
        BY <1>0, <1>s, <3>2, PrefixBounds DEF Ordered
      <4> QED
        BY <1>0, <2>0, <2>1, <3>2, <4>1, <4>2 DEF Loses, Ordered
    <3> QED
      BY <2>1, <3>1, <3>2 DEF Loses
  <2>2. CASE Receive(s)
    <3>1. /\ seen'[s] = seen[s] /\ wire'[s] = wire[s] /\ inbox[s] # <<>>
          /\ inbox'[s] = Tail(inbox[s]) /\ current'[s] = Head(inbox[s])
      BY <1>0, <2>2 DEF Receive, Types, browserVars
    <3>2. current'[s] \in 1..posted
      BY <1>0, <3>1, HeadAndTail DEF Types
    <3>3. Asc(inbox[s])' /\ Below(current[s], inbox[s])'
      BY <1>0, <1>s, <3>1, TailBounds DEF Ordered
    <3>4. /\ Before(seen[s], inbox[s])' /\ Before(wire[s], inbox[s])'
          /\ Above(seen[s], current[s])' /\ Above(wire[s], current[s])'
      BY <1>0, <1>s, <3>1, TailBounds DEF Ordered
    <3> QED
      BY <1>0, <2>0, <3>1, <3>2, <3>3, <3>4 DEF Ordered
  <2>3. CASE Send(s)
    <3>1. /\ seen'[s] = seen[s] /\ inbox'[s] = inbox[s] /\ pc[s] = "send" /\ pc'[s] = "listen"
          /\ wire'[s] = wire[s] \/ wire'[s] = Append(wire[s], current[s])
      BY <1>0, <2>3 DEF Send, Types, GoTo, redisVars
    <3>2. CASE wire'[s] = Append(wire[s], current[s])
      <4>1. Asc(wire[s])'
        BY <1>0, <1>s, <3>1, <3>2, AppendAscends DEF Ordered
      <4>2. Before(seen[s], wire[s])' /\ Before(wire[s], inbox[s])'
        BY <1>0, <1>s, <3>1, <3>2, AppendBounds DEF Ordered
      <4> QED
        BY <1>0, <3>1, <4>1, <4>2 DEF Ordered
    <3>3. CASE wire'[s] = wire[s]
      BY <1>0, <3>1, <3>3 DEF Ordered
    <3> QED
      BY <3>1, <3>2, <3>3
  <2>4. CASE Deliver(s)
    <3>1. /\ inbox'[s] = inbox[s] /\ pc'[s] = pc[s] /\ current'[s] = current[s] /\ wire[s] # <<>>
          /\ wire'[s] = Tail(wire[s]) /\ seen'[s] = Append(seen[s], Head(wire[s]))
      BY <1>0, <2>4 DEF Deliver, Types, redisVars, handlerVars
    <3> DEFINE n == Head(wire[s])
               rest == Tail(wire[s])
    <3>2. n \in Nat /\ rest \in Seq(Nat)
      BY <1>s, <3>1, HeadAndTail
    <3>3. /\ Asc(rest) /\ Below(n, rest) /\ Before(seen[s], rest) /\ Above(seen[s], n)
          /\ Before(rest, inbox[s]) /\ Below(n, inbox[s])
          /\ pc[s] = "send" => Above(rest, current[s]) /\ n < current[s]
      BY <1>0, <1>s, <3>1, TailBounds DEF Ordered
    <3> HIDE DEF n, rest
    <3>4. Asc(Append(seen[s], n)) /\ Before(Append(seen[s], n), rest)
          /\ Before(Append(seen[s], n), inbox[s])
      BY <1>0, <1>s, <3>2, <3>3, AppendAscends, AppendBounds DEF Ordered
    <3>5. pc[s] = "send" => Above(Append(seen[s], n), current[s])
      BY <1>0, <1>s, <3>2, <3>3, AppendBounds DEF Ordered
    <3> QED
      BY <1>0, <2>0, <3>1, <3>3, <3>4, <3>5 DEF Ordered, n, rest
  <2> QED
    BY <1>1, <1>4, <2>0, <2>1, <2>2, <2>3, <2>4, SocketEffects
<1>5. CASE UNCHANGED vars
  BY <1>1, <1>5 DEF vars, Keeps
<1> QED
  BY <1>1, <1>2, <1>3, <1>4, <1>5 DEF Next, SocketStep

--------------------------------------------------------------------------------
(* The place of every message from the subscription on *)

LEMMA SteadySteps ==
  ASSUME Inv, NEW s \in Sockets, SocketStep(s), Steady(s)'
  PROVE  \/ Subscribe(s)
         \/ Steady(s) /\ joined'[s] = joined[s] /\ (Receive(s) \/ Send(s) \/ Deliver(s))
<1>0. Types /\ Staged(s)
  BY DEF Inv
<1> USE <1>0 DEF Types, Staged, Steady, GoTo, Fails, browserVars, redisVars, handlerVars
<1>1. CASE Accept(s) \/ SubscribeFails(s) \/ SendFails(s)
  BY <1>1 DEF Accept, SubscribeFails, SendFails
<1>2. CASE Resubscribe(s) \/ ListenFails(s) \/ Unsubscribe(s)
  BY <1>2 DEF Resubscribe, ListenFails, Unsubscribe
<1>3. CASE Notice(s) \/ Closed(s) \/ Connect(s)
  BY <1>3 DEF Notice, Closed, Connect
<1>4. CASE Leave(s) \/ Break(s)
  BY <1>4 DEF Leave, Break
<1>5. CASE Receive(s) \/ Send(s) \/ Deliver(s)
  BY <1>5 DEF Receive, Send, Deliver
<1> QED
  BY <1>1, <1>2, <1>3, <1>4, <1>5 DEF SocketStep, HandlerStep, NetworkStep

LEMMA NextPlaced ==
  ASSUME Inv, [Next]_vars, NEW s \in Sockets, Steady(s)'
  PROVE  Placed(s)'
<1>0. Types /\ posted \in Nat /\ joined[s] \in Nat
  BY DEF Inv, Types
<1>s. seen[s] \in Seq(Nat) /\ wire[s] \in Seq(Nat) /\ inbox[s] \in Seq(Nat)
  BY <1>0, Streams
<1>l. NSeen(s) \in Nat /\ NWire(s) \in Nat /\ NLeft(s) \in Nat
  BY <1>s DEF NSeen, NWire, NLeft
<1>1. CASE UNCHANGED vars
  BY <1>1 DEF vars, Inv, Steady, Placed, Forwarding, NSeen, NWire, NLeft
<1>2. CASE Publish
  <2>1. /\ seen'[s] = seen[s] /\ wire'[s] = wire[s] /\ pc'[s] = pc[s] /\ current'[s] = current[s]
        /\ posted' = posted + 1 /\ joined'[s] = joined[s]
        /\ inbox'[s] = Append(inbox[s], posted + 1)
    BY <1>2 DEF Publish, Steady, browserVars, handlerVars
  <2>2. Placed(s)
    BY <1>2 DEF Publish, Inv, Steady, browserVars
  <2>3. /\ NLeft(s)' = NLeft(s) + 1
        /\ \A i \in 1..NLeft(s) : inbox'[s][i] = inbox[s][i]
        /\ inbox'[s][NLeft(s) + 1] = posted + 1
    BY <1>0, <1>s, <2>1, AppendFacts DEF NLeft
  <2>4. /\ Forwarding(s)' = Forwarding(s) /\ Forwarding(s) \in {0, 1}
        /\ NSeen(s)' = NSeen(s) /\ NWire(s)' = NWire(s)
    BY <2>1 DEF Forwarding, NSeen, NWire
  <2>5. ASSUME NEW i \in 1..NLeft(s)'
        PROVE  inbox'[s][i] = joined[s] + NSeen(s) + NWire(s) + Forwarding(s) + i
    <3>1. CASE i \in 1..NLeft(s)
      BY <2>2, <2>3, <3>1 DEF Placed
    <3>2. CASE i = NLeft(s) + 1
      BY <1>0, <1>l, <2>2, <2>3, <2>4, <3>2 DEF Placed
    <3> QED
      BY <1>l, <2>3, <3>1, <3>2
  <2>6. NSeen(s) + NWire(s) + Forwarding(s) + NLeft(s)' = posted' - joined[s]
    <3>1. NSeen(s) + NWire(s) + Forwarding(s) + NLeft(s) = posted - joined[s]
      BY <2>2 DEF Placed
    <3>2. NLeft(s)' = NLeft(s) + 1 /\ posted' = posted + 1 /\ Forwarding(s) \in Nat
      BY <2>1, <2>3, <2>4
    <3> QED
      BY <1>0, <1>l, <3>1, <3>2
  <2> QED
    BY <2>1, <2>2, <2>4, <2>5, <2>6 DEF Placed
<1>3. ASSUME NEW t \in Sockets \ {s}, SocketStep(t) PROVE Placed(s)'
  <2>1. OthersKept(t)
    BY <1>0, <1>3, OneSocketSteps
  <2>2. Steady(s) /\ posted' = posted /\ joined'[s] = joined[s] /\ pc'[s] = pc[s]
        /\ seen'[s] = seen[s] /\ wire'[s] = wire[s] /\ inbox'[s] = inbox[s]
        /\ current'[s] = current[s]
    BY <2>1 DEF OthersKept, Steady
  <2>3. Placed(s)
    BY <2>2 DEF Inv
  <2> QED
    BY <2>2, <2>3 DEF Placed, Forwarding, NSeen, NWire, NLeft
<1>4. CASE SocketStep(s)
  <2>0. posted' = posted
    BY <1>0, <1>4, OneSocketSteps DEF OthersKept
  <2>1. CASE Subscribe(s)
    <3>1. seen'[s] = <<>> /\ wire'[s] = <<>> /\ inbox'[s] = <<>>
      BY <2>1 DEF Subscribe, Inv, Staged, browserVars
    <3>2. pc'[s] = "listen" /\ joined'[s] = posted
      BY <1>0, <2>1 DEF Subscribe, Types, GoTo
    <3> QED
      BY <1>0, <2>0, <3>1, <3>2 DEF Placed, Forwarding, NSeen, NWire, NLeft
  <2>2. ASSUME Steady(s), joined'[s] = joined[s], Receive(s) PROVE Placed(s)'
    <3>1. /\ seen'[s] = seen[s] /\ wire'[s] = wire[s] /\ inbox[s] # <<>>
          /\ inbox'[s] = Tail(inbox[s]) /\ current'[s] = Head(inbox[s])
          /\ pc[s] = "listen" /\ pc'[s] = "send"
      BY <1>0, <2>2 DEF Receive, Types, GoTo, browserVars
    <3>2. /\ Placed(s) /\ Forwarding(s) = 0 /\ Forwarding(s)' = 1
          /\ NSeen(s)' = NSeen(s) /\ NWire(s)' = NWire(s)
      BY <2>2, <3>1 DEF Inv, Forwarding, NSeen, NWire
    <3>3. current'[s] = inbox[s][1] /\ 1 \in 1..NLeft(s) /\ NLeft(s)' = NLeft(s) - 1
      BY <1>s, <1>l, <3>1, TailFacts DEF NLeft, NWire
    <3>4. \A i \in 1..NLeft(s)' : inbox'[s][i] = inbox[s][i + 1] /\ i + 1 \in 1..NLeft(s)
      BY <1>s, <1>l, <3>1, <3>3, TailFacts DEF NLeft, NWire
    <3>5. current'[s] = joined[s] + NSeen(s) + NWire(s) + 1
      BY <1>0, <1>l, <3>2, <3>3 DEF Placed
    <3>6. \A i \in 1..NLeft(s)' :
            inbox'[s][i] = joined[s] + NSeen(s) + NWire(s) + 1 + i
      BY <1>0, <1>l, <3>2, <3>4 DEF Placed
    <3>7. NSeen(s) + NWire(s) + 1 + NLeft(s)' = posted' - joined[s]
      BY <1>0, <1>l, <2>0, <3>2, <3>3 DEF Placed
    <3> QED
      BY <2>2, <3>1, <3>2, <3>5, <3>6, <3>7 DEF Placed
  <2>3. ASSUME Steady(s), joined'[s] = joined[s], Send(s) PROVE Placed(s)'
    <3>1. /\ seen'[s] = seen[s] /\ inbox'[s] = inbox[s] /\ pc[s] = "send" /\ pc'[s] = "listen"
          /\ wire'[s] = Append(wire[s], current[s]) /\ current[s] \in Nat
      BY <1>0, <2>3 DEF Send, Types, Steady, GoTo, redisVars
    <3>2. /\ Placed(s) /\ Forwarding(s) = 1 /\ Forwarding(s)' = 0
          /\ NSeen(s)' = NSeen(s) /\ NLeft(s)' = NLeft(s)
      BY <2>3, <3>1 DEF Inv, Forwarding, NSeen, NLeft
    <3>3. /\ NWire(s)' = NWire(s) + 1
          /\ \A i \in 1..NWire(s) : wire'[s][i] = wire[s][i]
          /\ wire'[s][NWire(s) + 1] = current[s]
      BY <1>s, <3>1, AppendFacts DEF NWire
    <3>4. ASSUME NEW i \in 1..NWire(s)' PROVE wire'[s][i] = joined[s] + NSeen(s) + i
      <4>1. CASE i \in 1..NWire(s)
        BY <3>2, <3>3, <4>1 DEF Placed
      <4>2. CASE i = NWire(s) + 1
        <5>1. wire'[s][i] = joined[s] + NSeen(s) + NWire(s) + 1
          BY <3>1, <3>2, <3>3, <4>2 DEF Placed
        <5> QED
          BY <1>0, <1>l, <4>2, <5>1
      <4> QED
        BY <1>l, <3>3, <4>1, <4>2
    <3>5. \A i \in 1..NLeft(s) :
            inbox[s][i] = joined[s] + NSeen(s) + NWire(s)' + 0 + i
      BY <1>0, <1>l, <3>2, <3>3 DEF Placed
    <3>6. NSeen(s) + NWire(s)' + 0 + NLeft(s) = posted' - joined[s]
      BY <1>0, <1>l, <2>0, <3>2, <3>3 DEF Placed
    <3> QED
      BY <2>3, <3>1, <3>2, <3>4, <3>5, <3>6 DEF Placed
  <2>4. ASSUME Steady(s), joined'[s] = joined[s], Deliver(s) PROVE Placed(s)'
    <3>1. /\ inbox'[s] = inbox[s] /\ pc'[s] = pc[s] /\ current'[s] = current[s] /\ wire[s] # <<>>
          /\ wire'[s] = Tail(wire[s]) /\ seen'[s] = Append(seen[s], Head(wire[s]))
      BY <1>0, <2>4 DEF Deliver, Types, redisVars, handlerVars
    <3>2. /\ Placed(s) /\ Forwarding(s)' = Forwarding(s) /\ Forwarding(s) \in {0, 1}
          /\ NLeft(s)' = NLeft(s)
      BY <2>4, <3>1 DEF Inv, Forwarding, NLeft
    <3>3. /\ Head(wire[s]) = wire[s][1] /\ Head(wire[s]) \in Nat /\ 1 \in 1..NWire(s)
          /\ NWire(s)' = NWire(s) - 1
      BY <1>s, <1>l, <3>1, TailFacts DEF NLeft, NWire
    <3>4. \A i \in 1..NWire(s)' : wire'[s][i] = wire[s][i + 1] /\ i + 1 \in 1..NWire(s)
      BY <1>s, <1>l, <3>1, <3>3, TailFacts DEF NLeft, NWire
    <3>5. /\ NSeen(s)' = NSeen(s) + 1
          /\ \A i \in 1..NSeen(s) : seen'[s][i] = seen[s][i]
          /\ seen'[s][NSeen(s) + 1] = Head(wire[s])
      BY <1>s, <3>1, <3>3, AppendFacts DEF NSeen
    <3>6. ASSUME NEW i \in 1..NSeen(s)' PROVE seen'[s][i] = joined[s] + i
      <4>1. CASE i \in 1..NSeen(s)
        BY <3>2, <3>5, <4>1 DEF Placed
      <4>2. CASE i = NSeen(s) + 1
        BY <1>0, <1>l, <3>2, <3>3, <3>5, <4>2 DEF Placed
      <4> QED
        BY <1>l, <3>5, <4>1, <4>2
    <3>7. \A i \in 1..NWire(s)' : wire'[s][i] = joined[s] + NSeen(s)' + i
      BY <1>0, <1>l, <3>2, <3>4, <3>5 DEF Placed
    <3>8. NSeen(s)' + NWire(s)' = NSeen(s) + NWire(s)
      BY <1>l, <3>3, <3>5
    <3>9. joined[s] + NSeen(s)' + NWire(s)' = joined[s] + NSeen(s) + NWire(s)
      BY <1>0, <1>l, <3>3, <3>5
    <3>10. pc'[s] = "send" => current'[s] = joined'[s] + NSeen(s)' + NWire(s)' + 1
      BY <2>4, <3>1, <3>2, <3>9 DEF Placed
    <3>11. \A i \in 1..NLeft(s)' :
             inbox'[s][i] = joined'[s] + NSeen(s)' + NWire(s)' + Forwarding(s)' + i
      BY <2>4, <3>1, <3>2, <3>9 DEF Placed
    <3>12. NSeen(s)' + NWire(s)' + Forwarding(s)' + NLeft(s)' = posted' - joined'[s]
      BY <2>0, <2>4, <3>2, <3>8 DEF Placed
    <3> QED
      BY <2>4, <3>6, <3>7, <3>10, <3>11, <3>12 DEF Placed
  <2> QED
    BY <1>4, <2>1, <2>2, <2>3, <2>4, SteadySteps
<1> QED
  BY <1>1, <1>2, <1>3, <1>4 DEF Next, SocketStep

--------------------------------------------------------------------------------

LEMMA InitInv == Init => Inv
<1> SUFFICES ASSUME Init PROVE Inv
  OBVIOUS
<1>1. Types
  BY InitType
<1>2. ASSUME NEW s \in Sockets PROVE Ordered(s) /\ Staged(s) /\ ~ Steady(s)
  BY EmptyBounds DEF Init, Ordered, Staged, Steady
<1> QED
  BY <1>1, <1>2 DEF Inv

THEOREM Invariant == Spec => []Inv
<1>1. Inv /\ [Next]_vars => Inv'
  <2> SUFFICES ASSUME Inv, [Next]_vars PROVE Inv'
    OBVIOUS
  <2>1. \A s \in Sockets : Ordered(s)' /\ Staged(s)'
    BY NextOrdered, NextStaged
  <2>2. \A s \in Sockets : Steady(s)' => Placed(s)'
    BY NextPlaced
  <2> QED
    BY <2>1, <2>2, NextType DEF Inv
<1> QED
  BY <1>1, InitInv, PTL DEF Spec

\* Every variable keeps its type and no handler leaves its subscription behind, for any number of
\* sockets and messages.
THEOREM TypeCorrect == Spec => []TypeOK
<1>1. Inv => TypeOK
  BY DEF Inv, Staged, TypeOK
<1> QED
  BY <1>1, Invariant, PTL

--------------------------------------------------------------------------------
(* No gap *)

From(a, n) == [i \in 1..n |-> a + i]

LEMMA FromConcat ==
  ASSUME NEW a \in Nat, NEW n \in Nat, NEW m \in Nat
  PROVE  From(a, n) \o From(a + n, m) = From(a, n + m)
<1>1. From(a, n) \in Seq(Nat) /\ Len(From(a, n)) = n
  BY DEF From
<1>2. From(a + n, m) \in Seq(Nat) /\ Len(From(a + n, m)) = m
  BY DEF From
<1>3. From(a, n + m) \in Seq(Nat) /\ Len(From(a, n + m)) = n + m
  BY DEF From
<1> DEFINE q == From(a, n) \o From(a + n, m)
<1>4. q \in Seq(Nat) /\ Len(q) = n + m
  BY <1>1, <1>2
<1>5. ASSUME NEW i \in 1..(n + m) PROVE q[i] = From(a, n + m)[i]
  <2>1. CASE i <= n
    <3>1. q[i] = From(a, n)[i]
      BY <1>1, <1>2, <2>1
    <3> QED
      BY <2>1, <3>1 DEF From
  <2>2. CASE i > n
    <3>1. q[i] = From(a + n, m)[i - n] /\ i - n \in 1..m
      BY <1>1, <1>2, <2>2
    <3> QED
      BY <2>2, <3>1 DEF From
  <2>3. i <= n \/ i > n
    OBVIOUS
  <2> HIDE DEF q
  <2> QED
    BY <2>1, <2>2, <2>3
<1> HIDE DEF q
<1>6. q = From(a, n + m)
  BY <1>3, <1>4, <1>5
<1> QED
  BY <1>6 DEF q

LEMMA IsFrom ==
  ASSUME NEW a \in Nat, NEW q \in Seq(Nat), \A i \in 1..Len(q) : q[i] = a + i
  PROVE  q = From(a, Len(q))
<1>1. From(a, Len(q)) \in Seq(Nat) /\ Len(From(a, Len(q))) = Len(q)
  BY DEF From
<1>2. \A i \in 1..Len(q) : q[i] = From(a, Len(q))[i]
  BY DEF From
<1> QED
  BY <1>1, <1>2

LEMMA PlacedIsFlow ==
  ASSUME Inv, NEW s \in Sockets, Placed(s)
  PROVE  Flow(s) = From(joined[s], posted - joined[s])
<1>0. Types /\ posted \in Nat /\ joined[s] \in Nat
  BY DEF Inv, Types
<1>s. seen[s] \in Seq(Nat) /\ wire[s] \in Seq(Nat) /\ inbox[s] \in Seq(Nat)
  BY <1>0, Streams
<1>l. NSeen(s) \in Nat /\ NWire(s) \in Nat /\ NLeft(s) \in Nat /\ Forwarding(s) \in Nat
  BY <1>s DEF NSeen, NWire, NLeft, Forwarding
<1> DEFINE b == joined[s] + NSeen(s)
           c == b + NWire(s)
           d == c + Forwarding(s)
<1>b. b \in Nat /\ c \in Nat /\ d \in Nat
  BY <1>0, <1>l
<1>1. seen[s] = From(joined[s], NSeen(s))
  BY <1>0, <1>s, IsFrom DEF Placed, NSeen
<1>2. wire[s] = From(b, NWire(s))
  <2>1. \A i \in 1..Len(wire[s]) : wire[s][i] = b + i
    BY DEF Placed, NWire
  <2> HIDE DEF b
  <2> QED
    BY <1>s, <1>b, <2>1, IsFrom DEF NWire
<1>3. Pending(s) = From(c, Forwarding(s))
  <2>1. CASE pc[s] = "send"
    <3>1. Pending(s) = <<current[s]>> /\ current[s] = c + 1 /\ Forwarding(s) = 1
      BY <2>1 DEF Pending, Forwarding, Placed
    <3> HIDE DEF c
    <3>2. From(c, 1) = <<c + 1>>
      BY <1>b DEF From
    <3> QED
      BY <3>1, <3>2
  <2>2. CASE pc[s] # "send"
    BY <2>2 DEF Pending, Forwarding, From
  <2> QED
    BY <2>1, <2>2
<1>4. inbox[s] = From(d, NLeft(s))
  <2>1. \A i \in 1..Len(inbox[s]) : inbox[s][i] = d + i
    BY DEF Placed, NLeft
  <2> HIDE DEF d
  <2> QED
    BY <1>s, <1>b, <2>1, IsFrom DEF NLeft
<1>5. seen[s] \o wire[s] = From(joined[s], NSeen(s) + NWire(s))
  <2>1. From(joined[s], NSeen(s)) \o From(joined[s] + NSeen(s), NWire(s))
          = From(joined[s], NSeen(s) + NWire(s))
    BY <1>0, <1>l, FromConcat
  <2> QED
    BY <1>1, <1>2, <2>1
<1>6. seen[s] \o wire[s] \o Pending(s) = From(joined[s], NSeen(s) + NWire(s) + Forwarding(s))
  <2> DEFINE n == NSeen(s) + NWire(s)
  <2>1. c = joined[s] + n /\ n \in Nat
    BY <1>0, <1>l
  <2> HIDE DEF c, n
  <2>2. From(joined[s], n) \o From(joined[s] + n, Forwarding(s)) = From(joined[s], n + Forwarding(s))
    BY <1>0, <1>l, <2>1, FromConcat
  <2>3. seen[s] \o wire[s] = From(joined[s], n)
    BY <1>5 DEF n
  <2>4. seen[s] \o wire[s] \o Pending(s) = From(joined[s], n + Forwarding(s))
    BY <1>3, <2>1, <2>2, <2>3
  <2> QED
    BY <2>4 DEF n
<1>7. Flow(s) = From(joined[s], NSeen(s) + NWire(s) + Forwarding(s) + NLeft(s))
  <2> DEFINE n == NSeen(s) + NWire(s) + Forwarding(s)
  <2>1. d = joined[s] + n /\ n \in Nat
    BY <1>0, <1>l
  <2>2. seen[s] \o wire[s] \o Pending(s) = From(joined[s], n)
    BY <1>6
  <2> HIDE DEF d, n
  <2>3. From(joined[s], n) \o From(joined[s] + n, NLeft(s)) = From(joined[s], n + NLeft(s))
    BY <1>0, <1>l, <2>1, FromConcat
  <2>4. Flow(s) = From(joined[s], n + NLeft(s))
    BY <1>4, <2>1, <2>2, <2>3 DEF Flow
  <2> QED
    BY <2>4 DEF n
<1> QED
  BY <1>7 DEF Placed

\* A browser that stays, on a Redis connection that holds, has or has coming every message published
\* from its subscription on, in order and once, however many sockets and messages there are.
THEOREM NoGapTheorem == Spec => []NoGap
<1>1. Inv => NoGap
  <2> SUFFICES ASSUME Inv, NEW s \in Sockets, sub[s] = "on", browser[s] = "open", breaks[s] = 0
               PROVE  Flow(s) = [i \in 1..(posted - joined[s]) |-> joined[s] + i]
    BY DEF NoGap
  <2>1. Placed(s)
    BY DEF Inv, Steady
  <2> QED
    BY <2>1, PlacedIsFlow DEF From
<1> QED
  BY <1>1, Invariant, PTL

--------------------------------------------------------------------------------
(* The fan-out implements LiveFeed: publishing posts, delivering shows, the    *)
(* rest leaves what viewers were shown as it is.                               *)

LEMMA FeedStep ==
  ASSUME Inv, [Next]_vars
  PROVE  [Feed!Next]_(Feed!vars)
<1>0. Types
  BY DEF Inv
<1> USE DEF Feed!vars
<1>1. CASE UNCHANGED vars
  BY <1>1 DEF vars
<1>2. CASE Publish
  BY <1>2 DEF Publish, browserVars, Feed!Next, Feed!Post
<1>3. ASSUME NEW s \in Sockets, Deliver(s) PROVE Feed!Show(s)
  <2>1. wire[s] \in Seq(1..posted) /\ wire[s] # <<>> /\ seen[s] \in Seq(1..posted) /\ posted \in Nat
    BY <1>0, <1>3 DEF Deliver, Types
  <2>2. wire[s] \in Seq(Nat) /\ seen[s] \in Seq(Nat)
    BY <1>0, Streams
  <2>3. Head(wire[s]) \in 1..posted /\ Head(wire[s]) = wire[s][1] /\ 1 \in 1..Len(wire[s])
    BY <2>1, <2>2, HeadAndTail, TailFacts
  <2>4. Feed!Latest(s) \in Nat /\ Feed!Latest(s) < Head(wire[s])
    <3>1. CASE seen[s] = <<>>
      BY <2>3, <3>1 DEF Feed!Latest
    <3>2. CASE seen[s] # <<>>
      <4>1. Len(seen[s]) \in 1..Len(seen[s])
        BY <2>2, <3>2
      <4>2. seen[s][Len(seen[s])] < wire[s][1]
        BY <2>3, <4>1 DEF Inv, Ordered, Before
      <4>3. seen[s][Len(seen[s])] \in Nat
        BY <2>2, <4>1, ElementsIn
      <4> QED
        BY <2>3, <3>2, <4>2, <4>3 DEF Feed!Latest
    <3> QED
      BY <3>1, <3>2
  <2>5. Head(wire[s]) \in (Feed!Latest(s) + 1)..posted
    BY <2>1, <2>3, <2>4
  <2> QED
    BY <1>3, <2>5 DEF Deliver, Feed!Show
<1>4. ASSUME NEW s \in Sockets, SocketStep(s), ~ Deliver(s) PROVE UNCHANGED <<posted, seen>>
  <2> USE DEF browserVars
  <2>1. CASE HandlerStep(s)
    BY <2>1 DEF HandlerStep, Accept, Subscribe, SubscribeFails, Receive, Send, SendFails,
                Resubscribe, ListenFails, Unsubscribe
  <2>2. CASE Notice(s) \/ Closed(s) \/ Connect(s) \/ Leave(s) \/ Break(s)
    BY <2>2 DEF Notice, Closed, Connect, Leave, Break
  <2> QED
    BY <1>4, <2>1, <2>2 DEF SocketStep, NetworkStep
<1> QED
  BY <1>1, <1>2, <1>3, <1>4 DEF Next, SocketStep, Feed!Next

\* What browsers are shown is a behaviour of LiveFeed: some of the channel's messages, each at most
\* once and oldest first, whatever breaks and however often a connection subscribes again.
THEOREM Implementation == Spec => ImplementsFeed
<1>1. Init => Feed!Init
  BY DEF Init, Feed!Init
<1>2. Inv /\ [Next]_vars => [Feed!Next]_(Feed!vars)
  BY FeedStep
<1> QED
  BY <1>1, <1>2, Invariant, PTL DEF Spec, ImplementsFeed, Feed!Spec
================================================================================
