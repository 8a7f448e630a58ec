---------------------------- MODULE SdkClientProofs ----------------------------
(***************************************************************************)
(* What holds of SdkClient for any number of threads, entries, failures    *)
(* and expiries.                                                           *)
(***************************************************************************)
EXTENDS SdkClient, FiniteSetTheorems, TLAPS

\* The flusher never is in close(); when the process is over every thread is gone.
Roles ==
  /\ \A t \in Flushers : pc[t] \in {"loop", "sleep", "gone", "flush"} \cup Sending
  /\ process = "over" => \A t \in Threads : pc[t] = "gone"

\* Every entry logged is in one place, once.
Injective(q) == \A i, j \in DOMAIN q : q[i] = q[j] => i = j
Once ==
  /\ Injective(buffer) /\ Injective(received) /\ \A t \in Threads : Injective(batch[t])
  /\ Range(buffer) \cap Range(received) = {} /\ dropped \cap (Range(buffer) \cup Range(received)) = {}
  /\ \A t \in Threads : Range(batch[t]) \cap (Range(buffer) \cup Range(received) \cup dropped) = {}
  /\ \A t, u \in Threads : t # u => Range(batch[t]) \cap Range(batch[u]) = {}
  /\ \A e \in Entries :
       e \in logged <=> \/ e \in Range(buffer) \cup Range(received) \cup dropped
                       \/ \E t \in Threads : e \in Range(batch[t])

\* What a login answered, and what is posted again with it, is the newest token or expired since.
Fresh(k) == k = accepted \/ k \in met
Renewed ==
  \A t \in Threads :
    /\ pc[t] \in {"store", "repost"} => Fresh(held[t])
    /\ pc[t] = "again" => Fresh(token)

\* A closed logger's buffer has only late entries, once the thread that closed it has flushed.
Flushed == Range(buffer) \subseteq late
ClosedIsFlushed == logger = "closed" => (\E t \in closing : pc[t] = "flush") \/ Flushed

\* While the process exits, Main alone runs and is closing the logger or has.
Exiting ==
  process = "exiting" =>
    /\ \A t \in AppThreads \ {Main} : pc[t] = "idle"
    /\ Flushers # {} => pc[Main] \in {"check", "mark"} \/ logger = "closed"

Inv ==
  /\ TypeOK /\ Roles /\ Once
  /\ Renewed
  /\ ClosedIsFlushed /\ Exiting /\ ExitLeavesOnlyLate

--------------------------------------------------------------------------------
(***************************************************************************)
(* Most steps are one thread's.  What a step does with the entries is one  *)
(* of seven effects; the invariants about entries are proved effect by     *)
(* effect.                                                                 *)
(***************************************************************************)

ThreadStep(t) ==
  \/ t \in AppThreads /\ (CallFlush(t) \/ CallClose(t) \/ \E e \in Entries : Log(t, e))
  \/ t \in Flushers /\ (LoopAgain(t) \/ Wake(t))
  \/ CallStep(t) \/ SendStep(t)

LEMMA Steps ==
  ASSUME [Next]_vars
  PROVE  (\E t \in Threads : ThreadStep(t)) \/ Expire \/ Exit \/ Over \/ UNCHANGED vars
  BY DEF Next, ThreadStep, Threads

\* A thread that sends has something to send, and is there while the process is.
LEMMA SendersHold ==
  ASSUME TypeOK, Roles, NEW t \in Threads
  PROVE  /\ pc[t] # "gone" => process # "over"
         /\ pc[t] \in Sending => batch[t] # <<>>
         /\ pc[t] \notin Sending /\ pc[t] # "gone" => batch[t] = <<>>
<1>1. pc[t] # "gone" => process # "over"
  BY DEF Roles
<1>2. pc[t] \in Sending => pc[t] # "gone"
  BY DEF Sending
<1> QED
  BY <1>1, <1>2 DEF TypeOK

\* An entry is buffered; it completes a batch; a flush takes the buffer.
Buffers(e) ==
  /\ e \in Entries \ logged /\ logged' = logged \cup {e}
  /\ late' = IF logger = "closed" THEN late \cup {e} ELSE late
  /\ buffer' = Append(buffer, e)
  /\ UNCHANGED <<batch, received, dropped>>
Fills(t, e) ==
  /\ e \in Entries \ logged /\ logged' = logged \cup {e}
  /\ late' = IF logger = "closed" THEN late \cup {e} ELSE late
  /\ batch[t] = <<>> /\ batch' = [batch EXCEPT ![t] = Append(buffer, e)]
  /\ buffer' = <<>>
  /\ UNCHANGED <<received, dropped>>
Takes(t) ==
  /\ batch[t] = <<>> /\ batch' = [batch EXCEPT ![t] = buffer]
  /\ buffer' = <<>>
  /\ UNCHANGED <<logged, late, received, dropped>>

\* The API takes an entry; an exception drops the batch; it does so after the API took an entry.
Accepts(t) ==
  /\ batch[t] # <<>> /\ batch' = [batch EXCEPT ![t] = Tail(@)]
  /\ received' = Append(received, Head(batch[t]))
  /\ UNCHANGED <<logged, late, buffer, dropped>>
Drops(t) ==
  /\ batch[t] # <<>> /\ batch' = [batch EXCEPT ![t] = <<>>]
  /\ dropped' = dropped \cup Range(batch[t])
  /\ UNCHANGED <<logged, late, buffer, received>>
AcceptsAndDrops(t) ==
  /\ batch[t] # <<>> /\ batch' = [batch EXCEPT ![t] = <<>>]
  /\ received' = Append(received, Head(batch[t]))
  /\ dropped' = dropped \cup Range(Tail(batch[t]))
  /\ UNCHANGED <<logged, late, buffer>>

Stays == UNCHANGED <<logged, late, buffer, batch, received, dropped>>

ThreadEffect(t) ==
  \/ \E e \in Entries : Buffers(e) \/ Fills(t, e)
  \/ Takes(t) \/ Accepts(t) \/ Drops(t) \/ AcceptsAndDrops(t)

LEMMA ThreadEffects ==
  ASSUME TypeOK, Roles, NEW t \in Threads, ThreadStep(t)
  PROVE  Stays \/ ThreadEffect(t)
<1> USE SendersHold DEF Stays, bufferVars, sentVars
<1>1. ASSUME NEW e \in Entries, Log(t, e) PROVE Buffers(e) \/ Fills(t, e)
  BY <1>1 DEF Log, TakeAll, Buffers, Fills, Sending
<1>2. CASE CallFlush(t) \/ CallClose(t) \/ LoopAgain(t) \/ Wake(t)
  BY <1>2 DEF CallFlush, CallClose, LoopAgain, Wake
<1>3. CASE CheckClosed(t) \/ MarkClosed(t) \/ ShutClient(t)
  BY <1>3 DEF CheckClosed, MarkClosed, ShutClient
<1>4. CASE Flush(t)
  BY <1>4 DEF Flush, TakeAll, Takes, Sending, ThreadEffect
<1>5. CASE Post(t) \/ Login(t) \/ LoginOk(t) \/ StoreToken(t)
  BY <1>5 DEF Post, Login, LoginOk, StoreToken
<1>6. CASE PostOnClosed(t) \/ Unauthorized(t) \/ LoginFails(t)
  BY <1>6 DEF PostOnClosed, Unauthorized, LoginFails, Raise, Drops, Sending, ThreadEffect
<1>7. CASE PostOk(t)
  BY <1>7 DEF PostOk, Accepts, Sending, ThreadEffect
<1>8. CASE PostFails(t)
  BY <1>8 DEF PostFails, Raise, Drops, AcceptsAndDrops, Sending, ThreadEffect
<1> QED
  BY <1>1, <1>2, <1>3, <1>4, <1>5, <1>6, <1>7, <1>8 DEF ThreadStep, CallStep, SendStep, ThreadEffect

LEMMA StillEffects ==
  ASSUME Expire \/ Exit \/ Over \/ UNCHANGED vars
  PROVE  Stays
  BY DEF Expire, Exit, Over, vars, Stays, bufferVars, sentVars

--------------------------------------------------------------------------------
(* Sequences without repetition *)

LEMMA RangeOfAppend ==
  ASSUME NEW S, NEW q \in Seq(S), NEW e \in S
  PROVE  /\ Append(q, e) \in Seq(S) /\ Append(q, e) # <<>>
         /\ Range(Append(q, e)) = Range(q) \cup {e}
         /\ Injective(q) /\ e \notin Range(q) => Injective(Append(q, e))
<1>1. /\ Append(q, e) \in Seq(S) /\ Append(q, e) # <<>>
      /\ DOMAIN Append(q, e) = 1..(Len(q) + 1) /\ DOMAIN q = 1..Len(q) /\ Len(q) \in Nat
      /\ \A i \in 1..Len(q) : Append(q, e)[i] = q[i]
      /\ Append(q, e)[Len(q) + 1] = e
  OBVIOUS
<1> DEFINE r == Append(q, e)
<1> HIDE DEF r
<1>2. DOMAIN r = DOMAIN q \cup {Len(q) + 1} /\ Len(q) + 1 \notin DOMAIN q
      /\ (\A i \in DOMAIN q : r[i] = q[i]) /\ r[Len(q) + 1] = e
  BY <1>1 DEF r
<1>3. Range(r) = Range(q) \cup {e}
  BY <1>2 DEF Range
<1>4. Injective(q) /\ e \notin Range(q) => Injective(r)
  BY <1>2 DEF Injective, Range
<1> QED
  BY <1>1, <1>3, <1>4 DEF r

LEMMA RangeOfTail ==
  ASSUME NEW S, NEW q \in Seq(S), q # <<>>
  PROVE  /\ Head(q) \in S /\ Tail(q) \in Seq(S)
         /\ Range(q) = {Head(q)} \cup Range(Tail(q))
         /\ Injective(q) => Injective(Tail(q)) /\ Head(q) \notin Range(Tail(q))
<1>1. /\ Head(q) \in S /\ Tail(q) \in Seq(S) /\ Head(q) = q[1]
      /\ DOMAIN q = 1..Len(q) /\ Len(q) \in Nat \ {0} /\ DOMAIN Tail(q) = 1..(Len(q) - 1)
      /\ \A i \in 1..(Len(q) - 1) : Tail(q)[i] = q[i + 1]
  OBVIOUS
<1> DEFINE r == Tail(q)
           n == Len(q)
<1> HIDE DEF r, n
<1>2. /\ DOMAIN q = 1..n /\ n \in Nat \ {0} /\ DOMAIN r = 1..(n - 1)
      /\ \A i \in 1..(n - 1) : r[i] = q[i + 1]
  BY <1>1 DEF r, n
<1>3. Range(q) = {q[1]} \cup Range(r)
  <2>1. \A i \in 1..n : i = 1 \/ (i - 1 \in 1..(n - 1) /\ r[i - 1] = q[i])
    BY <1>2
  <2>2. \A i \in 1..(n - 1) : i + 1 \in 1..n /\ r[i] = q[i + 1]
    BY <1>2
  <2>3. ASSUME NEW x \in Range(q) PROVE x = q[1] \/ x \in Range(r)
    <3> PICK i \in 1..n : x = q[i]
      BY <1>2 DEF Range
    <3> QED
      BY <1>2, <2>1 DEF Range
  <2>4. ASSUME NEW x \in Range(r) PROVE x \in Range(q)
    <3> PICK i \in 1..(n - 1) : x = r[i]
      BY <1>2 DEF Range
    <3> QED
      BY <1>2, <2>2 DEF Range
  <2>5. q[1] \in Range(q)
    BY <1>2 DEF Range
  <2> QED
    BY <2>3, <2>4, <2>5
<1>4. ASSUME Injective(q) PROVE Injective(r) /\ q[1] \notin Range(r)
  <2>1. ASSUME NEW i \in 1..(n - 1), NEW j \in 1..(n - 1), r[i] = r[j] PROVE i = j
    <3>1. i + 1 \in 1..n /\ j + 1 \in 1..n /\ q[i + 1] = q[j + 1]
      BY <1>2, <2>1
    <3>2. i + 1 = j + 1
      BY <1>2, <1>4, <3>1 DEF Injective
    <3> QED
      BY <3>2
  <2>2. ASSUME NEW i \in 1..(n - 1), r[i] = q[1] PROVE FALSE
    <3>1. i + 1 \in 1..n /\ 1 \in 1..n /\ q[i + 1] = q[1]
      BY <1>2, <2>2
    <3>2. i + 1 = 1
      BY <1>2, <1>4, <3>1 DEF Injective
    <3> QED
      BY <3>2
  <2>3. Injective(r)
    BY <1>2, <2>1 DEF Injective
  <2> QED
    BY <1>2, <2>2, <2>3 DEF Range
<1> QED
  BY <1>1, <1>3, <1>4 DEF r

LEMMA EmptyIffNoLength ==
  ASSUME NEW S, NEW q \in Seq(S)
  PROVE  q = <<>> <=> Len(q) = 0
  OBVIOUS

LEMMA LastOfTail ==
  ASSUME NEW S, NEW q \in Seq(S), q # <<>>
  PROVE  /\ Len(q) > 1 => Tail(q) # <<>>
         /\ ~ (Len(q) > 1) => Tail(q) = <<>>
<1>1. Len(q) \in Nat \ {0} /\ Tail(q) \in Seq(S) /\ Len(Tail(q)) = Len(q) - 1
  OBVIOUS
<1>2. Tail(q) = <<>> <=> Len(Tail(q)) = 0
  BY <1>1, EmptyIffNoLength
<1> QED
  BY <1>1, <1>2

LEMMA EmptyRange == Range(<<>>) = {} /\ Injective(<<>>)
  BY DEF Range, Injective

--------------------------------------------------------------------------------
(* Types *)

DataType ==
  /\ logged \subseteq Entries /\ late \subseteq logged
  /\ buffer \in Seq(Entries) /\ batch \in [Threads -> Seq(Entries)]
  /\ received \in Seq(Entries) /\ dropped \subseteq Entries

LEMMA RangeType ==
  ASSUME NEW S, NEW q \in Seq(S)
  PROVE  Range(q) \subseteq S
  BY DEF Range

LEMMA NextDataType ==
  ASSUME TypeOK, Roles, [Next]_vars
  PROVE  DataType'
<1>0. DataType
  BY DEF TypeOK, DataType
<1> USE DEF DataType
<1>1. CASE Stays
  BY <1>0, <1>1 DEF Stays
<1>2. ASSUME NEW e \in Entries, Buffers(e) PROVE DataType'
  <2>1. Append(buffer, e) \in Seq(Entries)
    BY <1>0, RangeOfAppend
  <2> QED
    BY <1>0, <1>2, <2>1 DEF Buffers
<1>3. ASSUME NEW t \in Threads, NEW e \in Entries, Fills(t, e) PROVE DataType'
  <2>1. Append(buffer, e) \in Seq(Entries)
    BY <1>0, RangeOfAppend
  <2> QED
    BY <1>0, <1>3, <2>1 DEF Fills
<1>4. ASSUME NEW t \in Threads, Takes(t) PROVE DataType'
  BY <1>0, <1>4 DEF Takes
<1>5. ASSUME NEW t \in Threads, batch[t] # <<>>
      PROVE  /\ batch[t] \in Seq(Entries) /\ Tail(batch[t]) \in Seq(Entries)
             /\ Append(received, Head(batch[t])) \in Seq(Entries)
             /\ Range(batch[t]) \subseteq Entries /\ Range(Tail(batch[t])) \subseteq Entries
  <2>1. batch[t] \in Seq(Entries)
    BY <1>0
  <2>2. Tail(batch[t]) \in Seq(Entries) /\ Head(batch[t]) \in Entries
    BY <1>5, <2>1, RangeOfTail
  <2> QED
    BY <1>0, <2>1, <2>2, RangeOfAppend, RangeType
<1>6. ASSUME NEW t \in Threads, Accepts(t) PROVE DataType'
  BY <1>0, <1>5, <1>6 DEF Accepts
<1>7. ASSUME NEW t \in Threads, Drops(t) PROVE DataType'
  BY <1>0, <1>5, <1>7 DEF Drops
<1>8. ASSUME NEW t \in Threads, AcceptsAndDrops(t) PROVE DataType'
  BY <1>0, <1>5, <1>8 DEF AcceptsAndDrops
<1>9. ASSUME NEW t \in Threads, ThreadStep(t) PROVE DataType'
  BY <1>1, <1>2, <1>3, <1>4, <1>6, <1>7, <1>8, <1>9, ThreadEffects DEF ThreadEffect
<1> QED
  BY <1>1, <1>9, Steps, StillEffects

ControlType ==
  /\ logger \in {"open", "closed"} /\ client \in {"open", "closed"}
  /\ token \in Nat /\ accepted \in Nat /\ held \in [Threads -> Nat] /\ met \subseteq Nat
  /\ pc \in [Threads -> Places] /\ closing \subseteq AppThreads
  /\ process \in {"running", "exiting", "over"}
  /\ faults \in Nat

LEMMA NextControlType ==
  ASSUME TypeOK, Roles, [Next]_vars
  PROVE  ControlType'
<1>0. ControlType
  BY DEF TypeOK, ControlType
<1>1. {Caller(t) : t \in Threads} \cup {Sent(t) : t \in Threads} \subseteq Places
  BY DEF Caller, Sent, Places, Outside
<1> USE <1>0 DEF ControlType, GoTo, Raise, Fault, bufferVars, sharedVars, tokenVars, sentVars, runVars
<1>2. CASE UNCHANGED vars
  BY <1>2 DEF vars
<1>3. CASE Expire
  BY <1>3 DEF Expire
<1>3a. CASE Exit \/ Over
  BY <1>3a, ThreadsAssumption DEF Exit, Over, Places, Outside
<1>4. ASSUME NEW t \in Threads, \E e \in Entries : Log(t, e) PROVE ControlType'
  BY <1>4 DEF Log, TakeAll, Places, Sending
<1>5. ASSUME NEW t \in Threads, CallFlush(t) \/ CallClose(t) \/ LoopAgain(t) \/ Wake(t)
      PROVE  ControlType'
  BY <1>5 DEF CallFlush, CallClose, LoopAgain, Wake, Places, Outside
<1>6. ASSUME NEW t \in Threads, CheckClosed(t) \/ ShutClient(t) PROVE ControlType'
  BY <1>6 DEF CheckClosed, ShutClient, Places, Outside
<1>7. ASSUME NEW t \in Threads, MarkClosed(t) PROVE ControlType'
  <2>1. t \in AppThreads
    BY <1>7 DEF MarkClosed, Roles, Threads, Sending
  <2> QED
    BY <1>7, <2>1 DEF MarkClosed, Places
<1>8. ASSUME NEW t \in Threads, Flush(t) PROVE ControlType'
  BY <1>1, <1>8 DEF Flush, TakeAll, Places, Sending
<1>9. ASSUME NEW t \in Threads, Post(t) \/ Login(t) \/ LoginOk(t) \/ StoreToken(t) PROVE ControlType'
  BY <1>9 DEF Post, Login, LoginOk, StoreToken, Places, Sending
<1>10. ASSUME NEW t \in Threads, PostOnClosed(t) \/ Unauthorized(t) PROVE ControlType'
  BY <1>1, <1>10 DEF PostOnClosed, Unauthorized, Places, Sending
<1>11. ASSUME NEW t \in Threads, PostOk(t) PROVE ControlType'
  BY <1>1, <1>11 DEF PostOk, Places, Sending
<1>12. ASSUME NEW t \in Threads, PostFails(t) \/ LoginFails(t) PROVE ControlType'
  <2>1. faults' \in Nat /\ UNCHANGED <<logger, client, token, accepted, held, met, process>>
    BY <1>12 DEF PostFails, LoginFails
  <2>2. closing' = closing \ {t} /\ pc' = [pc EXCEPT ![t] = Caller(t)]
    BY <1>12 DEF PostFails, LoginFails
  <2> QED
    BY <1>1, <2>1, <2>2
<1> QED
  BY <1>2, <1>3, <1>3a, <1>4, <1>5, <1>6, <1>7, <1>8, <1>9, <1>10, <1>11, <1>12, Steps
     DEF ThreadStep, CallStep, SendStep

--------------------------------------------------------------------------------
(* A thread's step leaves the other threads where they are *)

OthersKept(t) ==
  /\ \A u \in Threads \ {t} : pc'[u] = pc[u] /\ batch'[u] = batch[u] /\ held'[u] = held[u]
  /\ closing \ {t} = closing' \ {t}
  /\ UNCHANGED <<accepted, met, process>>
  /\ token' = token \/ (pc[t] = "store" /\ token' = held[t])

LEMMA OneThreadSteps ==
  ASSUME TypeOK, NEW t \in Threads, ThreadStep(t)
  PROVE  OthersKept(t)
<1> USE DEF TypeOK, OthersKept, GoTo, Raise, sharedVars, tokenVars, runVars
<1>1. CASE \E e \in Entries : Log(t, e)
  BY <1>1 DEF Log, TakeAll
<1>2. CASE CallFlush(t) \/ CallClose(t) \/ LoopAgain(t) \/ Wake(t)
  BY <1>2 DEF CallFlush, CallClose, LoopAgain, Wake
<1>3. CASE CheckClosed(t) \/ MarkClosed(t) \/ ShutClient(t) \/ Flush(t)
  BY <1>3 DEF CheckClosed, MarkClosed, ShutClient, Flush, TakeAll
<1>4. CASE Post(t) \/ Login(t) \/ LoginOk(t) \/ StoreToken(t)
  BY <1>4 DEF Post, Login, LoginOk, StoreToken
<1>5. CASE PostOnClosed(t) \/ Unauthorized(t) \/ PostOk(t)
  BY <1>5 DEF PostOnClosed, Unauthorized, PostOk
<1>6. CASE PostFails(t) \/ LoginFails(t)
  BY <1>6 DEF PostFails, LoginFails
<1> QED
  BY <1>1, <1>2, <1>3, <1>4, <1>5, <1>6 DEF ThreadStep, CallStep, SendStep

LEMMA NextSendersHold ==
  ASSUME TypeOK, Roles, [Next]_vars
  PROVE  process' # "over" => \A u \in Threads : batch'[u] # <<>> <=> pc'[u] \in Sending
<1> DEFINE Fits(u) == batch'[u] # <<>> <=> pc'[u] \in Sending
<1>0. process # "over" => \A u \in Threads : batch[u] # <<>> <=> pc[u] \in Sending
  BY DEF TypeOK
<1>1. CASE UNCHANGED vars
  BY <1>0, <1>1 DEF vars, runVars
<1>2. CASE Over
  BY <1>2 DEF Over
<1>3. CASE Expire
  BY <1>0, <1>3 DEF Expire, runVars
<1>4. CASE Exit
  <2>1. Main \in Threads /\ pc[Main] = "idle"
    BY <1>4, ThreadsAssumption DEF Exit, Threads
  <2>2. \A u \in Threads : pc'[u] = pc[u] \/ (u = Main /\ pc'[u] = "check")
    BY <1>4 DEF Exit, GoTo, TypeOK
  <2> QED
    BY <1>0, <1>4, <2>1, <2>2 DEF Exit, Sending
<1>5. ASSUME NEW t \in Threads, ThreadStep(t), process' # "over"
      PROVE  \A u \in Threads : Fits(u)
  <2>0. OthersKept(t) /\ process # "over"
    BY <1>5, OneThreadSteps DEF OthersKept
  <2>1. \A u \in Threads \ {t} : Fits(u)
    BY <1>0, <2>0 DEF OthersKept
  <2>2. pc \in [Threads -> Places] /\ batch \in [Threads -> Seq(Entries)] /\ buffer \in Seq(Entries)
    BY DEF TypeOK
  <2>3. /\ pc[t] \in Sending => batch[t] # <<>>
        /\ pc[t] \notin Sending => batch[t] = <<>>
    BY <1>0, <2>0
  <2>4. Caller(t) \notin Sending /\ Sent(t) \notin Sending
    BY DEF Caller, Sent, Sending
  <2> DEFINE Free == batch'[t] = <<>> /\ pc'[t] \notin Sending
             Busy == batch'[t] # <<>> /\ pc'[t] \in Sending
  <2> USE <2>2, <2>3, <2>4 DEF GoTo
  <2>5. ASSUME NEW e \in Entries, Log(t, e) PROVE Free \/ Busy
    <3>1. Append(buffer, e) # <<>>
      BY RangeOfAppend
    <3> QED
      BY <2>5, <3>1 DEF Log, TakeAll, Sending
  <2>6. ASSUME CallFlush(t) \/ CallClose(t) \/ LoopAgain(t) \/ Wake(t) PROVE Free \/ Busy
    BY <2>6 DEF CallFlush, CallClose, LoopAgain, Wake, Sending
  <2>7. ASSUME CheckClosed(t) \/ MarkClosed(t) \/ ShutClient(t) PROVE Free \/ Busy
    BY <2>7 DEF CheckClosed, MarkClosed, ShutClient, Sending
  <2>8. ASSUME Flush(t) PROVE Free \/ Busy
    BY <2>8 DEF Flush, TakeAll, Sending
  <2>9. ASSUME Post(t) \/ Login(t) \/ LoginOk(t) \/ StoreToken(t) PROVE Free \/ Busy
    BY <2>9 DEF Post, Login, LoginOk, StoreToken, Sending
  <2>10. ASSUME PostOnClosed(t) \/ PostFails(t) \/ LoginFails(t) PROVE Free \/ Busy
    BY <2>10 DEF PostOnClosed, PostFails, LoginFails, Raise
  <2>11. ASSUME Unauthorized(t) PROVE Free \/ Busy
    BY <2>11 DEF Unauthorized, Raise, Sending
  <2>12. ASSUME PostOk(t) PROVE Free \/ Busy
    <3>1. batch[t] \in Seq(Entries) /\ batch[t] # <<>>
      BY <2>12 DEF PostOk, Sending
    <3>2. CASE Len(batch[t]) > 1
      <4>1. Tail(batch[t]) # <<>>
        BY <3>1, <3>2, LastOfTail
      <4> QED
        BY <2>12, <3>2, <4>1 DEF PostOk, Sending
    <3>3. CASE ~ (Len(batch[t]) > 1)
      <4>1. Tail(batch[t]) = <<>>
        BY <3>1, <3>3, LastOfTail
      <4> QED
        BY <2>12, <3>3, <4>1 DEF PostOk
    <3> QED
      BY <3>2, <3>3
  <2>13. Free \/ Busy
    BY <1>5, <2>5, <2>6, <2>7, <2>8, <2>9, <2>10, <2>11, <2>12 DEF ThreadStep, CallStep, SendStep
  <2> QED
    BY <2>1, <2>13
<1> QED
  BY <1>1, <1>2, <1>3, <1>4, <1>5, Steps

LEMMA NextTypeOK ==
  ASSUME TypeOK, Roles, [Next]_vars
  PROVE  TypeOK'
  BY NextDataType, NextControlType, NextSendersHold DEF TypeOK, DataType, ControlType

LEMMA NextRoles ==
  ASSUME TypeOK, Roles, [Next]_vars
  PROVE  Roles'
<1> USE DEF Roles
<1>1. CASE UNCHANGED vars
  BY <1>1 DEF vars, runVars
<1>2. CASE Expire \/ Exit \/ Over
  BY <1>2, ThreadsAssumption DEF Expire, Exit, Over, GoTo, TypeOK, Threads, runVars
<1>3. ASSUME NEW t \in Threads, ThreadStep(t) PROVE Roles'
  <2>1. OthersKept(t)
    BY <1>3, OneThreadSteps
  <2>2. pc[t] # "gone"
    BY <1>3 DEF ThreadStep, CallStep, SendStep, CallFlush, CallClose, Log, LoopAgain, Wake,
                CheckClosed, MarkClosed, ShutClient, Flush, Post, Login, PostOnClosed, PostOk, Unauthorized,
                PostFails, LoginOk, LoginFails, StoreToken
  <2>3. process' # "over"
    BY <2>1, <2>2 DEF OthersKept
  <2>4. ASSUME t \in Flushers PROVE pc'[t] \in {"loop", "sleep", "gone", "flush"} \cup Sending
    <3> USE <2>4 DEF GoTo, Raise, Sending, TypeOK
    <3>0. Caller(t) = "loop" /\ Sent(t) = "loop" /\ t \notin AppThreads
      BY ThreadsAssumption DEF Caller, Sent
    <3>1. CASE LoopAgain(t) \/ Wake(t) \/ Flush(t)
      BY <3>0, <3>1 DEF LoopAgain, Wake, Flush, TakeAll
    <3>2. CASE CheckClosed(t) \/ MarkClosed(t) \/ ShutClient(t)
      BY <3>2 DEF CheckClosed, MarkClosed, ShutClient
    <3>3. CASE Post(t) \/ Login(t) \/ LoginOk(t) \/ StoreToken(t) \/ PostOk(t)
      BY <3>0, <3>3 DEF Post, Login, LoginOk, StoreToken, PostOk
    <3>4. CASE PostOnClosed(t) \/ Unauthorized(t) \/ PostFails(t) \/ LoginFails(t)
      BY <3>0, <3>4 DEF PostOnClosed, Unauthorized, PostFails, LoginFails
    <3> QED
      BY <1>3, <3>0, <3>1, <3>2, <3>3, <3>4 DEF ThreadStep, CallStep, SendStep
  <2> QED
    BY <2>1, <2>3, <2>4 DEF OthersKept, Threads
<1> QED
  BY <1>1, <1>2, <1>3, Steps

--------------------------------------------------------------------------------
(* One expiry loses nothing *)

LEMMA NextRenewed ==
  ASSUME TypeOK, Renewed, [Next]_vars
  PROVE  Renewed'
<1> USE DEF Renewed, Fresh
<1>1. CASE UNCHANGED vars
  BY <1>1 DEF vars, tokenVars
<1>2. CASE Exit \/ Over
  BY <1>2, ThreadsAssumption DEF Exit, Over, GoTo, TypeOK, Threads, tokenVars
<1>3. CASE Expire
  <2>1. UNCHANGED <<pc, held, token>> /\ met \subseteq met'
    BY <1>3 DEF Expire
  <2>2. (\E t \in Threads : pc[t] \in Renewing) => accepted \in met'
    BY <1>3 DEF Expire
  <2> QED
    BY <2>1, <2>2 DEF Renewing
<1>4. ASSUME NEW t \in Threads, ThreadStep(t) PROVE Renewed'
  <2>0. OthersKept(t) /\ accepted' = accepted /\ met' = met
    BY <1>4, OneThreadSteps DEF OthersKept
  <2>1. Fresh(token) => Fresh(token)'
    BY <2>0 DEF OthersKept
  <2>2. /\ pc'[t] \in {"store", "repost"} => Fresh(held[t])'
        /\ pc'[t] = "again" => Fresh(token)'
    <3> USE <2>0 DEF GoTo, Raise, TypeOK, tokenVars
    <3>0. {Caller(t), Sent(t)} \cap {"store", "repost", "again"} = {}
      BY DEF Caller, Sent
    <3>1. CASE \E e \in Entries : Log(t, e)
      BY <3>1 DEF Log, TakeAll
    <3>2. CASE CallFlush(t) \/ CallClose(t) \/ LoopAgain(t) \/ Wake(t)
      BY <3>2 DEF CallFlush, CallClose, LoopAgain, Wake
    <3>3. CASE CheckClosed(t) \/ MarkClosed(t) \/ ShutClient(t) \/ Flush(t)
      BY <3>0, <3>3 DEF CheckClosed, MarkClosed, ShutClient, Flush, TakeAll
    <3>4. CASE Post(t) \/ Login(t) \/ LoginOk(t) \/ StoreToken(t)
      BY <3>4 DEF Post, Login, LoginOk, StoreToken
    <3>5. CASE PostOk(t) \/ PostOnClosed(t) \/ PostFails(t) \/ LoginFails(t)
      BY <3>0, <3>5 DEF PostOk, PostOnClosed, PostFails, LoginFails
    <3>6. CASE Unauthorized(t)
      <4>1. pc'[t] \in {"login", Caller(t)}
        BY <3>6 DEF Unauthorized
      <4> QED
        BY <3>0, <4>1
    <3> QED
      BY <1>4, <3>1, <3>2, <3>3, <3>4, <3>5, <3>6 DEF ThreadStep, CallStep, SendStep
  <2>3. ASSUME NEW u \in Threads \ {t}
        PROVE  /\ pc'[u] \in {"store", "repost"} => Fresh(held[u])'
               /\ pc'[u] = "again" => Fresh(token)'
    <3>1. pc[t] = "store" /\ token' = held[t] => Fresh(token)'
      BY <2>0
    <3> QED
      BY <2>0, <2>1, <3>1 DEF OthersKept
  <2> QED
    BY <2>2, <2>3
<1> QED
  BY <1>1, <1>2, <1>3, <1>4, Steps

LEMMA NextOneExpiry ==
  ASSUME TypeOK, Renewed, [Next]_vars, Credentials = "given", dropped' # dropped
  PROVE  \/ faults' # faults \/ client = "closed"
         \/ \E t \in Threads : pc[t] = "repost" /\ batch'[t] # batch[t] /\ held[t] \in met
<1> USE DEF TypeOK
<1>1. ~ (UNCHANGED vars \/ Expire \/ Exit \/ Over)
  BY DEF vars, Expire, Exit, Over, sentVars
<1>2. PICK t \in Threads : ThreadStep(t)
  BY <1>1, Steps
<1>3. PostOnClosed(t) \/ PostFails(t) \/ LoginFails(t) \/ Unauthorized(t)
  BY <1>2 DEF ThreadStep, CallStep, SendStep, CallFlush, CallClose, Log, LoopAgain, Wake, CheckClosed,
       MarkClosed, ShutClient, Flush, Post, Login, PostOk, LoginOk, StoreToken, sentVars
<1>4. CASE PostOnClosed(t)
  BY <1>4 DEF PostOnClosed
<1>5. CASE PostFails(t) \/ LoginFails(t)
  BY <1>5 DEF PostFails, LoginFails, Fault
<1>6. CASE Unauthorized(t)
  <2>1. held[t] \in Nat /\ accepted \in Nat /\ held[t] < accepted /\ pc[t] \in {"post", "repost"}
    BY <1>6 DEF Unauthorized
  <2>2. pc[t] = "repost" /\ Raise(t, batch[t])
    BY <1>6, <2>1 DEF Unauthorized
  <2>3. held[t] \in met
    BY <2>1, <2>2 DEF Renewed, Fresh
  <2>4. batch'[t] = <<>> /\ dropped' = dropped \cup Range(batch[t])
    BY <2>2 DEF Raise
  <2>5. batch[t] # <<>>
    BY <2>4, EmptyRange
  <2> QED
    BY <2>2, <2>3, <2>4, <2>5
<1> QED
  BY <1>3, <1>4, <1>5, <1>6

--------------------------------------------------------------------------------
(* Closing and the end of the process *)

\* The logger is not opened again, and only close() closes it.
LEMMA LoggerSteps ==
  ASSUME NEW t \in Threads, ThreadStep(t)
  PROVE  logger' = logger \/ (MarkClosed(t) /\ logger' = "closed")
  BY DEF ThreadStep, CallStep, SendStep, CallFlush, CallClose, Log, LoopAgain, Wake, CheckClosed,
         MarkClosed, ShutClient, Flush, Post, Login, PostOnClosed, PostOk, Unauthorized, PostFails, LoginOk,
         LoginFails, StoreToken, sharedVars

\* Where an idle thread and one about to flush can go.
LEMMA IdleSteps ==
  ASSUME NEW t \in Threads, ThreadStep(t)
  PROVE  /\ pc[t] = "idle" => process = "running"
         /\ pc[t] = "flush" => Flush(t)
         /\ pc[t] = "check" => CheckClosed(t)
         /\ pc[t] = "mark" => MarkClosed(t)
  BY DEF ThreadStep, CallStep, SendStep, CallFlush, CallClose, Log, LoopAgain, Wake, CheckClosed,
         MarkClosed, ShutClient, Flush, Post, Login, PostOnClosed, PostOk, Unauthorized, PostFails, LoginOk,
         LoginFails, StoreToken

\* What comes into the buffer of a closed logger is late.
LEMMA FlushedStays ==
  ASSUME TypeOK, Roles, logger = "closed", Flushed, [Next]_vars
  PROVE  Flushed'
<1> USE DEF Flushed
<1>1. CASE Stays
  BY <1>1 DEF Stays
<1>2. ASSUME NEW t \in Threads, ThreadStep(t) PROVE Flushed'
  <2>1. ASSUME NEW e \in Entries, Buffers(e) PROVE Flushed'
    <3>1. Range(buffer') = Range(buffer) \cup {e}
      BY <2>1, RangeOfAppend DEF Buffers, TypeOK
    <3> QED
      BY <2>1, <3>1 DEF Buffers
  <2>2. ASSUME NEW e \in Entries, Fills(t, e) PROVE Flushed'
    BY <2>2, EmptyRange DEF Fills
  <2>3. CASE Takes(t)
    BY <2>3, EmptyRange DEF Takes
  <2>4. CASE Accepts(t) \/ Drops(t) \/ AcceptsAndDrops(t)
    BY <2>4 DEF Accepts, Drops, AcceptsAndDrops
  <2> QED
    BY <1>1, <1>2, <2>1, <2>2, <2>3, <2>4, ThreadEffects DEF ThreadEffect
<1> QED
  BY <1>1, <1>2, Steps, StillEffects

LEMMA NextClosedIsFlushed ==
  ASSUME TypeOK, Roles, Exiting, ClosedIsFlushed, [Next]_vars
  PROVE  ClosedIsFlushed'
<1> SUFFICES ASSUME logger' = "closed"
             PROVE  (\E u \in closing' : pc'[u] = "flush") \/ Flushed'
  BY DEF ClosedIsFlushed
<1>1. CASE logger = "closed" /\ Flushed
  BY <1>1, FlushedStays
<1>2. ASSUME NEW u \in closing, pc[u] = "flush"
      PROVE  (\E v \in closing' : pc'[v] = "flush") \/ Flushed'
  <2>0. u \in AppThreads /\ u \in Threads
    BY DEF TypeOK, Threads
  <2>1. CASE UNCHANGED vars \/ Expire
    BY <1>2, <2>1 DEF vars, Expire
  <2>2. CASE Exit \/ Over
    BY <1>2, <2>0, <2>2 DEF Exit, Over, Exiting
  <2>3. ASSUME NEW t \in Threads, ThreadStep(t), t # u
        PROVE  u \in closing' /\ pc'[u] = "flush"
    BY <1>2, <2>0, <2>3, OneThreadSteps DEF OthersKept
  <2>4. ASSUME ThreadStep(u) PROVE Flushed'
    <3>1. Flush(u)
      BY <1>2, <2>0, <2>4, IdleSteps
    <3>2. buffer' = <<>>
      BY <3>1 DEF Flush, TakeAll
    <3> QED
      BY <3>2, EmptyRange DEF Flushed
  <2> QED
    BY <2>1, <2>2, <2>3, <2>4, Steps
<1>3. ASSUME logger # "closed" PROVE \E u \in closing' : pc'[u] = "flush"
  <2>1. ~ (Expire \/ Exit \/ Over \/ UNCHANGED vars)
    BY <1>3 DEF Expire, Exit, Over, vars, sharedVars
  <2>2. PICK t \in Threads : MarkClosed(t)
    BY <1>3, <2>1, Steps, LoggerSteps
  <2> QED
    BY <2>2 DEF MarkClosed, GoTo, TypeOK
<1> QED
  BY <1>1, <1>2, <1>3 DEF ClosedIsFlushed

LEMMA NextExiting ==
  ASSUME TypeOK, Roles, Exiting, [Next]_vars
  PROVE  Exiting'
<1> SUFFICES ASSUME process' = "exiting"
             PROVE  /\ \A t \in AppThreads \ {Main} : pc'[t] = "idle"
                    /\ Flushers # {} => pc'[Main] \in {"check", "mark"} \/ logger' = "closed"
  BY DEF Exiting
<1> USE DEF Exiting, TypeOK
<1>0. AppThreads \subseteq Threads /\ Main \in AppThreads
  BY ThreadsAssumption DEF Threads
<1>1. CASE UNCHANGED vars \/ Expire
  BY <1>1 DEF vars, Expire, sharedVars, runVars
<1>2. CASE Exit
  BY <1>0, <1>2 DEF Exit, GoTo
<1>3. CASE Over
  BY <1>3 DEF Over
<1>4. ASSUME NEW t \in Threads, ThreadStep(t), t # Main
      PROVE  /\ \A u \in AppThreads \ {Main} : pc'[u] = "idle"
             /\ Flushers # {} => pc'[Main] \in {"check", "mark"} \/ logger' = "closed"
  <2>1. OthersKept(t)
    BY <1>4, OneThreadSteps
  <2>2. process = "exiting" /\ pc'[Main] = pc[Main]
    BY <1>0, <1>4, <2>1 DEF OthersKept
  <2>3. t \notin AppThreads
    BY <1>4, <2>2, IdleSteps
  <2>4. logger = "closed" => logger' = "closed"
    BY <1>4, LoggerSteps
  <2> QED
    BY <1>0, <2>1, <2>2, <2>3, <2>4 DEF OthersKept
<1>5. ASSUME ThreadStep(Main)
      PROVE  /\ \A u \in AppThreads \ {Main} : pc'[u] = "idle"
             /\ Flushers # {} => pc'[Main] \in {"check", "mark"} \/ logger' = "closed"
  <2>1. OthersKept(Main) /\ process = "exiting"
    BY <1>0, <1>5, OneThreadSteps DEF OthersKept
  <2>2. CASE logger = "closed"
    BY <1>0, <1>5, <2>1, <2>2, LoggerSteps DEF OthersKept
  <2>3. CASE pc[Main] = "check"
    BY <1>0, <1>5, <2>1, <2>2, <2>3, IdleSteps DEF CheckClosed, GoTo, OthersKept
  <2>4. CASE pc[Main] = "mark"
    BY <1>0, <1>5, <2>1, <2>4, IdleSteps DEF MarkClosed, OthersKept
  <2>5. \A u \in AppThreads \ {Main} : pc'[u] = "idle"
    BY <1>0, <2>1 DEF OthersKept
  <2> QED
    BY <2>1, <2>2, <2>3, <2>4, <2>5
<1> QED
  BY <1>1, <1>2, <1>3, <1>4, <1>5, Steps

LEMMA NextExitLeaves ==
  ASSUME TypeOK, Roles, Exiting, ClosedIsFlushed, ExitLeavesOnlyLate, [Next]_vars
  PROVE  ExitLeavesOnlyLate'
<1> SUFFICES ASSUME process' = "over", Flushers # {} PROVE Flushed'
  BY DEF ExitLeavesOnlyLate, Flushed
<1>1. CASE UNCHANGED vars \/ Expire
  BY <1>1 DEF vars, Expire, ExitLeavesOnlyLate, Flushed, runVars, bufferVars
<1>2. CASE Exit
  BY <1>2 DEF Exit
<1>3. CASE Over
  <2>1. logger = "closed" /\ \A u \in AppThreads : pc[u] = "idle"
    BY <1>3 DEF Over, Exiting
  <2>2. Flushed
    BY <2>1 DEF ClosedIsFlushed, TypeOK
  <2> QED
    BY <1>3, <2>2 DEF Over, Flushed, bufferVars
<1>4. ASSUME NEW t \in Threads, ThreadStep(t) PROVE FALSE
  <2>1. process = "over" /\ pc[t] = "gone"
    BY <1>4, OneThreadSteps DEF OthersKept, Roles
  <2> QED
    BY <1>4, <2>1 DEF ThreadStep, CallStep, SendStep, CallFlush, CallClose, Log, LoopAgain, Wake,
         CheckClosed, MarkClosed, ShutClient, Flush, Post, Login, PostOnClosed, PostOk, Unauthorized,
         PostFails, LoginOk, LoginFails, StoreToken
<1> QED
  BY <1>1, <1>2, <1>3, <1>4, Steps

--------------------------------------------------------------------------------
(* Every entry in one place *)

LEMMA StaysOnce ==
  ASSUME Once, Stays
  PROVE  Once'
  BY DEF Once, Stays

LEMMA BuffersOnce ==
  ASSUME TypeOK, Once, NEW e \in Entries, Buffers(e)
  PROVE  Once'
<1>1. e \notin Range(buffer) \cup Range(received) \cup dropped
      /\ \A t \in Threads : e \notin Range(batch[t])
  BY DEF Buffers, Once
<1>2. Range(buffer') = Range(buffer) \cup {e} /\ Injective(buffer')
  BY <1>1, RangeOfAppend DEF Buffers, Once, TypeOK
<1>3. batch' = batch /\ received' = received /\ dropped' = dropped /\ logged' = logged \cup {e}
  BY DEF Buffers
<1>4. Range(buffer') \cap Range(received) = {} /\ dropped \cap (Range(buffer') \cup Range(received)) = {}
  BY <1>1, <1>2 DEF Once
<1>5. \A t \in Threads : Range(batch[t]) \cap (Range(buffer') \cup Range(received) \cup dropped) = {}
  BY <1>1, <1>2 DEF Once
<1>6. \A d \in Entries :
        d \in logged' <=> \/ d \in Range(buffer') \cup Range(received) \cup dropped
                          \/ \E t \in Threads : d \in Range(batch[t])
  BY <1>2, <1>3 DEF Once
<1> QED
  BY <1>2, <1>3, <1>4, <1>5, <1>6 DEF Once

LEMMA FillsOnce ==
  ASSUME TypeOK, Once, NEW t \in Threads, NEW e \in Entries, Fills(t, e)
  PROVE  Once'
<1>1. e \notin Range(buffer) \cup Range(received) \cup dropped
      /\ \A u \in Threads : e \notin Range(batch[u])
  BY DEF Fills, Once
<1>2. batch'[t] = Append(buffer, e) /\ \A u \in Threads \ {t} : batch'[u] = batch[u]
  BY DEF Fills, TypeOK
<1>3. Range(batch'[t]) = Range(buffer) \cup {e} /\ Injective(batch'[t])
  BY <1>1, <1>2, RangeOfAppend DEF Once, TypeOK
<1>4. Range(buffer)' = {} /\ Injective(buffer)' /\ Range(batch[t]) = {}
  BY EmptyRange DEF Fills
<1>5. \A u \in Threads : Injective(batch'[u])
  BY <1>2, <1>3 DEF Once
<1>6. \A u \in Threads : Range(batch'[u]) \cap (Range(received) \cup dropped) = {}
  <2>1. Range(batch'[t]) \cap (Range(received) \cup dropped) = {}
    <3>1. Range(buffer) \cap (Range(received) \cup dropped) = {}
      BY DEF Once
    <3> QED
      BY <1>1, <1>3, <3>1
  <2>2. ASSUME NEW u \in Threads \ {t} PROVE Range(batch'[u]) \cap (Range(received) \cup dropped) = {}
    <3>1. Range(batch[u]) \cap (Range(received) \cup dropped) = {}
      BY DEF Once
    <3> QED
      BY <1>2, <3>1
  <2> QED
    BY <2>1, <2>2
<1>7. \A u, v \in Threads : u # v => Range(batch'[u]) \cap Range(batch'[v]) = {}
  <2>1. ASSUME NEW u \in Threads \ {t} PROVE Range(batch'[t]) \cap Range(batch'[u]) = {}
    <3>1. Range(batch[u]) \cap Range(buffer) = {} /\ e \notin Range(batch[u])
      BY <1>1 DEF Once
    <3> QED
      BY <1>2, <1>3, <3>1
  <2>2. ASSUME NEW u \in Threads \ {t}, NEW v \in Threads \ {t}, u # v
        PROVE  Range(batch'[u]) \cap Range(batch'[v]) = {}
    <3>1. Range(batch[u]) \cap Range(batch[v]) = {}
      BY <2>2 DEF Once
    <3> QED
      BY <1>2, <3>1
  <2> QED
    BY <2>1, <2>2
<1>8. \A d \in Entries :
        d \in logged' <=> \/ d \in Range(received) \cup dropped
                          \/ \E u \in Threads : d \in Range(batch'[u])
  <2> SUFFICES ASSUME NEW d \in Entries
               PROVE  d \in logged' <=> \/ d \in Range(received) \cup dropped
                                        \/ \E u \in Threads : d \in Range(batch'[u])
    OBVIOUS
  <2>1. logged' = logged \cup {e}
    BY DEF Fills
  <2> QED
    BY <1>2, <1>3, <1>4, <2>1 DEF Once
<1> QED
  BY <1>4, <1>5, <1>6, <1>7, <1>8 DEF Fills, Once

LEMMA TakesOnce ==
  ASSUME TypeOK, Once, NEW t \in Threads, Takes(t)
  PROVE  Once'
<1>1. batch'[t] = buffer /\ \A u \in Threads \ {t} : batch'[u] = batch[u]
  BY DEF Takes, TypeOK
<1>2. Range(buffer)' = {} /\ Injective(buffer)' /\ Range(batch[t]) = {}
  BY EmptyRange DEF Takes
<1>3. \A u \in Threads : Injective(batch'[u])
  BY <1>1 DEF Once
<1>4. \A u \in Threads : Range(batch'[u]) \cap (Range(received) \cup dropped) = {}
  BY <1>1 DEF Once
<1>5. \A u, v \in Threads : u # v => Range(batch'[u]) \cap Range(batch'[v]) = {}
  BY <1>1 DEF Once
<1>6. \A d \in Entries :
        d \in logged <=> \/ d \in Range(received) \cup dropped
                         \/ \E u \in Threads : d \in Range(batch'[u])
  BY <1>1, <1>2 DEF Once
<1> QED
  BY <1>2, <1>3, <1>4, <1>5, <1>6 DEF Takes, Once

\* What a thread's batch loses goes to the API or is dropped, or both.
LEMMA LeavesOnce ==
  ASSUME TypeOK, Once, NEW t \in Threads, Accepts(t) \/ Drops(t) \/ AcceptsAndDrops(t)
  PROVE  Once'
<1> DEFINE first == Head(batch[t])
           rest == Tail(batch[t])
<1>1. batch[t] \in Seq(Entries) /\ batch[t] # <<>>
  BY DEF Accepts, Drops, AcceptsAndDrops, TypeOK
<1>2. /\ first \in Entries /\ Range(batch[t]) = {first} \cup Range(rest)
      /\ Injective(rest) /\ first \notin Range(rest)
  BY <1>1, RangeOfTail DEF Once
<1>3. first \notin Range(received)
  BY <1>2 DEF Once
<1>4. /\ Range(Append(received, first)) = Range(received) \cup {first}
      /\ Injective(Append(received, first))
  BY <1>2, <1>3, RangeOfAppend DEF Once, TypeOK
<1> HIDE DEF first, rest
<1>5. \A u \in Threads \ {t} : batch'[u] = batch[u]
  BY DEF Accepts, Drops, AcceptsAndDrops, TypeOK
<1>6. UNCHANGED <<logged, buffer>>
  BY DEF Accepts, Drops, AcceptsAndDrops
<1>7. \/ /\ Range(batch'[t]) = Range(rest) /\ Range(received)' = Range(received) \cup {first}
         /\ dropped' = dropped
      \/ /\ Range(batch'[t]) = {} /\ Range(received)' = Range(received)
         /\ dropped' = dropped \cup {first} \cup Range(rest)
      \/ /\ Range(batch'[t]) = {} /\ Range(received)' = Range(received) \cup {first}
         /\ dropped' = dropped \cup Range(rest)
  <2>1. CASE Accepts(t)
    BY <1>4, <2>1 DEF Accepts, TypeOK, first, rest
  <2>2. CASE Drops(t)
    BY <1>2, <2>2, EmptyRange DEF Drops, TypeOK
  <2>3. CASE AcceptsAndDrops(t)
    BY <1>4, <2>3, EmptyRange DEF AcceptsAndDrops, TypeOK, first, rest
  <2> QED
    BY <2>1, <2>2, <2>3
<1>8. Injective(received)' /\ Injective(batch'[t])
  <2>1. received' = received \/ received' = Append(received, first)
    BY DEF Accepts, Drops, AcceptsAndDrops, first
  <2>2. batch'[t] = rest \/ batch'[t] = <<>>
    BY DEF Accepts, Drops, AcceptsAndDrops, TypeOK, rest
  <2> QED
    BY <1>2, <1>4, <2>1, <2>2, EmptyRange DEF Once
<1>9. \A u \in Threads : Injective(batch'[u])
  BY <1>5, <1>8 DEF Once
<1>10. /\ Range(buffer) \cap Range(received)' = {}
       /\ dropped' \cap (Range(buffer) \cup Range(received)') = {}
  BY <1>2, <1>7 DEF Once
<1>11. \A u \in Threads : Range(batch'[u]) \cap (Range(buffer) \cup Range(received)' \cup dropped') = {}
  <2>1. \A u \in Threads \ {t} : Range(batch[u]) \cap ({first} \cup Range(rest)) = {}
    BY <1>2 DEF Once
  <2>2. \A u \in Threads \ {t} :
          Range(batch'[u]) \cap (Range(buffer) \cup Range(received)' \cup dropped') = {}
    BY <1>5, <1>7, <2>1 DEF Once
  <2>3. Range(batch'[t]) \cap (Range(buffer) \cup Range(received)' \cup dropped') = {}
    BY <1>2, <1>7 DEF Once
  <2> QED
    BY <2>2, <2>3
<1>12. \A u, v \in Threads : u # v => Range(batch'[u]) \cap Range(batch'[v]) = {}
  BY <1>2, <1>5, <1>7 DEF Once
<1>13. \A d \in Entries :
         d \in logged <=> \/ d \in Range(buffer) \cup Range(received)' \cup dropped'
                          \/ \E u \in Threads : d \in Range(batch'[u])
  BY <1>2, <1>5, <1>7 DEF Once
<1> QED
  BY <1>6, <1>8, <1>9, <1>10, <1>11, <1>12, <1>13 DEF Once

LEMMA NextOnce ==
  ASSUME TypeOK, Roles, Once, [Next]_vars
  PROVE  Once'
  BY Steps, StillEffects, ThreadEffects, StaysOnce, BuffersOnce, FillsOnce, TakesOnce, LeavesOnce
     DEF ThreadEffect

--------------------------------------------------------------------------------

LEMMA InitInv == Init => Inv
<1> SUFFICES ASSUME Init PROVE Inv
  OBVIOUS
<1> USE DEF Init
<1>1. \A t \in Threads : pc[t] \in {"idle", "loop"} /\ batch[t] = <<>>
  OBVIOUS
<1>2. TypeOK
  <2>1. \A t \in Threads : batch[t] # <<>> <=> pc[t] \in Sending
    BY <1>1 DEF Sending
  <2>2. pc \in [Threads -> Places]
    BY DEF Places, Outside
  <2> QED
    BY <2>1, <2>2 DEF TypeOK
<1>3. Roles
  BY ThreadsAssumption DEF Roles, Threads
<1>4. Once
  <2>1. Range(buffer) = {} /\ Range(received) = {} /\ \A t \in Threads : Range(batch[t]) = {}
    BY <1>1, EmptyRange
  <2>2. Injective(buffer) /\ Injective(received) /\ \A t \in Threads : Injective(batch[t])
    BY <1>1, EmptyRange
  <2> QED
    BY <2>1, <2>2 DEF Once
<1>5. Renewed
  BY <1>1 DEF Renewed
<1>6. ClosedIsFlushed /\ Exiting /\ ExitLeavesOnlyLate
  BY DEF ClosedIsFlushed, Exiting, ExitLeavesOnlyLate
<1> QED
  BY <1>2, <1>3, <1>4, <1>5, <1>6 DEF Inv

\* Inv is inductive: it holds of every state the client can reach.
THEOREM Invariant == Spec => []Inv
<1>1. Inv /\ [Next]_vars => Inv'
  BY NextTypeOK, NextRoles, NextOnce, NextRenewed, NextClosedIsFlushed, NextExiting,
     NextExitLeaves DEF Inv
<1> QED
  BY <1>1, InitInv, PTL DEF Spec

--------------------------------------------------------------------------------

\* Every variable keeps its type and a thread has a batch just while it sends, for any number of
\* threads, entries, failures and expiries.
THEOREM TypeCorrect == Spec => []TypeOK
<1>1. Inv => TypeOK
  BY DEF Inv
<1> QED
  BY <1>1, Invariant, PTL

\* With credentials, a step gives an entry up only when a call fails, on a closed client, or when the
\* request made again is refused for a token that expired since a login was answered.
THEOREM OneExpiryTheorem == Spec => OneExpiryLosesNothing
<1> DEFINE Excused ==
      \/ faults' # faults \/ client = "closed"
      \/ \E t \in Threads : pc[t] = "repost" /\ batch'[t] # batch[t] /\ held[t] \in met
<1>1. Inv /\ [Next]_vars => [Credentials = "given" /\ dropped' # dropped => Excused]_vars
  BY NextOneExpiry DEF Inv
<1> QED
  BY <1>1, Invariant, PTL DEF Spec, OneExpiryLosesNothing

\* Whatever close() calls raced before it, the atexit handler's close() leaves nothing in the buffer
\* but what was logged to a closed logger.
THEOREM ExitLeavesOnlyLateTheorem == Spec => []ExitLeavesOnlyLate
<1>1. Inv => ExitLeavesOnlyLate
  BY DEF Inv
<1> QED
  BY <1>1, Invariant, PTL

\* A sequence without repetitions has an element of its range at one index, and no other at any.
LEMMA IndicesOf ==
  ASSUME NEW q, Injective(q), NEW e
  PROVE  /\ e \notin Range(q) => {j \in DOMAIN q : q[j] = e} = {}
         /\ e \in Range(q) => \E i \in DOMAIN q : {j \in DOMAIN q : q[j] = e} = {i}
<1>1. e \notin Range(q) => {j \in DOMAIN q : q[j] = e} = {}
  BY DEF Range
<1>2. ASSUME e \in Range(q) PROVE \E i \in DOMAIN q : {j \in DOMAIN q : q[j] = e} = {i}
  <2>1. PICK i \in DOMAIN q : q[i] = e
    BY <1>2 DEF Range
  <2>2. {j \in DOMAIN q : q[j] = e} = {i}
    BY <2>1 DEF Injective
  <2> QED
    BY <2>2
<1> QED
  BY <1>1, <1>2

\* The parts of PlacesOf.
InBuffer(e) == {<<"buffer", i>> : i \in {j \in DOMAIN buffer : buffer[j] = e}}
InReceived(e) == {<<"received", i>> : i \in {j \in DOMAIN received : received[j] = e}}
InBatch(t, e) == {<<"batch", t, i>> : i \in {j \in DOMAIN batch[t] : batch[t][j] = e}}
InDropped(e) == {<<"dropped", d>> : d \in {e} \cap dropped}

LEMMA Parts ==
  ASSUME Once, NEW e \in Entries
  PROVE  /\ IF e \in Range(buffer) THEN \E p : InBuffer(e) = {p} ELSE InBuffer(e) = {}
         /\ IF e \in Range(received) THEN \E p : InReceived(e) = {p} ELSE InReceived(e) = {}
         /\ \A t \in Threads :
              IF e \in Range(batch[t]) THEN \E p : InBatch(t, e) = {p} ELSE InBatch(t, e) = {}
         /\ IF e \in dropped THEN \E p : InDropped(e) = {p} ELSE InDropped(e) = {}
<1>1. IF e \in Range(buffer) THEN \E p : InBuffer(e) = {p} ELSE InBuffer(e) = {}
  <2>1. CASE e \in Range(buffer)
    <3>1. PICK i : {j \in DOMAIN buffer : buffer[j] = e} = {i}
      BY <2>1, IndicesOf DEF Once
    <3>2. InBuffer(e) = {<<"buffer", i>>}
      BY <3>1 DEF InBuffer
    <3> QED
      BY <2>1, <3>2
  <2>2. CASE e \notin Range(buffer)
    <3>1. {j \in DOMAIN buffer : buffer[j] = e} = {}
      BY <2>2, IndicesOf DEF Once
    <3> QED
      BY <2>2, <3>1 DEF InBuffer
  <2> QED
    BY <2>1, <2>2
<1>2. IF e \in Range(received) THEN \E p : InReceived(e) = {p} ELSE InReceived(e) = {}
  <2>1. CASE e \in Range(received)
    <3>1. PICK i : {j \in DOMAIN received : received[j] = e} = {i}
      BY <2>1, IndicesOf DEF Once
    <3>2. InReceived(e) = {<<"received", i>>}
      BY <3>1 DEF InReceived
    <3> QED
      BY <2>1, <3>2
  <2>2. CASE e \notin Range(received)
    <3>1. {j \in DOMAIN received : received[j] = e} = {}
      BY <2>2, IndicesOf DEF Once
    <3> QED
      BY <2>2, <3>1 DEF InReceived
  <2> QED
    BY <2>1, <2>2
<1>3. ASSUME NEW t \in Threads
      PROVE  IF e \in Range(batch[t]) THEN \E p : InBatch(t, e) = {p} ELSE InBatch(t, e) = {}
  <2>1. CASE e \in Range(batch[t])
    <3>1. PICK i : {j \in DOMAIN batch[t] : batch[t][j] = e} = {i}
      BY <2>1, IndicesOf DEF Once
    <3>2. InBatch(t, e) = {<<"batch", t, i>>}
      BY <3>1 DEF InBatch
    <3> QED
      BY <2>1, <3>2
  <2>2. CASE e \notin Range(batch[t])
    <3>1. {j \in DOMAIN batch[t] : batch[t][j] = e} = {}
      BY <2>2, IndicesOf DEF Once
    <3> QED
      BY <2>2, <3>1 DEF InBatch
  <2> QED
    BY <2>1, <2>2
<1>4. IF e \in dropped THEN \E p : InDropped(e) = {p} ELSE InDropped(e) = {}
  BY DEF InDropped
<1> QED
  BY <1>1, <1>2, <1>3, <1>4

\* Every entry logged is in the buffer, in one thread's batch, with the API or given up with an
\* exception: in one of these places, and there once.
THEOREM OnePlaceTheorem == Spec => []OnePlace
<1>1. ASSUME Once, NEW e \in Entries PROVE Cardinality(PlacesOf(e)) = IF e \in logged THEN 1 ELSE 0
  <2> DEFINE InBatches == UNION {InBatch(t, e) : t \in Threads}
  <2>1. PlacesOf(e) = InBuffer(e) \cup InReceived(e) \cup InBatches \cup InDropped(e)
    BY DEF PlacesOf, InBuffer, InReceived, InBatch, InDropped
  <2>2. (\A t \in Threads : e \notin Range(batch[t])) => InBatches = {}
    BY <1>1, Parts
  <2>3. ASSUME NEW t \in Threads, e \in Range(batch[t]) PROVE \E p : InBatches = {p}
    <3>1. PICK p : InBatch(t, e) = {p}
      BY <1>1, <2>3, Parts
    <3>2. \A u \in Threads \ {t} : InBatch(u, e) = {}
      BY <1>1, <2>3, Parts DEF Once
    <3>3. InBatches = {p}
      BY <3>1, <3>2
    <3> QED
      BY <3>3
  <2> HIDE DEF InBatches
  <2>4. CASE e \notin logged
    <3>1. /\ e \notin Range(buffer) \cup Range(received) \cup dropped
          /\ \A t \in Threads : e \notin Range(batch[t])
      BY <1>1, <2>4 DEF Once
    <3>2. PlacesOf(e) = {}
      BY <1>1, <2>1, <2>2, <3>1, Parts
    <3> QED
      BY <2>4, <3>2, FS_EmptySet
  <2>5. ASSUME e \in logged PROVE \E p : PlacesOf(e) = {p}
    <3>1. CASE \E t \in Threads : e \in Range(batch[t])
      <4>1. e \notin Range(buffer) \cup Range(received) \cup dropped
        BY <1>1, <3>1 DEF Once
      <4>2. InBuffer(e) = {} /\ InReceived(e) = {} /\ InDropped(e) = {}
        BY <1>1, <4>1, Parts
      <4> QED
        BY <2>1, <2>3, <3>1, <4>2
    <3>2. CASE e \in Range(buffer)
      <4>1. e \notin Range(received) \cup dropped /\ \A t \in Threads : e \notin Range(batch[t])
        BY <1>1, <3>2 DEF Once
      <4> QED
        BY <1>1, <2>1, <2>2, <3>2, <4>1, Parts
    <3>3. CASE e \in Range(received)
      <4>1. e \notin Range(buffer) \cup dropped /\ \A t \in Threads : e \notin Range(batch[t])
        BY <1>1, <3>3 DEF Once
      <4> QED
        BY <1>1, <2>1, <2>2, <3>3, <4>1, Parts
    <3>4. CASE e \in dropped
      <4>1. /\ e \notin Range(buffer) \cup Range(received)
            /\ \A t \in Threads : e \notin Range(batch[t])
        BY <1>1, <3>4 DEF Once
      <4> QED
        BY <1>1, <2>1, <2>2, <3>4, <4>1, Parts
    <3> QED
      BY <1>1, <2>5, <3>1, <3>2, <3>3, <3>4 DEF Once
  <2> QED
    BY <2>4, <2>5, FS_Singleton
<1>2. Inv => OnePlace
  BY <1>1 DEF Inv, OnePlace
<1> QED
  BY <1>2, Invariant, PTL
================================================================================
