--------------------------- MODULE LogPipelineProofs ---------------------------
(***************************************************************************)
(* What holds of LogPipeline for any number of logs, workers, retries and  *)
(* failures.                                                               *)
(***************************************************************************)
EXTENDS LogPipeline, FiniteSetTheorems, TLAPS

\* A worker inside a batch stands within it.
CursorInBatch ==
  \A c \in Consumers : Working(c) => 1 <= cursor[c] /\ cursor[c] <= upto[c]

TypeInv == TypeOK /\ CursorInBatch

LEMMA AppendFacts ==
  ASSUME NEW S, NEW s \in Seq(S), NEW e \in S
  PROVE  /\ Append(s, e) \in Seq(S)
         /\ Len(Append(s, e)) = Len(s) + 1
         /\ Range(Append(s, e)) = Range(s) \cup {e}
         /\ \A i \in 1..Len(s) : Append(s, e)[i] = s[i]
         /\ Append(s, e)[Len(s) + 1] = e
  BY DEF Range

LEMMA SeqMonotone ==
  ASSUME NEW S, NEW T, S \subseteq T, NEW s \in Seq(S)
  PROVE  s \in Seq(T)
  OBVIOUS

LEMMA InitTypeInv == Init => TypeInv
<1> SUFFICES ASSUME Init PROVE TypeInv
  OBVIOUS
<1>1. spent \in [DOMAIN Budget -> Nat] /\ lost \in [Logs -> Nat]
  BY DEF Init, NoFaults
<1>2. stream \in Seq(Logs) /\ rows \in Seq(Ids) /\ aired \in Seq(Ids) /\ Len(stream) = 0
  BY DEF Init
<1>3. tries \in [Logs \cup Consumers -> 0..RedisRetries]
  BY CountsAssumption DEF Init
<1>4. CursorInBatch
  BY DEF Init, CursorInBatch, Working
<1>5. /\ request \in [Logs -> RequestStates]
      /\ pc \in [Consumers -> WorkerStates]
  BY DEF Init, RequestStates, WorkerStates
<1>6. /\ evicted \in 0..Len(stream) /\ group \in {"missing", "made"} /\ last \in 0..Len(stream)
      /\ pel \in [Consumers -> SUBSET Ids] /\ acked \subseteq Ids
      /\ cursor \in [Consumers -> Nat] /\ upto \in [Consumers -> 0..Len(stream)]
  BY <1>2 DEF Init
<1> QED
  BY <1>1, <1>2, <1>3, <1>4, <1>5, <1>6 DEF TypeInv, TypeOK

LEMMA TriesType ==
  ASSUME TypeOK, NEW x \in Logs \cup Consumers, Repeat(x) \/ GiveUpOn(x) \/ CallEnds(x)
  PROVE  tries' \in [Logs \cup Consumers -> 0..RedisRetries]
<1>1. tries \in [Logs \cup Consumers -> 0..RedisRetries]
  BY DEF TypeOK
<1> QED
  BY <1>1, CountsAssumption DEF Repeat, GiveUpOn, CallEnds

LEMMA FaultType ==
  ASSUME TypeOK, NEW kind \in DOMAIN Budget, Fault(kind)
  PROVE  spent' \in [DOMAIN Budget -> Nat]
  BY DEF TypeOK, Fault

--------------------------------------------------------------------------------
(***************************************************************************)
(* Every step has one of a dozen effects on the stream, the group, the     *)
(* workers and what they put out; the invariants are proved effect by      *)
(* effect.                                                                 *)
(***************************************************************************)

Posts ==
  /\ \E l \in Logs : Append1(l)
  /\ UNCHANGED <<groupVars, workVars, outVars>>

\* A worker outside a batch, or at its end, goes to a state outside a batch.
Moves(c) ==
  /\ \E label \in {"create", "poll", "dead"} : GoTo(c, label)
  /\ UNCHANGED <<streamVars, groupVars, outVars>>

Creates(c) ==
  /\ MakeGroup
  /\ \E label \in {"poll", "dead"} : GoTo(c, label)
  /\ UNCHANGED <<streamVars, outVars>>

Takes(c) ==
  /\ pc[c] = "poll" /\ Deliver(c)
  /\ pc' = [pc EXCEPT ![c] = "save"]
  /\ cursor' = [cursor EXCEPT ![c] = last + 1]
  /\ upto' = [upto EXCEPT ![c] = BatchEnd]
  /\ UNCHANGED <<streamVars, outVars>>

Misses(c) ==
  /\ pc[c] = "poll" /\ Deliver(c)
  /\ UNCHANGED workVars \/ GoTo(c, "dead")
  /\ UNCHANGED <<streamVars, outVars>>

Inserts(c) ==
  /\ pc[c] = "save" /\ GoTo(c, "commit")
  /\ UNCHANGED <<streamVars, groupVars, outVars>>

Drops(c) ==
  /\ Working(c) /\ Advance(c)
  /\ UNCHANGED <<streamVars, groupVars, outVars>>

Stores(c) ==
  /\ pc[c] = "commit" /\ InsertRow(c)
  /\ GoTo(c, "publish") \/ Advance(c)
  /\ UNCHANGED <<streamVars, groupVars>>

Airs(c) ==
  /\ pc[c] = "publish" /\ Broadcast(c)
  /\ UNCHANGED workVars \/ GoTo(c, "ack") \/ Advance(c)
  /\ UNCHANGED <<streamVars, groupVars>>

Acks(c) ==
  /\ pc[c] = "ack" /\ Acknowledge(c) /\ Advance(c)
  /\ UNCHANGED streamVars

Loses ==
  /\ evicted' = Len(stream) /\ group' = "missing" /\ pel' = [c \in Consumers |-> {}]
  /\ UNCHANGED <<stream, lost, last, workVars, outVars>>

Quiet == UNCHANGED <<streamVars, groupVars, workVars, outVars>>

WorkerEffect(c) ==
  Moves(c) \/ Creates(c) \/ Takes(c) \/ Misses(c) \/ Inserts(c) \/ Drops(c) \/ Stores(c)
    \/ Airs(c) \/ Acks(c)

LEMMA Effects ==
  ASSUME TypeOK, [Next]_vars
  PROVE  Quiet \/ Posts \/ Loses \/ \E c \in Consumers : WorkerEffect(c)
<1>1. ASSUME NEW l \in Logs, ApiStep(l) PROVE Quiet \/ Posts
  <2>1. ASSUME Admit(l) \/ Refuse(l) \/ LookupFails(l) \/ XaddFails(l) PROVE Quiet
    BY <2>1 DEF Admit, Refuse, LookupFails, XaddFails, Quiet
  <2>2. ASSUME XaddOk(l) \/ XaddReplyLost(l) PROVE Posts
    BY <2>2 DEF XaddOk, XaddReplyLost, Posts
  <2> QED
    BY <1>1, <2>1, <2>2 DEF ApiStep
<1>2. ASSUME NEW c \in Consumers, Start(c) \/ GroupStep(c) \/ EventStep(c) \/ Crash(c)
      PROVE  WorkerEffect(c)
  <2>1. ASSUME Start(c) \/ ReadNoGroup(c) \/ ReadFails(c) \/ Crash(c) PROVE Moves(c)
    BY <2>1 DEF Start, ReadNoGroup, ReadFails, Crash, Moves
  <2>2. ASSUME CreateGroup(c) \/ CreateFails(c) PROVE Creates(c) \/ Moves(c)
    BY <2>2 DEF CreateGroup, CreateFails, Creates, Moves
  <2>3. ASSUME Read(c) PROVE Takes(c)
    BY <2>3 DEF Read, Takes
  <2>4. ASSUME ReadReplyLost(c) PROVE Misses(c)
    BY <2>4 DEF ReadReplyLost, Misses
  <2>5. ASSUME Save(c) PROVE Inserts(c)
    BY <2>5 DEF Save, Inserts
  <2>6. ASSUME SaveFails(c) \/ PublishFails(c) PROVE Drops(c)
    BY <2>6 DEF SaveFails, PublishFails, Drops, Working
  <2>7. ASSUME Commit(c) \/ CommitFails(c) PROVE Stores(c) \/ Drops(c)
    BY <2>7 DEF Commit, CommitFails, Stores, Drops, Working
  <2>8. ASSUME Publish(c) \/ PublishReplyLost(c) PROVE Airs(c)
    BY <2>8 DEF Publish, PublishReplyLost, Airs
  <2>9. ASSUME Ack(c) \/ AckFails(c) PROVE Acks(c) \/ Drops(c)
    BY <2>9 DEF Ack, AckFails, Acks, Drops, Working
  <2> QED
    BY <1>2, <2>1, <2>2, <2>3, <2>4, <2>5, <2>6, <2>7, <2>8, <2>9
       DEF GroupStep, EventStep, WorkerEffect
<1>3. ASSUME LoseKey PROVE Loses
  BY <1>3 DEF LoseKey, Loses
<1>4. ASSUME UNCHANGED vars PROVE Quiet
  BY <1>4 DEF vars, Quiet, streamVars, groupVars, workVars, outVars
<1> QED
  BY <1>1, <1>2, <1>3, <1>4 DEF Next

--------------------------------------------------------------------------------
(* Types *)

LEMMA RequestTypes ==
  ASSUME TypeOK, [Next]_vars
  PROVE  /\ request' \in [Logs -> RequestStates]
         /\ tries' \in [Logs \cup Consumers -> 0..RedisRetries]
         /\ spent' \in [DOMAIN Budget -> Nat]
         /\ lost' \in [Logs -> Nat]
<1> DEFINE Good == /\ request' \in [Logs -> RequestStates]
                   /\ tries' \in [Logs \cup Consumers -> 0..RedisRetries]
                   /\ spent' \in [DOMAIN Budget -> Nat]
                   /\ lost' \in [Logs -> Nat]
<1>1. {"redis", "db", "crash", "key"} \subseteq DOMAIN Budget
  BY DEF Budget
<1>2. ASSUME NEW l \in Logs, ApiStep(l) PROVE Good
  <2>1. request' \in [Logs -> RequestStates]
    BY <1>2 DEF TypeOK, ApiStep, Admit, Refuse, LookupFails, XaddOk, XaddReplyLost, XaddFails,
       Answer, RequestStates
  <2>2. tries' \in [Logs \cup Consumers -> 0..RedisRetries]
    BY <1>2, TriesType DEF TypeOK, ApiStep, Admit, Refuse, LookupFails, XaddOk, XaddReplyLost,
       XaddFails
  <2>3. spent' \in [DOMAIN Budget -> Nat]
    BY <1>1, <1>2, FaultType DEF TypeOK, ApiStep, Admit, Refuse, LookupFails, XaddOk,
       XaddReplyLost, XaddFails
  <2>4. lost' \in [Logs -> Nat]
    <3>1. lost' = lost \/ lost' = [lost EXCEPT ![l] = @ + 1]
      BY <1>2 DEF ApiStep, Admit, Refuse, LookupFails, XaddOk, XaddReplyLost, XaddFails, streamVars
    <3>2. lost \in [Logs -> Nat]
      BY DEF TypeOK
    <3> QED
      BY <3>1, <3>2
  <2> QED
    BY <2>1, <2>2, <2>3, <2>4
<1>3. ASSUME NEW c \in Consumers, Start(c) \/ GroupStep(c) \/ EventStep(c) \/ Crash(c)
      PROVE  Good
  <2> USE DEF GroupStep, EventStep, Start, CreateGroup, CreateFails, Read, ReadReplyLost,
              ReadNoGroup, ReadFails, Save, SaveFails, Commit, CommitFails, Publish,
              PublishReplyLost, PublishFails, Ack, AckFails, Crash
  <2>1. request' \in [Logs -> RequestStates]
    BY <1>3 DEF TypeOK
  <2>2. tries' \in [Logs \cup Consumers -> 0..RedisRetries]
    BY <1>3, TriesType DEF TypeOK
  <2>3. spent' \in [DOMAIN Budget -> Nat]
    BY <1>1, <1>3, FaultType DEF TypeOK
  <2>4. lost' \in [Logs -> Nat]
    BY <1>3 DEF TypeOK, streamVars
  <2> QED
    BY <2>1, <2>2, <2>3, <2>4
<1>4. ASSUME LoseKey PROVE Good
  BY <1>1, <1>4, FaultType DEF LoseKey, TypeOK
<1>5. ASSUME UNCHANGED vars PROVE Good
  BY <1>5 DEF vars, TypeOK
<1> QED
  BY <1>2, <1>3, <1>4, <1>5 DEF Next

\* The part of TypeOK about the stream, the group, the workers and their output.
PipelineType ==
  /\ stream \in Seq(Logs)
  /\ evicted \in 0..Len(stream)
  /\ group \in {"missing", "made"}
  /\ last \in 0..Len(stream)
  /\ pel \in [Consumers -> SUBSET Ids]
  /\ pc \in [Consumers -> WorkerStates]
  /\ cursor \in [Consumers -> Nat]
  /\ upto \in [Consumers -> 0..Len(stream)]
  /\ rows \in Seq(Ids)
  /\ aired \in Seq(Ids)
  /\ acked \subseteq Ids
  /\ CursorInBatch

LEMMA PipelineTypes == TypeInv /\ [Next]_vars => PipelineType'
<1> SUFFICES ASSUME TypeInv, [Next]_vars PROVE PipelineType'
  OBVIOUS
<1>0. PipelineType
  BY DEF TypeInv, TypeOK, PipelineType
<1>1. CASE Quiet
  BY <1>0, <1>1 DEF Quiet, streamVars, groupVars, workVars, outVars, PipelineType, CursorInBatch,
     Working, Ids
<1>2. CASE Posts
  <2> USE <1>0, <1>2 DEF Posts, Append1, groupVars, workVars, outVars, PipelineType
  <2>1. stream' \in Seq(Logs) /\ Len(stream') = Len(stream) + 1
    BY AppendFacts
  <2>2. Ids \subseteq Ids'
    BY <2>1 DEF Ids
  <2>3. rows' \in Seq(Ids') /\ aired' \in Seq(Ids')
    BY <2>2, SeqMonotone
  <2>4. CursorInBatch'
    BY DEF CursorInBatch, Working
  <2> QED
    BY <2>1, <2>2, <2>3, <2>4
<1>3. CASE Loses
  BY <1>0, <1>3 DEF Loses, workVars, outVars, PipelineType, CursorInBatch, Working, Ids
<1>4. ASSUME NEW c \in Consumers, WorkerEffect(c) PROVE PipelineType'
  <2> USE <1>0 DEF PipelineType, streamVars, groupVars, workVars, outVars
  <2>1. Working(c) => cursor[c] \in Ids
    BY DEF CursorInBatch, Ids
  <2>2. CASE Moves(c)
    BY <2>2 DEF Moves, GoTo, WorkerStates, CursorInBatch, Working, Ids
  <2>3. CASE Creates(c)
    BY <2>3 DEF Creates, MakeGroup, High, Grouped, GoTo, WorkerStates, CursorInBatch, Working, Ids
  <2>4. CASE Takes(c)
    <3> USE <2>4, CountsAssumption DEF Takes, Deliver, BatchEnd
    <3>1. last' \in 0..Len(stream) /\ upto' \in [Consumers -> 0..Len(stream)]
      OBVIOUS
    <3>2. pel' \in [Consumers -> SUBSET Ids]
      BY DEF Ids
    <3>3. CursorInBatch'
      BY DEF CursorInBatch, Working
    <3>4. pc' \in [Consumers -> WorkerStates] /\ cursor' \in [Consumers -> Nat]
      BY DEF WorkerStates
    <3> QED
      BY <3>1, <3>2, <3>3, <3>4 DEF Ids
  <2>5. CASE Misses(c)
    <3> USE <2>5, CountsAssumption DEF Misses, Deliver, BatchEnd
    <3>1. last' \in 0..Len(stream)
      OBVIOUS
    <3>2. pel' \in [Consumers -> SUBSET Ids]
      BY DEF Ids
    <3>3. pc' \in [Consumers -> WorkerStates] /\ UNCHANGED <<cursor, upto>> /\ CursorInBatch'
      BY DEF GoTo, WorkerStates, CursorInBatch, Working
    <3> QED
      BY <3>1, <3>2, <3>3 DEF Ids
  <2>6. CASE Inserts(c)
    BY <2>6 DEF Inserts, GoTo, WorkerStates, CursorInBatch, Working, Ids
  <2>7. ASSUME Working(c), Advance(c)
        PROVE  /\ pc' \in [Consumers -> WorkerStates] /\ cursor' \in [Consumers -> Nat]
               /\ upto' = upto /\ CursorInBatch'
    BY <2>7 DEF Advance, WorkerStates, CursorInBatch, Working
  <2>8. CASE Drops(c)
    BY <2>7, <2>8 DEF Drops, Ids
  <2>9. CASE Stores(c)
    <3>1. rows' \in Seq(Ids)
      BY <2>1, <2>9, AppendFacts DEF Stores, InsertRow, Working
    <3>2. /\ pc' \in [Consumers -> WorkerStates] /\ cursor' \in [Consumers -> Nat]
          /\ upto' = upto /\ CursorInBatch'
      BY <2>7, <2>9 DEF Stores, GoTo, WorkerStates, CursorInBatch, Working
    <3> QED
      BY <3>1, <3>2, <2>9 DEF Stores, InsertRow, Ids
  <2>10. CASE Airs(c)
    <3>1. aired' \in Seq(Ids)
      BY <2>1, <2>10, AppendFacts DEF Airs, Broadcast, Working
    <3>2. /\ pc' \in [Consumers -> WorkerStates] /\ cursor' \in [Consumers -> Nat]
          /\ upto' = upto /\ CursorInBatch'
      BY <2>7, <2>10 DEF Airs, GoTo, WorkerStates, CursorInBatch, Working
    <3> QED
      BY <3>1, <3>2, <2>10 DEF Airs, Broadcast, Ids
  <2>11. CASE Acks(c)
    BY <2>1, <2>7, <2>11 DEF Acks, Acknowledge, Working, Ids
  <2> QED
    BY <1>4, <2>2, <2>3, <2>4, <2>5, <2>6, <2>8, <2>9, <2>10, <2>11 DEF WorkerEffect
<1> QED
  BY <1>1, <1>2, <1>3, <1>4, Effects DEF TypeInv

LEMMA NextTypeInv == TypeInv /\ [Next]_vars => TypeInv'
  BY RequestTypes, PipelineTypes DEF TypeInv, TypeOK, PipelineType

\* Whatever is read, lost, repeated or killed, every variable keeps its type; a worker in a
\* batch stands within the entries it was given.
THEOREM TypeCorrect == Spec => []TypeOK
<1>1. Init => TypeInv
  BY InitTypeInv
<1>2. TypeInv /\ [Next]_vars => TypeInv'
  BY NextTypeInv
<1>3. TypeInv => TypeOK
  BY DEF TypeInv
<1> QED
  BY <1>1, <1>2, <1>3, PTL DEF Spec

--------------------------------------------------------------------------------
(***************************************************************************)
(* The inductive invariant: nothing is held, pending or stored that was    *)
(* not delivered, no two workers hold the same entry, and a worker's place *)
(* in process_event tells which entries of its batch have rows.            *)
(***************************************************************************)

OnlyDelivered ==
  /\ evicted <= High
  /\ \A c \in Consumers : Working(c) => upto[c] <= High
  /\ \A c \in Consumers : \A e \in pel[c] : evicted < e /\ e <= High
  /\ \A e \in Range(rows) : e <= High

RowsFitWorkers ==
  \A c \in Consumers :
    /\ \A e \in ToStore(c) : e \notin Range(rows)
    /\ pc[c] \in {"publish", "ack"} => cursor[c] \in Range(rows)
    /\ pc[c] = "ack" => cursor[c] \in Range(aired)

IInv ==
  /\ TypeInv
  /\ OnlyDelivered
  /\ NoSharedEntry
  /\ RowsFitWorkers
  /\ OneRowPerEntry
  /\ AiredIsStored
  /\ AckedIsStoredAndAired
  /\ NothingSkipped

LEMMA InitIInv == Init => IInv
<1> SUFFICES ASSUME Init PROVE IInv
  OBVIOUS
<1>1. TypeInv
  BY InitTypeInv
<1>2. High = 0 /\ Range(rows) = {} /\ Range(aired) = {}
  BY DEF Init, High, Grouped, Range
<1>3. OnlyDelivered /\ NoSharedEntry /\ RowsFitWorkers
  BY <1>2 DEF Init, OnlyDelivered, NoSharedEntry, RowsFitWorkers, Holds, ToStore, Working, Grouped
<1>4. OneRowPerEntry /\ AiredIsStored /\ AckedIsStoredAndAired /\ NothingSkipped
  BY <1>2 DEF Init, OneRowPerEntry, IsInjective, AiredIsStored, AckedIsStoredAndAired,
     NothingSkipped
<1> QED
  BY <1>1, <1>3, <1>4 DEF IInv

LEMMA HighType == TypeInv => High \in Nat /\ High <= Len(stream)
  BY DEF TypeInv, TypeOK, High, Grouped

LEMMA InjectiveAppend ==
  ASSUME NEW S, NEW s \in Seq(S), NEW e \in S, IsInjective(s), e \notin Range(s)
  PROVE  IsInjective(Append(s, e))
<1>1. \A i \in 1..Len(s) : s[i] # e
  BY DEF Range
<1>2. /\ DOMAIN Append(s, e) = 1..(Len(s) + 1)
      /\ \A i \in 1..Len(s) : Append(s, e)[i] = s[i]
      /\ Append(s, e)[Len(s) + 1] = e
  BY AppendFacts
<1>3. SUFFICES ASSUME NEW i \in 1..(Len(s) + 1), NEW j \in 1..(Len(s) + 1),
                      Append(s, e)[i] = Append(s, e)[j]
               PROVE  i = j
  BY <1>2 DEF IsInjective
<1>4. \A m, n \in 1..Len(s) : s[m] = s[n] => m = n
  BY DEF IsInjective
<1> QED
  BY <1>1, <1>2, <1>3, <1>4

LEMMA Numbers ==
  ASSUME TypeInv
  PROVE  /\ High \in Nat /\ High <= Len(stream) /\ Len(stream) \in Nat
         /\ last \in Nat /\ evicted \in Nat
         /\ \A c \in Consumers : upto[c] \in Nat /\ cursor[c] \in Nat
         /\ \A c \in Consumers : \A e \in pel[c] : e \in Nat
         /\ \A c \in Consumers : \A e \in Holds(c) : e \in Nat
         /\ \A e \in Range(rows) : e \in Nat
<1> USE DEF TypeInv, TypeOK
<1>1. Len(stream) \in Nat
  OBVIOUS
<1>2. /\ High \in Nat /\ High <= Len(stream) /\ last \in Nat /\ evicted \in Nat
  BY <1>1, HighType
<1>3. \A c \in Consumers : upto[c] \in Nat /\ cursor[c] \in Nat
  BY <1>1
<1>4. \A c \in Consumers : \A e \in pel[c] : e \in Nat
  BY <1>1 DEF Ids
<1>5. \A c \in Consumers : \A e \in Holds(c) : e \in Nat
  BY <1>3 DEF Holds
<1>6. \A e \in Range(rows) : e \in Nat
  <2>1. \A i \in DOMAIN rows : rows[i] \in Ids
    OBVIOUS
  <2>2. \A e \in Ids : e \in Nat
    BY <1>1 DEF Ids
  <2> QED
    BY <2>1, <2>2 DEF Range
<1> QED
  BY <1>1, <1>2, <1>3, <1>4, <1>5, <1>6

\* What the effects do to the group's position and the table.
LEMMA HighStep ==
  ASSUME IInv, Quiet \/ Posts \/ Loses \/ \E c \in Consumers : WorkerEffect(c)
  PROVE  High <= High' /\ High' \in Nat
<1> USE CountsAssumption DEF IInv, TypeInv, TypeOK, OnlyDelivered, High, Grouped
<1>1. CASE Quiet
  BY <1>1 DEF Quiet, streamVars, groupVars
<1>2. CASE Posts
  BY <1>2 DEF Posts, Append1, groupVars
<1>3. CASE Loses
  BY <1>3 DEF Loses
<1>4. ASSUME NEW c \in Consumers, WorkerEffect(c) PROVE High <= High' /\ High' \in Nat
  <2>1. CASE Creates(c)
    BY <2>1 DEF Creates, MakeGroup, streamVars
  <2>2. CASE Takes(c) \/ Misses(c)
    BY <2>2 DEF Takes, Misses, Deliver, BatchEnd, streamVars
  <2>3. CASE Acks(c)
    BY <2>3 DEF Acks, Acknowledge, streamVars
  <2>4. CASE Moves(c) \/ Inserts(c) \/ Drops(c) \/ Stores(c) \/ Airs(c)
    BY <2>4 DEF Moves, Inserts, Drops, Stores, Airs, streamVars, groupVars
  <2> QED
    BY <1>4, <2>1, <2>2, <2>3, <2>4 DEF WorkerEffect
<1> QED
  BY <1>1, <1>2, <1>3, <1>4

\* The entries a worker would take next were delivered to nobody.
LEMMA BatchIsNew ==
  ASSUME IInv, NEW c \in Consumers, Deliver(c)
  PROVE  /\ High = last /\ last < BatchEnd /\ BatchEnd <= Len(stream) /\ BatchEnd \in Nat
         /\ evicted <= last
         /\ Grouped' /\ (evicted' = evicted => High' = BatchEnd)
  BY CountsAssumption DEF IInv, TypeInv, TypeOK, OnlyDelivered, Deliver, BatchEnd, High, Grouped

LEMMA OnlyDeliveredStep ==
  ASSUME IInv, TypeInv', [Next]_vars
  PROVE  OnlyDelivered'
<1>0. High <= High' /\ High' \in Nat /\ High \in Nat
  BY HighStep, HighType, Effects DEF IInv, TypeInv
<1> USE <1>0 DEF IInv, OnlyDelivered
<1>1. CASE Quiet
  BY <1>1 DEF Quiet, streamVars, groupVars, workVars, outVars, High, Grouped, Working
<1>2. CASE Posts
  BY <1>2 DEF Posts, Append1, groupVars, workVars, outVars, High, Grouped, Working
<1>3. CASE Loses
  <2>1. evicted' = High'
    BY <1>3 DEF Loses, High, Grouped
  <2>2. /\ \A e \in Range(rows) : e \in Nat
        /\ \A c \in Consumers : upto[c] \in Nat
    BY Numbers
  <2>3. evicted' <= High'
    BY <1>0, <2>1
  <2>4. \A c \in Consumers : pel'[c] = {}
    BY <1>3 DEF Loses
  <2>5. UNCHANGED <<upto, pc, rows>>
    BY <1>3 DEF Loses, workVars, outVars
  <2> QED
    BY <2>2, <2>3, <2>4, <2>5 DEF Working
<1>4. ASSUME NEW c \in Consumers, WorkerEffect(c) PROVE OnlyDelivered'
  <2>1. CASE Moves(c)
    BY <2>1 DEF Moves, GoTo, streamVars, groupVars, outVars, High, Grouped, Working, TypeInv, TypeOK
  <2>2. CASE Creates(c)
    <3>1. High' = High
      BY <2>2 DEF Creates, MakeGroup, High, Grouped
    <3> QED
      BY <2>2, <3>1 DEF Creates, MakeGroup, GoTo, streamVars, outVars, Working, TypeInv, TypeOK
  <2>3. CASE Takes(c)
    <3>1. /\ evicted' = evicted /\ rows' = rows /\ High' = BatchEnd /\ High = last
          /\ BatchEnd \in Nat /\ last < BatchEnd /\ evicted <= last
      BY <2>3, BatchIsNew DEF Takes, streamVars, outVars
    <3>2. \A d \in Consumers : Working(d)' => upto'[d] <= High'
      <4>1. \A d \in Consumers : Working(d)' => Working(d) \/ upto'[d] = BatchEnd
        BY <2>3 DEF Takes, Working, TypeInv, TypeOK
      <4>2. \A d \in Consumers : upto'[d] = upto[d] \/ upto'[d] = BatchEnd
        BY <2>3 DEF Takes, TypeInv, TypeOK
      <4> QED
        BY <3>1, <4>1, <4>2, Numbers
    <3>3. \A d \in Consumers : \A e \in pel'[d] : evicted' < e /\ e <= High'
      <4>1. \A d \in Consumers : pel'[d] \subseteq pel[d] \cup (last + 1)..BatchEnd
        BY <2>3 DEF Takes, Deliver, TypeInv, TypeOK
      <4> QED
        BY <3>1, <4>1, Numbers
    <3>4. \A e \in Range(rows') : e <= High'
      BY <3>1, Numbers
    <3>5. evicted' <= High'
      BY <3>1, Numbers
    <3> QED
      BY <3>2, <3>3, <3>4, <3>5
  <2>4. CASE Misses(c)
    <3>1. /\ evicted' = evicted /\ rows' = rows /\ High' = BatchEnd /\ High = last
          /\ BatchEnd \in Nat /\ last < BatchEnd /\ evicted <= last
      BY <2>4, BatchIsNew DEF Misses, streamVars, outVars
    <3>2. \A d \in Consumers : Working(d)' => upto'[d] <= High'
      <4>1. \A d \in Consumers : Working(d)' => Working(d) \/ upto'[d] = BatchEnd
        BY <2>4 DEF Misses, Working, workVars, GoTo, TypeInv, TypeOK
      <4>2. \A d \in Consumers : upto'[d] = upto[d] \/ upto'[d] = BatchEnd
        BY <2>4 DEF Misses, workVars, GoTo, TypeInv, TypeOK
      <4> QED
        BY <3>1, <4>1, <4>2, Numbers
    <3>3. \A d \in Consumers : \A e \in pel'[d] : evicted' < e /\ e <= High'
      <4>1. \A d \in Consumers : pel'[d] \subseteq pel[d] \cup (last + 1)..BatchEnd
        BY <2>4 DEF Misses, Deliver, TypeInv, TypeOK
      <4> QED
        BY <3>1, <4>1, Numbers
    <3>4. \A e \in Range(rows') : e <= High'
      BY <3>1, Numbers
    <3>5. evicted' <= High'
      BY <3>1, Numbers
    <3> QED
      BY <3>2, <3>3, <3>4, <3>5
  <2>5. CASE Inserts(c)
    BY <2>5 DEF Inserts, GoTo, streamVars, groupVars, outVars, High, Grouped, Working,
       TypeInv, TypeOK
  <2>6. CASE Drops(c)
    BY <2>6 DEF Drops, Advance, streamVars, groupVars, outVars, High, Grouped, Working,
       TypeInv, TypeOK
  <2>7. CASE Stores(c)
    <3>1. evicted' = evicted /\ High' = High /\ pel' = pel /\ upto' = upto
      BY <2>7 DEF Stores, Advance, GoTo, streamVars, groupVars, High, Grouped
    <3>2. cursor[c] <= High /\ Working(c) /\ cursor[c] \in Ids
      <4>1. Working(c)
        BY <2>7 DEF Stores, Working
      <4>2. 1 <= cursor[c] /\ cursor[c] <= upto[c] /\ upto[c] <= High
        BY <4>1 DEF TypeInv, CursorInBatch
      <4> QED
        BY <4>1, <4>2, Numbers DEF Ids
    <3>3. Range(rows') = Range(rows) \cup {cursor[c]}
      BY <2>7, <3>2, AppendFacts DEF Stores, InsertRow, TypeInv, TypeOK
    <3>4. \A d \in Consumers : Working(d)' => Working(d)
      BY <2>7 DEF Stores, Advance, GoTo, Working, TypeInv, TypeOK
    <3> QED
      BY <3>1, <3>2, <3>3, <3>4
  <2>8. CASE Airs(c)
    <3>1. /\ evicted' = evicted /\ High' = High /\ pel' = pel /\ upto' = upto /\ rows' = rows
      BY <2>8 DEF Airs, Advance, GoTo, Broadcast, streamVars, groupVars, workVars, High, Grouped
    <3>2. \A d \in Consumers : Working(d)' => Working(d)
      BY <2>8 DEF Airs, Advance, GoTo, workVars, Working, TypeInv, TypeOK
    <3> QED
      BY <3>1, <3>2
  <2>9. CASE Acks(c)
    <3>1. evicted' = evicted /\ High' = High /\ upto' = upto /\ rows' = rows
      BY <2>9 DEF Acks, Acknowledge, Advance, streamVars, High, Grouped
    <3>2. \A d \in Consumers : pel'[d] \subseteq pel[d]
      BY <2>9 DEF Acks, Acknowledge
    <3>3. \A d \in Consumers : Working(d)' => Working(d)
      BY <2>9 DEF Acks, Advance, Working, TypeInv, TypeOK
    <3> QED
      BY <3>1, <3>2, <3>3
  <2> QED
    BY <1>4, <2>1, <2>2, <2>3, <2>4, <2>5, <2>6, <2>7, <2>8, <2>9 DEF WorkerEffect
<1> QED
  BY <1>1, <1>2, <1>3, <1>4, Effects DEF TypeInv

\* What each effect does to the entries a worker holds.
LEMMA HoldsStep ==
  ASSUME TypeInv, NEW c \in Consumers, WorkerEffect(c), ~Takes(c)
  PROVE  \A d \in Consumers : Holds(d)' \subseteq Holds(d)
<1> USE DEF TypeInv, TypeOK, CursorInBatch, Holds, Working, GoTo
<1>1. CASE Moves(c) \/ Creates(c) \/ Misses(c) \/ Inserts(c)
  BY <1>1 DEF Moves, Creates, Misses, Inserts, workVars
<1>2. ASSUME Working(c), Advance(c) PROVE \A d \in Consumers : Holds(d)' \subseteq Holds(d)
  <2>1. \A d \in Consumers \ {c} : Holds(d)' = Holds(d)
    BY <1>2 DEF Advance
  <2>2. Holds(c)' \subseteq Holds(c)
    <3>1. cursor[c] \in Nat /\ upto[c] \in Nat /\ cursor'[c] = cursor[c] + 1 /\ upto'[c] = upto[c]
      BY <1>2 DEF Advance
    <3>2. (cursor[c] + 1)..upto[c] \subseteq cursor[c]..upto[c]
      BY <3>1
    <3> QED
      BY <1>2, <3>1, <3>2
  <2> QED
    BY <2>1, <2>2
<1>3. CASE Drops(c) \/ Acks(c)
  BY <1>2, <1>3 DEF Drops, Acks
<1>4. CASE Stores(c)
  BY <1>2, <1>4 DEF Stores
<1>5. CASE Airs(c)
  BY <1>2, <1>5 DEF Airs, workVars
<1> QED
  BY <1>1, <1>3, <1>4, <1>5 DEF WorkerEffect

LEMMA TakesHolds ==
  ASSUME TypeInv, NEW c \in Consumers, Takes(c)
  PROVE  /\ Holds(c) = {} /\ Holds(c)' = (last + 1)..BatchEnd
         /\ \A d \in Consumers \ {c} : Holds(d)' = Holds(d)
  BY DEF TypeInv, TypeOK, Takes, Holds, Working

LEMMA NoSharedEntryStep ==
  ASSUME IInv, [Next]_vars
  PROVE  NoSharedEntry'
<1> USE DEF IInv
<1>1. CASE Quiet
  BY <1>1 DEF Quiet, streamVars, groupVars, workVars, NoSharedEntry, Holds, Working, Grouped
<1>2. CASE Posts
  BY <1>2 DEF Posts, Append1, groupVars, workVars, NoSharedEntry, Holds, Working, Grouped
<1>3. CASE Loses
  BY <1>3 DEF Loses, workVars, NoSharedEntry, Holds, Working, Grouped
<1>4. ASSUME NEW c \in Consumers, WorkerEffect(c) PROVE NoSharedEntry'
  <2>1. \A d \in Consumers : \A e \in Holds(d) : e <= High
    <3>1. \A d \in Consumers : Working(d) => upto[d] <= High
      BY DEF OnlyDelivered
    <3> QED
      BY <3>1, Numbers DEF Holds
  <2>2. CASE Takes(c)
    <3>1. /\ High = last /\ last \in Nat /\ BatchEnd \in Nat
          /\ pel' = [pel EXCEPT ![c] = @ \cup (last + 1)..BatchEnd]
          /\ evicted' = evicted /\ Grouped
      BY <2>2, BatchIsNew, Numbers DEF Takes, Deliver, streamVars
    <3>2. ASSUME NEW d \in Consumers, NEW e \in Consumers, d # e
          PROVE  Holds(d)' \cap Holds(e)' = {} /\ pel'[d] \cap pel'[e] = {}
      <4>1. Holds(d)' \cap Holds(e)' = {}
        BY <2>1, <2>2, <3>1, <3>2, TakesHolds DEF NoSharedEntry
      <4>2. pel'[d] \cap pel'[e] = {}
        <5>1. pel[d] \cap pel[e] = {}
          BY <3>2 DEF NoSharedEntry
        <5>2. \A f \in Consumers : \A x \in pel[f] : x \notin (last + 1)..BatchEnd
          BY <3>1 DEF OnlyDelivered
        <5>3. \A f \in Consumers : pel'[f] = IF f = c THEN pel[f] \cup (last + 1)..BatchEnd
                                             ELSE pel[f]
          BY <3>1 DEF TypeInv, TypeOK
        <5> QED
          BY <3>2, <5>1, <5>2, <5>3
      <4> QED
        BY <4>1, <4>2
    <3>3. \A d \in Consumers : \A e \in Holds(d)' : e > evicted => e \in pel'[d]
      <4>1. Holds(c)' = (last + 1)..BatchEnd /\ (last + 1)..BatchEnd \subseteq pel'[c]
        BY <2>2, <3>1, TakesHolds DEF TypeInv, TypeOK
      <4>2. \A d \in Consumers \ {c} : Holds(d)' = Holds(d) /\ pel'[d] = pel[d]
        BY <2>2, <3>1, TakesHolds DEF TypeInv, TypeOK
      <4> QED
        BY <3>1, <4>1, <4>2 DEF NoSharedEntry
    <3> QED
      BY <3>1, <3>2, <3>3 DEF NoSharedEntry
  <2>3. CASE ~Takes(c)
    <3>1. \A d \in Consumers : Holds(d)' \subseteq Holds(d)
      BY <1>4, <2>3, HoldsStep
    <3>2. CASE Misses(c)
      <4>1. /\ High = last /\ last \in Nat /\ BatchEnd \in Nat
            /\ pel' = [pel EXCEPT ![c] = @ \cup (last + 1)..BatchEnd]
            /\ evicted' = evicted /\ Grouped
        BY <3>2, BatchIsNew, Numbers DEF Misses, Deliver, streamVars
      <4>2. \A d, e \in Consumers : d # e => pel'[d] \cap pel'[e] = {}
        <5>1. \A f \in Consumers : \A x \in pel[f] : x \notin (last + 1)..BatchEnd
          BY <4>1 DEF OnlyDelivered
        <5>2. \A f \in Consumers : pel'[f] = IF f = c THEN pel[f] \cup (last + 1)..BatchEnd
                                             ELSE pel[f]
          BY <4>1 DEF TypeInv, TypeOK
        <5> QED
          BY <5>1, <5>2 DEF NoSharedEntry
      <4>3. \A d \in Consumers : pel[d] \subseteq pel'[d]
        BY <4>1 DEF TypeInv, TypeOK
      <4> QED
        BY <3>1, <4>1, <4>2, <4>3 DEF NoSharedEntry
    <3>3. CASE Acks(c)
      <4>1. /\ pel' = [d \in Consumers |-> pel[d] \ {cursor[c]}]
            /\ evicted' = evicted /\ group' = group
        BY <3>3 DEF Acks, Acknowledge, streamVars
      <4>2. cursor[c] \in Holds(c) /\ cursor[c] \notin Holds(c)'
        BY <3>3 DEF Acks, Advance, Holds, Working, TypeInv, TypeOK, CursorInBatch
      <4>3. \A d \in Consumers : cursor[c] \notin Holds(d)'
        BY <3>1, <4>2 DEF NoSharedEntry
      <4> QED
        BY <3>1, <4>1, <4>3 DEF NoSharedEntry, Grouped
    <3>4. CASE Creates(c)
      <4>1. pel' = pel /\ evicted' = evicted
        BY <3>4 DEF Creates, MakeGroup, streamVars
      <4>2. ~Grouped => \A d \in Consumers : \A e \in Holds(d) : e <= evicted
        BY <2>1 DEF High
      <4>3. \A d \in Consumers : \A e \in Holds(d) : e \in Nat
        BY DEF Holds, TypeInv, TypeOK
      <4>4. evicted \in Nat
        BY DEF TypeInv, TypeOK
      <4>5. \A d \in Consumers : \A e \in Holds(d)' : e > evicted' => e \in pel'[d]
        BY <3>1, <4>1, <4>2, <4>3, <4>4 DEF NoSharedEntry
      <4> QED
        BY <3>1, <4>1, <4>5 DEF NoSharedEntry
    <3>5. CASE Moves(c) \/ Inserts(c) \/ Drops(c) \/ Stores(c) \/ Airs(c)
      <4>1. pel' = pel /\ evicted' = evicted /\ group' = group
        BY <3>5 DEF Moves, Inserts, Drops, Stores, Airs, streamVars, groupVars
      <4> QED
        BY <3>1, <4>1 DEF NoSharedEntry, Grouped
    <3> QED
      BY <1>4, <2>3, <3>2, <3>3, <3>4, <3>5 DEF WorkerEffect
  <2> QED
    BY <2>2, <2>3
<1> QED
  BY <1>1, <1>2, <1>3, <1>4, Effects DEF TypeInv

\* What each effect does to the rows, the broadcasts and the acknowledgements.
LEMMA OutputStep ==
  ASSUME TypeInv, [Next]_vars
  PROVE  \/ UNCHANGED outVars
         \/ \E c \in Consumers :
              \/ Stores(c) /\ Range(rows') = Range(rows) \cup {cursor[c]} /\ UNCHANGED <<aired, acked>>
              \/ Airs(c) /\ Range(aired') = Range(aired) \cup {cursor[c]} /\ UNCHANGED <<rows, acked>>
              \/ Acks(c) /\ acked' = acked \cup {cursor[c]} /\ UNCHANGED <<rows, aired>>
<1> USE DEF outVars
<1>1. CASE Quiet \/ Posts \/ Loses
  BY <1>1 DEF Quiet, Posts, Loses
<1>2. ASSUME NEW c \in Consumers, WorkerEffect(c)
      PROVE  \/ UNCHANGED outVars
             \/ Stores(c) /\ Range(rows') = Range(rows) \cup {cursor[c]} /\ UNCHANGED <<aired, acked>>
             \/ Airs(c) /\ Range(aired') = Range(aired) \cup {cursor[c]} /\ UNCHANGED <<rows, acked>>
             \/ Acks(c) /\ acked' = acked \cup {cursor[c]} /\ UNCHANGED <<rows, aired>>
  <2>1. CASE Moves(c) \/ Creates(c) \/ Takes(c) \/ Misses(c) \/ Inserts(c) \/ Drops(c)
    BY <2>1 DEF Moves, Creates, Takes, Misses, Inserts, Drops
  <2>2. Working(c) => cursor[c] \in Ids
    BY Numbers DEF TypeInv, CursorInBatch, TypeOK, Ids
  <2>3. rows \in Seq(Ids) /\ aired \in Seq(Ids)
    BY DEF TypeInv, TypeOK
  <2>4. CASE Stores(c)
    BY <2>2, <2>3, <2>4, AppendFacts DEF Stores, InsertRow, Working
  <2>5. CASE Airs(c)
    BY <2>2, <2>3, <2>5, AppendFacts DEF Airs, Broadcast, Working
  <2>6. CASE Acks(c)
    BY <2>6 DEF Acks, Acknowledge
  <2> QED
    BY <1>2, <2>1, <2>4, <2>5, <2>6 DEF WorkerEffect
<1> QED
  BY <1>1, <1>2, Effects DEF TypeInv

LEMMA ToStoreStep ==
  ASSUME TypeInv, NEW c \in Consumers, WorkerEffect(c), ~Takes(c)
  PROVE  \A d \in Consumers : ToStore(d)' \subseteq ToStore(d)
<1>1. \A d \in Consumers : Holds(d)' \subseteq Holds(d)
  BY HoldsStep
<1>2. \A d \in Consumers \ {c} : pc'[d] = pc[d] /\ cursor'[d] = cursor[d]
  BY DEF TypeInv, TypeOK, WorkerEffect, Moves, Creates, Misses, Inserts, Drops, Stores, Airs, Acks,
     GoTo, Advance, workVars
<1>3. ToStore(c)' \subseteq ToStore(c)
  <2>1. CASE Holds(c)' = {}
    BY <2>1 DEF ToStore
  <2>2. CASE UNCHANGED <<pc, cursor>>
    BY <1>1, <2>2 DEF ToStore
  <2>3. CASE Working(c) /\ Advance(c)
    BY <2>3, Numbers DEF TypeInv, TypeOK, Advance, ToStore, Holds, Working
  <2>4. CASE GoTo(c, "commit") /\ pc[c] = "save"
    BY <1>1, <2>4 DEF TypeInv, TypeOK, GoTo, ToStore
  <2>5. CASE GoTo(c, "publish") /\ pc[c] = "commit"
    BY <1>1, <2>5 DEF TypeInv, TypeOK, GoTo, ToStore
  <2>6. CASE GoTo(c, "ack") /\ pc[c] = "publish"
    BY <1>1, <2>6 DEF TypeInv, TypeOK, GoTo, ToStore
  <2>7. CASE \E label \in {"create", "poll", "dead"} : GoTo(c, label)
    BY <2>7 DEF TypeInv, TypeOK, GoTo, ToStore, Holds, Working
  <2> QED
    BY <2>1, <2>2, <2>3, <2>4, <2>5, <2>6, <2>7
       DEF WorkerEffect, Moves, Creates, Misses, Inserts, Drops, Stores, Airs, Acks, workVars,
           Working
<1> QED
  BY <1>1, <1>2, <1>3 DEF ToStore

\* The rows are those of entries no worker is still to store, and none comes twice.
LEMMA RowsStep ==
  ASSUME IInv, TypeInv', [Next]_vars
  PROVE  (\A d \in Consumers : \A e \in ToStore(d)' : e \notin Range(rows')) /\ OneRowPerEntry'
<1> USE DEF IInv
<1>1. CASE UNCHANGED outVars
  <2>1. OneRowPerEntry'
    BY <1>1 DEF outVars, OneRowPerEntry
  <2>2. CASE Quiet \/ Posts \/ Loses
    <3>1. UNCHANGED <<pc, cursor, upto, rows>>
      BY <1>1, <2>2 DEF Quiet, Posts, Loses, workVars, outVars
    <3>2. \A d \in Consumers : ToStore(d)' \subseteq ToStore(d)
      BY <3>1 DEF ToStore, Holds, Working
    <3>3. \A d \in Consumers : \A e \in ToStore(d) : e \notin Range(rows)
      BY DEF RowsFitWorkers
    <3> QED
      BY <2>1, <3>1, <3>2, <3>3
  <2>3. ASSUME NEW c \in Consumers, WorkerEffect(c), ~Takes(c)
        PROVE  \A d \in Consumers : \A e \in ToStore(d)' : e \notin Range(rows')
    BY <1>1, <2>3, ToStoreStep DEF outVars, RowsFitWorkers
  <2>4. ASSUME NEW c \in Consumers, Takes(c)
        PROVE  \A d \in Consumers : \A e \in ToStore(d)' : e \notin Range(rows')
    <3>1. High = last /\ last \in Nat /\ BatchEnd \in Nat
      BY <2>4, BatchIsNew, Numbers DEF Takes
    <3>2. \A e \in Holds(c)' : e \notin Range(rows)
      BY <2>4, <3>1, TakesHolds, Numbers DEF OnlyDelivered
    <3>3. \A d \in Consumers \ {c} : ToStore(d)' = ToStore(d)
      BY <2>4, TakesHolds DEF Takes, ToStore, TypeInv, TypeOK
    <3> QED
      BY <1>1, <3>2, <3>3 DEF outVars, RowsFitWorkers, ToStore
  <2> QED
    BY <2>1, <2>2, <2>3, <2>4, Effects DEF TypeInv
<1>2. ASSUME NEW c \in Consumers, Stores(c), Range(rows') = Range(rows) \cup {cursor[c]}
      PROVE  (\A d \in Consumers : \A e \in ToStore(d)' : e \notin Range(rows')) /\ OneRowPerEntry'
  <2>1. WorkerEffect(c) /\ ~Takes(c) /\ Working(c)
    BY <1>2 DEF WorkerEffect, Takes, Stores, Working
  <2>2. \A d \in Consumers : ToStore(d)' \subseteq ToStore(d)
    BY <2>1, ToStoreStep
  <2>3. cursor[c] \in Holds(c) /\ cursor[c] \in Ids
    <3>1. 1 <= cursor[c] /\ cursor[c] <= upto[c] /\ upto[c] <= High
      BY <2>1 DEF TypeInv, CursorInBatch, OnlyDelivered
    <3> QED
      BY <2>1, <3>1, Numbers DEF Holds, Ids
  <2>4. cursor[c] \in ToStore(c)
    BY <1>2, <2>3 DEF Stores, ToStore
  <2>5. cursor[c] \notin ToStore(c)'
    <3>1. CASE GoTo(c, "publish")
      <4>1. pc'[c] = "publish" /\ cursor'[c] = cursor[c]
        BY <3>1 DEF GoTo, TypeInv, TypeOK
      <4> QED
        BY <4>1 DEF ToStore
    <3>2. CASE Advance(c)
      <4>1. /\ cursor'[c] = cursor[c] + 1 /\ upto'[c] = upto[c]
            /\ pc'[c] \in {"save", "poll"}
        BY <3>2 DEF Advance, TypeInv, TypeOK
      <4> QED
        BY <4>1, Numbers DEF ToStore, Holds, Working
    <3> QED
      BY <1>2, <3>1, <3>2 DEF Stores
  <2>6. \A d \in Consumers \ {c} : cursor[c] \notin ToStore(d)
    BY <2>3 DEF NoSharedEntry, ToStore
  <2>7. \A d \in Consumers : \A e \in ToStore(d)' : e \notin Range(rows')
    BY <1>2, <2>2, <2>5, <2>6 DEF RowsFitWorkers
  <2>8. cursor[c] \notin Range(rows)
    BY <2>4 DEF RowsFitWorkers
  <2>9. OneRowPerEntry'
    <3>1. rows \in Seq(Ids) /\ rows' = Append(rows, cursor[c])
      BY <1>2 DEF Stores, InsertRow, TypeInv, TypeOK
    <3> QED
      BY <2>3, <2>8, <3>1, InjectiveAppend DEF OneRowPerEntry
  <2> QED
    BY <2>7, <2>9
<1>3. ASSUME NEW c \in Consumers, Airs(c) \/ Acks(c), UNCHANGED rows
      PROVE  (\A d \in Consumers : \A e \in ToStore(d)' : e \notin Range(rows')) /\ OneRowPerEntry'
  <2>1. WorkerEffect(c) /\ ~Takes(c)
    BY <1>3 DEF WorkerEffect, Takes, Airs, Acks
  <2> QED
    BY <1>3, <2>1, ToStoreStep DEF RowsFitWorkers, OneRowPerEntry
<1> QED
  BY <1>1, <1>2, <1>3, OutputStep

LEMMA ProgressStep ==
  ASSUME IInv, [Next]_vars
  PROVE  \A d \in Consumers :
           /\ pc'[d] \in {"publish", "ack"} => cursor'[d] \in Range(rows')
           /\ pc'[d] = "ack" => cursor'[d] \in Range(aired')
<1> USE DEF IInv
<1>1. Range(rows) \subseteq Range(rows') /\ Range(aired) \subseteq Range(aired')
  BY OutputStep DEF outVars
<1>2. CASE Quiet \/ Posts \/ Loses
  BY <1>1, <1>2 DEF Quiet, Posts, Loses, workVars, RowsFitWorkers
<1>3. ASSUME NEW c \in Consumers, WorkerEffect(c), NEW d \in Consumers
      PROVE  /\ pc'[d] \in {"publish", "ack"} => cursor'[d] \in Range(rows')
             /\ pc'[d] = "ack" => cursor'[d] \in Range(aired')
  <2>1. CASE pc'[d] = pc[d] /\ cursor'[d] = cursor[d]
    BY <1>1, <2>1 DEF RowsFitWorkers
  <2>2. CASE pc'[d] \notin {"publish", "ack"}
    BY <2>2
  <2>3. CASE Stores(c) /\ GoTo(c, "publish") /\ d = c
    <3>1. cursor[c] \in Range(rows')
      <4>1. cursor[c] \in Ids /\ rows \in Seq(Ids)
        BY <2>3, Numbers DEF Stores, Working, TypeInv, TypeOK, CursorInBatch, Ids
      <4> QED
        BY <2>3, <4>1, AppendFacts DEF Stores, InsertRow
    <3> QED
      BY <2>3, <3>1 DEF GoTo, TypeInv, TypeOK
  <2>4. CASE Airs(c) /\ GoTo(c, "ack") /\ d = c
    <3>1. cursor[c] \in Range(aired')
      <4>1. cursor[c] \in Ids /\ aired \in Seq(Ids)
        BY <2>4, Numbers DEF Airs, Working, TypeInv, TypeOK, CursorInBatch, Ids
      <4> QED
        BY <2>4, <4>1, AppendFacts DEF Airs, Broadcast
    <3>2. cursor[c] \in Range(rows')
      BY <1>1, <2>4 DEF Airs, RowsFitWorkers
    <3> QED
      BY <2>4, <3>1, <3>2 DEF GoTo, TypeInv, TypeOK
  <2>5. CASE d # c
    <3>1. pc'[d] = pc[d] /\ cursor'[d] = cursor[d]
      BY <1>3, <2>5 DEF WorkerEffect, Moves, Creates, Takes, Misses, Inserts, Drops, Stores, Airs,
         Acks, GoTo, Advance, workVars, TypeInv, TypeOK
    <3> QED
      BY <2>1, <3>1
  <2>6. CASE d = c /\ (Moves(c) \/ Creates(c) \/ Takes(c) \/ Inserts(c) \/ Advance(c))
    <3>1. pc'[c] \in {"create", "poll", "dead", "save", "commit"}
      BY <2>6 DEF Moves, Creates, Takes, Inserts, GoTo, Advance, TypeInv, TypeOK
    <3> QED
      BY <2>2, <2>6, <3>1
  <2>7. CASE d = c /\ Misses(c)
    <3>1. pc'[c] = "dead" \/ (pc'[c] = pc[c] /\ cursor'[c] = cursor[c])
      BY <2>7 DEF Misses, GoTo, workVars, TypeInv, TypeOK
    <3> QED
      BY <2>1, <2>2, <2>7, <3>1
  <2>8. CASE d = c /\ UNCHANGED workVars
    BY <2>1, <2>8 DEF workVars
  <2> QED
    BY <1>3, <2>3, <2>4, <2>5, <2>6, <2>7, <2>8 DEF WorkerEffect, Drops, Stores, Airs, Acks
<1> QED
  BY <1>2, <1>3, Effects DEF TypeInv

LEMMA AiredAndAckedStep ==
  ASSUME IInv, [Next]_vars
  PROVE  AiredIsStored' /\ AckedIsStoredAndAired'
<1> USE DEF IInv, AiredIsStored, AckedIsStoredAndAired
<1>1. CASE UNCHANGED outVars
  BY <1>1 DEF outVars
<1>2. ASSUME NEW c \in Consumers, Stores(c), Range(rows') = Range(rows) \cup {cursor[c]},
             UNCHANGED <<aired, acked>>
      PROVE  AiredIsStored' /\ AckedIsStoredAndAired'
  BY <1>2
<1>3. ASSUME NEW c \in Consumers, Airs(c), Range(aired') = Range(aired) \cup {cursor[c]},
             UNCHANGED <<rows, acked>>
      PROVE  AiredIsStored' /\ AckedIsStoredAndAired'
  <2>1. cursor[c] \in Range(rows)
    BY <1>3 DEF Airs, RowsFitWorkers
  <2> QED
    BY <1>3, <2>1
<1>4. ASSUME NEW c \in Consumers, Acks(c), acked' = acked \cup {cursor[c]}, UNCHANGED <<rows, aired>>
      PROVE  AiredIsStored' /\ AckedIsStoredAndAired'
  <2>1. cursor[c] \in Range(rows) /\ cursor[c] \in Range(aired)
    BY <1>4 DEF Acks, RowsFitWorkers
  <2> QED
    BY <1>4, <2>1
<1> QED
  BY <1>1, <1>2, <1>3, <1>4, OutputStep

LEMMA NothingSkippedStep ==
  ASSUME IInv, [Next]_vars
  PROVE  NothingSkipped'
<1> USE DEF IInv
<1>1. acked \subseteq acked'
  BY OutputStep DEF outVars
<1>2. CASE Quiet \/ Posts
  BY <1>1, <1>2 DEF Quiet, Posts, Append1, streamVars, groupVars, High, Grouped, NothingSkipped
<1>3. CASE Loses
  <2>1. evicted' = High' /\ evicted' \in Nat
    BY <1>3, Numbers DEF Loses, High, Grouped
  <2>2. \A n \in Nat : \A e \in (n + 1)..n : FALSE
    OBVIOUS
  <2>3. \A e \in (High' + 1)..High' : FALSE
    BY <2>1, <2>2
  <2> QED
    BY <2>1, <2>3 DEF NothingSkipped
<1>4. ASSUME NEW c \in Consumers, WorkerEffect(c) PROVE NothingSkipped'
  <2>1. CASE Takes(c) \/ Misses(c)
    <3>1. /\ evicted' = evicted /\ High = last /\ High' = BatchEnd
          /\ last \in Nat /\ evicted \in Nat /\ BatchEnd \in Nat
      BY <2>1, BatchIsNew, Numbers DEF Takes, Misses, streamVars
    <3>2. pel' = [pel EXCEPT ![c] = @ \cup (last + 1)..BatchEnd] /\ pel \in [Consumers -> SUBSET Ids]
      BY <2>1 DEF Takes, Misses, Deliver, TypeInv, TypeOK
    <3>3. \A d \in Consumers : pel[d] \subseteq pel'[d]
      BY <3>2
    <3>4. ASSUME NEW e \in (evicted + 1)..BatchEnd
          PROVE  e \in acked' \/ \E d \in Consumers : e \in pel'[d]
      <4>1. CASE e <= last
        BY <1>1, <3>1, <3>3, <4>1 DEF NothingSkipped
      <4>2. CASE last < e
        BY <3>1, <3>2, <4>2
      <4> QED
        BY <3>1, <4>1, <4>2
    <3> QED
      BY <3>1, <3>4 DEF NothingSkipped
  <2>2. CASE Acks(c)
    <3>1. evicted' = evicted /\ High' = High
      BY <2>2 DEF Acks, Acknowledge, streamVars, High, Grouped
    <3>2. acked' = acked \cup {cursor[c]} /\ pel' = [d \in Consumers |-> pel[d] \ {cursor[c]}]
      BY <2>2 DEF Acks, Acknowledge
    <3> QED
      BY <3>1, <3>2 DEF NothingSkipped
  <2>3. CASE Creates(c)
    BY <1>1, <2>3 DEF Creates, MakeGroup, streamVars, High, Grouped, NothingSkipped
  <2>4. CASE Moves(c) \/ Inserts(c) \/ Drops(c) \/ Stores(c) \/ Airs(c)
    <3>1. UNCHANGED <<streamVars, groupVars>>
      BY <2>4 DEF Moves, Inserts, Drops, Stores, Airs
    <3> QED
      BY <1>1, <3>1 DEF streamVars, groupVars, High, Grouped, NothingSkipped
  <2> QED
    BY <1>4, <2>1, <2>2, <2>3, <2>4 DEF WorkerEffect
<1> QED
  BY <1>2, <1>3, <1>4, Effects DEF TypeInv

LEMMA NextIInv == IInv /\ [Next]_vars => IInv'
<1> SUFFICES ASSUME IInv, [Next]_vars PROVE IInv'
  OBVIOUS
<1>1. TypeInv'
  BY NextTypeInv DEF IInv
<1>2. RowsFitWorkers'
  BY <1>1, RowsStep, ProgressStep DEF RowsFitWorkers
<1> QED
  BY <1>1, <1>2, OnlyDeliveredStep, NoSharedEntryStep, RowsStep, AiredAndAckedStep,
     NothingSkippedStep DEF IInv

THEOREM Invariant == Spec => []IInv
  BY InitIInv, NextIInv, PTL DEF Spec

\* No entry gets a second row, for any number of workers, crashes, lost replies and lost keys.
THEOREM StoredAtMostOnce == Spec => []OneRowPerEntry
  BY Invariant, PTL DEF IInv

\* Every entry the group is past was acknowledged or is pending for a consumer.
THEOREM NoEntrySkipped == Spec => []NothingSkipped
  BY Invariant, PTL DEF IInv

\* Workers hold and own disjoint entries.
THEOREM EntriesNotShared == Spec => []NoSharedEntry
  BY Invariant, PTL DEF IInv

\* Acknowledged implies stored and broadcast; broadcast implies stored.
THEOREM AcknowledgedLast == Spec => [](AiredIsStored /\ AckedIsStoredAndAired)
  BY Invariant, PTL DEF IInv

--------------------------------------------------------------------------------
(***************************************************************************)
(* The pipeline implements LogDelivery: each effect is one of its actions  *)
(* or leaves its variables as they are.                                    *)
(***************************************************************************)

Undecided == UNION {ToStore(c) : c \in Consumers}
Gone == (1..High) \ (Range(rows) \cup Undecided)

LEMMA DeliveryInit == Init => Delivery!Init
  BY DEF Init, Delivery!Init, High, Grouped, Range

\* A step that adds no entry, no row and no broadcast, and takes back nothing that was given up.
LEMMA GivesUp ==
  ASSUME TypeInv, TypeInv', UNCHANGED <<Len(stream), Range(rows), Range(aired)>>, Gone \subseteq Gone'
  PROVE  Delivery!GiveUp
<1> DEFINE new == Gone' \ Gone
<1>1. Gone' = Gone \cup new
  OBVIOUS
<1>2. High' <= Len(stream) /\ High' \in Nat /\ Len(stream) \in Nat
  BY Numbers DEF High, Grouped, TypeInv, TypeOK
<1>3. new \in SUBSET Delivery!Open
  BY <1>2 DEF Gone, Delivery!Open, Undecided
<1> QED
  BY <1>1, <1>3 DEF Delivery!GiveUp, Gone, Undecided

LEMMA GoneGrows ==
  ASSUME TypeInv, High <= High', High' \in Nat, UNCHANGED rows,
         \A d \in Consumers : \A e \in ToStore(d)' : e \in ToStore(d) \/ High < e
  PROVE  Gone \subseteq Gone'
<1>1. High \in Nat
  BY Numbers
<1>2. ASSUME NEW e \in Gone PROVE e \in Gone'
  <2>1. e \in 1..High /\ e \notin Range(rows) /\ \A d \in Consumers : e \notin ToStore(d)
    BY <1>2 DEF Gone, Undecided
  <2>2. e \in 1..High' /\ ~(High < e)
    BY <1>1, <2>1
  <2>3. \A d \in Consumers : e \notin ToStore(d)'
    BY <2>1, <2>2
  <2> QED
    BY <2>1, <2>2, <2>3 DEF Gone, Undecided
<1> QED
  BY <1>2

LEMMA Decided ==
  ASSUME IInv, NEW c \in Consumers, Working(c)
  PROVE  /\ cursor[c] \in 1..High /\ cursor[c] \in Holds(c)
         /\ pc[c] \in {"save", "commit"} => cursor[c] \in ToStore(c)
         /\ \A d \in Consumers \ {c} : cursor[c] \notin ToStore(d)
<1>1. 1 <= cursor[c] /\ cursor[c] <= upto[c] /\ upto[c] <= High
  BY DEF IInv, TypeInv, CursorInBatch, OnlyDelivered
<1>2. TypeInv
  BY DEF IInv
<1>3. cursor[c] \in 1..High /\ cursor[c] \in Holds(c)
  BY <1>1, <1>2, Numbers DEF Holds
<1> QED
  BY <1>3 DEF ToStore, IInv, NoSharedEntry

\* After its place in process_event, what a worker has left to store.
LEMMA LeftToStore ==
  ASSUME IInv, NEW c \in Consumers, Stores(c) \/ Airs(c)
  PROVE  /\ ToStore(c)' = ToStore(c) \ {cursor[c]}
         /\ \A d \in Consumers \ {c} : ToStore(d)' = ToStore(d)
<1>0. TypeInv
  BY DEF IInv
<1>1. \A d \in Consumers \ {c} : ToStore(d)' = ToStore(d)
  BY <1>0 DEF Stores, Airs, GoTo, Advance, workVars, ToStore, Holds, Working, TypeInv, TypeOK
<1>2. ASSUME Working(c), Advance(c) PROVE ToStore(c)' = Holds(c) \ {cursor[c]}
  <2>1. /\ cursor'[c] = cursor[c] + 1 /\ upto'[c] = upto[c]
        /\ pc'[c] = IF cursor[c] < upto[c] THEN "save" ELSE "poll"
    BY <1>0, <1>2 DEF Advance, TypeInv, TypeOK
  <2>2. cursor[c] \in Nat /\ upto[c] \in Nat
    BY <1>0, Numbers
  <2>3. Holds(c) = cursor[c]..upto[c]
    BY <1>2 DEF Holds
  <2>4. ToStore(c)' = (cursor[c] + 1)..upto[c]
    BY <2>1, <2>2 DEF ToStore, Holds, Working
  <2> QED
    BY <2>2, <2>3, <2>4
<1>3. ASSUME NEW label \in {"publish", "ack"}, Working(c), GoTo(c, label)
      PROVE  ToStore(c)' = Holds(c) \ {cursor[c]}
  BY <1>0, <1>3 DEF GoTo, ToStore, Holds, Working, TypeInv, TypeOK
<1>4. CASE Stores(c)
  BY <1>1, <1>2, <1>3, <1>4 DEF Stores, Working, ToStore
<1>5. CASE Airs(c)
  <2>1. ToStore(c) = Holds(c) \ {cursor[c]} /\ Working(c)
    BY <1>5 DEF Airs, ToStore, Working
  <2>2. UNCHANGED workVars => ToStore(c)' = ToStore(c)
    BY DEF workVars, ToStore, Holds, Working
  <2> QED
    BY <1>1, <1>2, <1>3, <1>5, <2>1, <2>2 DEF Airs
<1> QED
  BY <1>4, <1>5

LEMMA DeliveryStep ==
  ASSUME IInv, IInv', [Next]_vars
  PROVE  [Delivery!Next]_(Delivery!vars)
<1> USE DEF Delivery!Next, Delivery!vars
<1>0. TypeInv /\ TypeInv' /\ High <= High' /\ High' \in Nat
  BY HighStep, Effects DEF IInv, TypeInv
<1>1. CASE Quiet
  <2>1. UNCHANGED <<stream, rows, aired, High>> /\ \A d \in Consumers : ToStore(d)' = ToStore(d)
    BY <1>1 DEF Quiet, streamVars, groupVars, workVars, outVars, High, Grouped, ToStore, Holds,
       Working
  <2> QED
    BY <2>1
<1>2. CASE Posts
  <2>1. UNCHANGED <<rows, aired, High>> /\ \A d \in Consumers : ToStore(d)' = ToStore(d)
    BY <1>2 DEF Posts, Append1, groupVars, workVars, outVars, High, Grouped, ToStore, Holds, Working
  <2>2. Len(stream') = Len(stream) + 1
    BY <1>0, <1>2, AppendFacts DEF Posts, Append1, TypeInv, TypeOK
  <2> QED
    BY <2>1, <2>2 DEF Delivery!Post
<1>3. CASE Loses
  <2>1. UNCHANGED <<stream, rows, aired>> /\ \A d \in Consumers : ToStore(d)' = ToStore(d)
    BY <1>3 DEF Loses, workVars, outVars, ToStore, Holds, Working
  <2>2. Gone \subseteq Gone'
    BY <1>0, <2>1, GoneGrows
  <2> QED
    BY <1>0, <2>1, <2>2, GivesUp
<1>4. ASSUME NEW c \in Consumers, WorkerEffect(c) PROVE Delivery!Next
  <2>1. CASE Takes(c)
    <3>1. /\ UNCHANGED <<stream, rows, aired>>
          /\ High = last /\ last \in Nat /\ BatchEnd \in Nat
      BY <1>0, <2>1, BatchIsNew, Numbers DEF Takes, streamVars, outVars
    <3>2. \A d \in Consumers : \A e \in ToStore(d)' : e \in ToStore(d) \/ High < e
      <4>1. \A e \in ToStore(c)' : High < e
        BY <1>0, <2>1, <3>1, TakesHolds DEF ToStore
      <4>2. \A d \in Consumers \ {c} : ToStore(d)' = ToStore(d)
        BY <1>0, <2>1, TakesHolds DEF Takes, ToStore, TypeInv, TypeOK
      <4> QED
        BY <4>1, <4>2
    <3>3. Gone \subseteq Gone'
      BY <1>0, <3>1, <3>2, Numbers, GoneGrows
    <3> QED
      BY <1>0, <3>1, <3>3, GivesUp
  <2>2. CASE Moves(c) \/ Creates(c) \/ Misses(c) \/ Inserts(c) \/ Drops(c) \/ Acks(c)
    <3>1. UNCHANGED <<stream, rows, aired>> /\ ~Takes(c)
      <4>1. UNCHANGED <<stream, rows, aired>>
        BY <2>2 DEF Moves, Creates, Misses, Inserts, Drops, Acks, Acknowledge, streamVars, outVars
      <4>2. CASE Inserts(c) \/ Drops(c) \/ Acks(c)
        BY <4>1, <4>2 DEF Inserts, Drops, Acks, Takes, Working
      <4>3. CASE Moves(c) \/ Creates(c) \/ Misses(c)
        <5>1. pc'[c] \in {"create", "poll", "dead"}
          BY <1>0, <4>3 DEF Moves, Creates, Misses, GoTo, workVars, TypeInv, TypeOK
        <5>2. Takes(c) => pc'[c] = "save"
          BY <1>0 DEF Takes, TypeInv, TypeOK
        <5> QED
          BY <4>1, <5>1, <5>2
      <4> QED
        BY <2>2, <4>2, <4>3
    <3>2. \A d \in Consumers : ToStore(d)' \subseteq ToStore(d)
      BY <1>0, <1>4, <3>1, ToStoreStep
    <3>3. Gone \subseteq Gone'
      BY <1>0, <3>1, <3>2, GoneGrows
    <3> QED
      BY <1>0, <3>1, <3>3, GivesUp
  <2>3. CASE Stores(c)
    <3>1. Working(c) /\ cursor[c] \in Ids /\ rows \in Seq(Ids)
      <4>1. Working(c)
        BY <2>3 DEF Stores, Working
      <4>2. cursor[c] \in Nat /\ upto[c] \in 0..Len(stream) /\ rows \in Seq(Ids)
            /\ 1 <= cursor[c] /\ cursor[c] <= upto[c]
        BY <1>0, <4>1 DEF TypeInv, TypeOK, CursorInBatch
      <4> QED
        BY <1>0, <4>1, <4>2, Numbers DEF Ids
    <3>2. Range(rows') = Range(rows) \cup {cursor[c]}
      BY <2>3, <3>1, AppendFacts DEF Stores, InsertRow
    <3>3. UNCHANGED <<stream, aired, High>>
      BY <2>3 DEF Stores, InsertRow, streamVars, groupVars, High, Grouped
    <3>4. Undecided = Undecided' \cup {cursor[c]}
      BY <2>3, <3>1, LeftToStore, Decided DEF Undecided, Stores
    <3>5. Gone' = Gone
      BY <3>2, <3>3, <3>4 DEF Gone
    <3>6. cursor[c] \in Delivery!Open
      BY <2>3, <3>1, <3>4, Decided DEF Delivery!Open, Gone, Undecided, IInv, RowsFitWorkers, Ids, Stores
    <3> QED
      BY <3>2, <3>3, <3>5, <3>6 DEF Delivery!Store, Gone, Undecided
  <2>4. CASE Airs(c)
    <3>1. Working(c) /\ cursor[c] \in Ids /\ aired \in Seq(Ids)
      <4>1. Working(c)
        BY <2>4 DEF Airs, Working
      <4>2. cursor[c] \in Nat /\ upto[c] \in 0..Len(stream) /\ aired \in Seq(Ids)
            /\ 1 <= cursor[c] /\ cursor[c] <= upto[c]
        BY <1>0, <4>1 DEF TypeInv, TypeOK, CursorInBatch
      <4> QED
        BY <1>0, <4>1, <4>2, Numbers DEF Ids
    <3>2. Range(aired') = Range(aired) \cup {cursor[c]}
      BY <2>4, <3>1, AppendFacts DEF Airs, Broadcast
    <3>3. UNCHANGED <<stream, rows, High>>
      BY <2>4 DEF Airs, Broadcast, streamVars, groupVars, High, Grouped
    <3>4. \A d \in Consumers : ToStore(d)' = ToStore(d)
      BY <2>4, LeftToStore DEF Airs, ToStore
    <3>5. cursor[c] \in Range(rows)
      BY <2>4 DEF Airs, IInv, RowsFitWorkers
    <3> QED
      BY <3>2, <3>3, <3>4, <3>5 DEF Delivery!Air
  <2> QED
    BY <1>4, <2>1, <2>2, <2>3, <2>4 DEF WorkerEffect
<1> QED
  BY <1>1, <1>2, <1>3, <1>4, Effects DEF IInv, TypeInv

\* Whatever the workers, their failures and the key do, each entry is stored at most once, broadcast
\* only when stored, and never stored once it was given up.
THEOREM Implementation == Spec => ImplementsDelivery
<1>1. Init => Delivery!Init
  BY DeliveryInit
<1>2. IInv /\ IInv' /\ [Next]_vars => [Delivery!Next]_(Delivery!vars)
  BY DeliveryStep
<1> QED
  BY <1>1, <1>2, Invariant, PTL DEF Spec, ImplementsDelivery, Delivery!Spec

--------------------------------------------------------------------------------
(***************************************************************************)
(* What a client is told and what is on the stream: while a request waits  *)
(* for its XADD, there is one copy of its log for each attempt whose reply *)
(* was lost.                                                               *)
(***************************************************************************)

Matches(l) ==
  /\ IsFiniteSet(Copies(l))
  /\ request[l] \in {"unsent", "refused"} => Copies(l) = {} /\ lost[l] = 0
  /\ request[l] = "unsent" => tries[l] = 0
  /\ request[l] = "xadd" => lost[l] = tries[l]
  /\ request[l] # "queued" => Cardinality(Copies(l)) = lost[l]
  /\ request[l] = "queued" => Cardinality(Copies(l)) = lost[l] + 1
  /\ Cardinality(Copies(l)) <= 1 + RedisRetries

AnswersMatch == TypeOK /\ \A l \in Logs : Matches(l)

LEMMA InitMatches == Init => AnswersMatch
<1> SUFFICES ASSUME Init PROVE TypeOK /\ \A l \in Logs : Matches(l)
  BY DEF AnswersMatch
<1>1. TypeOK
  BY InitTypeInv DEF TypeInv
<1>2. ASSUME NEW l \in Logs PROVE Matches(l)
  <2>1. Copies(l) = {}
    BY DEF Init, Copies, Ids
  <2> QED
    BY <2>1, FS_EmptySet, CountsAssumption DEF Init, Matches
<1> QED
  BY <1>1, <1>2

\* What adding a log to the stream does to the copies of each.
LEMMA CopiesOfAppend ==
  ASSUME TypeOK, NEW l \in Logs, Append1(l), IsFiniteSet(Copies(l))
  PROVE  /\ \A m \in Logs \ {l} : Copies(m)' = Copies(m)
         /\ IsFiniteSet(Copies(l)') /\ Copies(l)' # {}
         /\ Cardinality(Copies(l)') = Cardinality(Copies(l)) + 1
<1> DEFINE new == Len(stream) + 1
<1>1. /\ Len(stream) \in Nat /\ Len(stream') = new
      /\ \A i \in Ids : stream'[i] = stream[i]
      /\ stream'[new] = l
  BY AppendFacts DEF TypeOK, Append1, Ids
<1>2. Ids' = Ids \cup {new} /\ new \notin Ids
  BY <1>1 DEF Ids
<1>3. \A m \in Logs \ {l} : Copies(m)' = Copies(m)
  BY <1>1, <1>2 DEF Copies
<1>4. Copies(l)' = Copies(l) \cup {new} /\ new \notin Copies(l)
  BY <1>1, <1>2 DEF Copies
<1> QED
  BY <1>3, <1>4, FS_AddElement

\* A step of a worker, or the loss of the key, is nothing to the requests.
LEMMA OthersKeepRequests ==
  ASSUME TypeOK,
         \/ \E c \in Consumers : Start(c) \/ GroupStep(c) \/ EventStep(c) \/ Crash(c)
         \/ LoseKey \/ UNCHANGED vars
  PROVE  UNCHANGED <<request, stream, lost>> /\ \A l \in Logs : tries'[l] = tries[l]
<1>1. ASSUME NEW c \in Consumers, Start(c) \/ GroupStep(c) \/ EventStep(c) \/ Crash(c)
      PROVE  UNCHANGED <<request, stream, lost>> /\ \A l \in Logs : tries'[l] = tries[l]
  <2> USE DEF GroupStep, EventStep, Start, CreateGroup, CreateFails, Read, ReadReplyLost,
              ReadNoGroup, ReadFails, Save, SaveFails, Commit, CommitFails, Publish,
              PublishReplyLost, PublishFails, Ack, AckFails, Crash
  <2>1. UNCHANGED <<request, stream, lost>>
    BY <1>1 DEF streamVars
  <2>2. UNCHANGED tries \/ Repeat(c) \/ GiveUpOn(c) \/ CallEnds(c)
    BY <1>1
  <2>3. \A l \in Logs : tries'[l] = tries[l]
    BY <2>2, LogsAssumption DEF Repeat, GiveUpOn, CallEnds, TypeOK
  <2> QED
    BY <2>1, <2>3
<1>2. CASE LoseKey \/ UNCHANGED vars
  BY <1>2 DEF LoseKey, vars
<1> QED
  BY <1>1, <1>2

LEMMA NextMatches ==
  ASSUME AnswersMatch, [Next]_vars
  PROVE  \A m \in Logs : Matches(m)'
<1>0. TypeOK /\ \A m \in Logs : Matches(m)
  BY DEF AnswersMatch
<1>1. ASSUME NEW l \in Logs, ApiStep(l), NEW m \in Logs \ {l} PROVE Matches(m)'
  <2>1. request'[m] = request[m] /\ tries'[m] = tries[m] /\ lost'[m] = lost[m]
    BY <1>0, <1>1 DEF ApiStep, Admit, Refuse, LookupFails, XaddOk, XaddReplyLost, XaddFails, Answer,
                      Repeat, GiveUpOn, CallEnds, streamVars, TypeOK
  <2>2. Append1(l) \/ UNCHANGED stream
    BY <1>1 DEF ApiStep, Admit, Refuse, LookupFails, XaddOk, XaddReplyLost, XaddFails, streamVars
  <2>3. Copies(m)' = Copies(m)
    <3>1. CASE Append1(l)
      <4>1. IsFiniteSet(Copies(l))
        BY <1>0 DEF Matches
      <4> QED
        BY <1>0, <3>1, <4>1, CopiesOfAppend
    <3>2. CASE UNCHANGED stream
      BY <3>2 DEF Copies, Ids
    <3> QED
      BY <2>2, <3>1, <3>2
  <2> QED
    BY <1>0, <2>1, <2>3 DEF Matches
<1>2. ASSUME NEW l \in Logs, ApiStep(l) PROVE Matches(l)'
  <2>0. /\ Matches(l) /\ RedisRetries \in Nat
        /\ tries[l] \in 0..RedisRetries /\ request[l] \in RequestStates
    BY <1>0, CountsAssumption DEF TypeOK
  <2>1. CASE Admit(l) \/ Refuse(l) \/ LookupFails(l)
    <3>1. request[l] = "unsent" /\ request'[l] \in {"xadd", "refused", "failed"}
      BY <1>0, <2>1 DEF Admit, Refuse, LookupFails, Answer, TypeOK
    <3>2. tries'[l] = tries[l] /\ lost'[l] = lost[l] /\ Copies(l)' = Copies(l)
      BY <2>1 DEF Admit, Refuse, LookupFails, streamVars, Copies, Ids
    <3> QED
      BY <2>0, <3>1, <3>2, FS_EmptySet DEF Matches
  <2>2. CASE XaddFails(l)
    <3>1. request[l] = "xadd" /\ request'[l] = "failed"
      BY <1>0, <2>2 DEF XaddFails, Answer, TypeOK
    <3>2. lost'[l] = lost[l] /\ Copies(l)' = Copies(l)
      BY <2>2 DEF XaddFails, streamVars, Copies, Ids
    <3> QED
      BY <2>0, <3>1, <3>2 DEF Matches
  <2>3. CASE XaddOk(l) \/ XaddReplyLost(l)
    <3>1. request[l] = "xadd" /\ Append1(l)
      BY <2>3 DEF XaddOk, XaddReplyLost
    <3>2. /\ IsFiniteSet(Copies(l)') /\ Copies(l)' # {}
          /\ Cardinality(Copies(l)') = tries[l] + 1 /\ lost[l] = tries[l]
      BY <1>0, <2>0, <3>1, CopiesOfAppend DEF Matches
    <3>3. CASE XaddOk(l)
      <4>1. request'[l] = "queued" /\ lost' = lost
        BY <1>0, <3>3 DEF XaddOk, Answer, TypeOK
      <4> QED
        BY <2>0, <3>2, <4>1 DEF Matches
    <3>4. CASE XaddReplyLost(l)
      <4>1. \/ request'[l] = "failed"
            \/ request'[l] = "xadd" /\ tries'[l] = tries[l] + 1
        BY <1>0, <3>1, <3>4 DEF XaddReplyLost, Answer, Repeat, TypeOK
      <4>2. lost'[l] = lost[l] + 1
        BY <1>0, <3>4 DEF XaddReplyLost, TypeOK
      <4> QED
        BY <2>0, <3>2, <4>1, <4>2 DEF Matches
    <3> QED
      BY <2>3, <3>3, <3>4
  <2> QED
    BY <1>2, <2>1, <2>2, <2>3 DEF ApiStep
<1>3. ASSUME UNCHANGED <<request, stream, lost>>, \A l \in Logs : tries'[l] = tries[l]
      PROVE  \A m \in Logs : Matches(m)'
  <2>1. \A m \in Logs : Copies(m)' = Copies(m)
    BY <1>3 DEF Copies, Ids
  <2>2. \A m \in Logs : request'[m] = request[m] /\ tries'[m] = tries[m] /\ lost'[m] = lost[m]
    BY <1>3
  <2> QED
    BY <1>0, <2>1, <2>2 DEF Matches
<1> QED
  BY <1>0, <1>1, <1>2, <1>3, OthersKeepRequests DEF Next

\* A refused log is not on the stream, a queued one is, and an error answer leaves one copy for
\* each XADD whose reply was lost, and none when no reply was.
THEOREM AnswersTrue == Spec => []AnswerMatchesStream
<1>1. Init => AnswersMatch
  BY InitMatches
<1>2. AnswersMatch /\ TypeOK' /\ [Next]_vars => AnswersMatch'
  BY NextMatches DEF AnswersMatch
<1>3. AnswersMatch => AnswerMatchesStream
  BY DEF AnswersMatch, Matches, AnswerMatchesStream
<1> QED
  BY <1>1, <1>2, <1>3, TypeCorrect, PTL DEF Spec
================================================================================
