------------------------------ MODULE LogDelivery ------------------------------
(***************************************************************************)
(* What OrgLog's log pipeline promises a client about the entries of its   *)
(* stream, without workers, batches, pending lists or retries: an entry is *)
(* posted, then at most once stored or given up for good, and broadcast to *)
(* the dashboards only after it was stored.                                *)
(***************************************************************************)
EXTENDS Integers

VARIABLES
  posted,  \* how many entries were added to the stream
  stored,  \* the entries with a row in the table
  gone,    \* the entries that will never have one
  aired    \* the entries that were broadcast

vars == <<posted, stored, gone, aired>>

Init == posted = 0 /\ stored = {} /\ gone = {} /\ aired = {}

Open == (1..posted) \ (stored \cup gone)

Post ==
  /\ posted' = posted + 1
  /\ UNCHANGED <<stored, gone, aired>>

Store ==
  /\ \E e \in Open : stored' = stored \cup {e}
  /\ UNCHANGED <<posted, gone, aired>>

GiveUp ==
  /\ \E lost \in SUBSET Open : gone' = gone \cup lost
  /\ UNCHANGED <<posted, stored, aired>>

Air ==
  /\ \E e \in stored : aired' = aired \cup {e}
  /\ UNCHANGED <<posted, stored, gone>>

Next == Post \/ Store \/ GiveUp \/ Air

Spec == Init /\ [][Next]_vars
================================================================================
