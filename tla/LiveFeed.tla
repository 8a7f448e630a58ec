------------------------------- MODULE LiveFeed -------------------------------
(***************************************************************************)
(* What the live tail promises a viewer: of the messages of its channel it *)
(* is shown some, each at most once, oldest first, and never one that was  *)
(* not published.                                                          *)
(***************************************************************************)
EXTENDS Integers, Sequences

CONSTANT Viewers

VARIABLES
  posted,  \* how many messages were published
  seen     \* the numbers of those each viewer was shown, in order

vars == <<posted, seen>>

Init == posted = 0 /\ seen = [v \in Viewers |-> <<>>]

Latest(v) == IF seen[v] = <<>> THEN 0 ELSE seen[v][Len(seen[v])]

Post ==
  /\ posted' = posted + 1
  /\ UNCHANGED seen

Show(v) ==
  /\ \E n \in (Latest(v) + 1)..posted : seen' = [seen EXCEPT ![v] = Append(@, n)]
  /\ UNCHANGED posted

Next == Post \/ \E v \in Viewers : Show(v)

Spec == Init /\ [][Next]_vars
================================================================================
