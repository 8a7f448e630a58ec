----------------------------- MODULE MCLiveFanout -----------------------------
(* LiveFanout on small instances: the bounds are in the .cfg files. *)
EXTENDS LiveFanout

CONSTANTS s1, s2

OneSocket == {s1}
TwoSockets == {s1, s2}
================================================================================
