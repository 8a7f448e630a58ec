----------------------------- MODULE MCLogPipeline -----------------------------
(* LogPipeline on small instances: the bounds are in the .cfg files. *)
EXTENDS LogPipeline, TLC

CONSTANTS a, u, x, w1, w2

\* a can be stored, the table refuses u, and x is not admitted.
Storable == {a}
WithUnstorable == {a, u}
WithUnadmitted == {a, u, x}
TableRefuses == {u}
Nothing == {}
TwoWorkers == {w1, w2}

\* The workers differ by their names only.
SameRole == Permutations(TwoWorkers)
================================================================================
