------------------------------ MODULE MCLiveLogs ------------------------------
(* LiveTail on a small instance: the bounds are in the .cfg file. *)
EXTENDS LiveTail

CONSTANTS web, jobs

TwoProjects == {web, jobs}
TwoLevels == {"ERROR", "INFO"}
EveryOther == [n \in 1 .. MaxPublished |-> IF n % 2 = 0 THEN "ERROR" ELSE "INFO"]
================================================================================
