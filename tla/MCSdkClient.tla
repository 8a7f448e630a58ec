------------------------------ MODULE MCSdkClient ------------------------------
(* SdkClient on small instances: the bounds are in the .cfg files. *)
EXTENDS SdkClient

CONSTANTS e1, e2, main, other, flusher

TwoEntries == {e1, e2}
MainAlone == {main}
TwoAppThreads == {main, other}
TheFlusher == {flusher}
================================================================================
