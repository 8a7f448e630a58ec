------------------------------- MODULE MCExplorer -------------------------------
(* A small instance of LogExplorer: a project with logs and one without. *)
EXTENDS LogExplorer

CONSTANTS home, bare
MCProjects == {home, bare}
================================================================================
