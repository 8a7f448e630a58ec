------------------------------ MODULE MCDashboard ------------------------------
(* A small instance of ProjectSelection: a browser tab, its session and projects. *)
EXTENDS ProjectSelection

CONSTANTS ann, bob, x   \* two addresses, and one of a single letter
MCUsers == {ann, bob, x}
MCRejected == {x}
================================================================================
