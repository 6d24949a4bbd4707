----------------------------- MODULE MCKldLoop ------------------------------
(* SIGINT, SIGQUIT and SIGTERM, and two requests. *)
EXTENDS KldLoop

CONSTANTS r1, r2
=============================================================================
