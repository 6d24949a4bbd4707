------------------------------- MODULE MCEcho -------------------------------
(* Small instances of Echo: c1 has two transactions, c2 has one. *)
EXTENDS Echo

CONSTANTS c1, c2

MCTxns == [c \in Clients |-> IF c = c1 THEN 2 ELSE 1]
=============================================================================
