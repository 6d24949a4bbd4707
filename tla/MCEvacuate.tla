---------------------------- MODULE MCEvacuate ----------------------------
(* Small task trees for Evacuate. *)
EXTENDS Evacuate

CONSTANTS i, k, a, b, c, d

(* init runs a and b; a forks the process c. *)
OwnersCreator == [t \in Tasks |-> IF t = c THEN a ELSE i]
Alone == [t \in Tasks |-> t]
OneSession == [t \in Tasks |-> 1]

(* init runs d, d runs the caller a, each in a session of its own; b is a  *)
(* stranger and starts the thread c.                                       *)
LoginCreator == [t \in Tasks |-> CASE t = a -> d [] t = c -> b [] OTHER -> i]
LoginGroup == [t \in Tasks |-> IF t = c THEN b ELSE t]
OwnSessions == [t \in Tasks |-> t]

(* The same, but the thread c belongs to d, the parent of the caller. *)
ThreadedCreator == [t \in Tasks |-> IF t \in {a, c} THEN d ELSE i]
ThreadedGroup == [t \in Tasks |-> IF t = c THEN d ELSE t]
===========================================================================
