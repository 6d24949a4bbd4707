---------------------------- MODULE MCIdtAdaptor ----------------------------
(* Small instances of IdtAdaptor: #DF, #PF and one device vector. *)
EXTENDS IdtAdaptor

CONSTANTS m1, m2, u1, u2, c1, c2, p1, p2, p3

OneModule == [u \in Callers |-> m1]
OwnModule == [u \in Callers |-> IF u = u1 THEN m1 ELSE m2]
=============================================================================
