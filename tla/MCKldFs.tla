------------------------------ MODULE MCKldFs -------------------------------
(* Small instances of KldFs. *)
EXTENDS KldFs, TLC

(* Heap cells are alike, and so are names. *)
Alike == Permutations(Objs) \cup Permutations(Names)
=============================================================================
