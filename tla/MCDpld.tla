------------------------------- MODULE MCDpld -------------------------------
(* p and r run programs of one source directory, with the module x, which  *)
(* r has beside z; q runs one of another directory, with y.  kcc called    *)
(* both x and y "ext", and they have the symbol f in common; z and y have  *)
(* h.  All modules have set_app_got, as kcc writes it.                     *)
EXTENDS Dpld

CONSTANTS p, q, r, x, y, z

MCName == [m \in Modules |-> IF m = z THEN "aux" ELSE "ext"]
MCBinary == [o \in Procs |-> CASE o = r -> <<x, z>> [] o = q -> <<y>> [] OTHER -> <<x>>]
MCWanted == [o \in Procs |-> CASE o = r -> <<"f", "h">> [] o = q -> <<"h", "v">> [] OTHER -> <<"g">>]
MCExports == [m \in Modules |-> {"set_app_got"} \cup
                CASE m = x -> {"f", "g"} [] m = y -> {"f", "h"} [] OTHER -> {"h"}]
=============================================================================
