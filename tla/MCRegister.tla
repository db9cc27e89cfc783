------------------------------- MODULE MCRegister -------------------------------
(* Instances of PRRORegister for TLC. *)
EXTENDS RegisterRefinement, RegisterInvariant

CONSTANTS s1, ret, cash

\* A sale and a service-cash document; a sale and its return.
SaleAndCash   == {s1, cash}
SaleAndReturn == {s1, ret}

MCKindOf     == [k \in Keys |-> IF k = ret THEN "Return" ELSE IF k = cash THEN "Service" ELSE "Sale"]
MCOriginalOf == [k \in Keys |-> IF k = ret THEN s1 ELSE k]

=============================================================================
