------------------------ MODULE MCConsignmentSettlement ------------------------
(* Instances of ConsignmentSettlement for TLC. *)
EXTENDS ConsignmentSettlement, TLC

\* Documents of one kind are interchangeable.
Same == Permutations(Sales) \cup Permutations(Returns) \cup Permutations(Reports)
          \cup Permutations(Payments)
=============================================================================
