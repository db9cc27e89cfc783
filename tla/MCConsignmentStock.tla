--------------------------- MODULE MCConsignmentStock ---------------------------
(* Instances of ConsignmentStock for TLC. *)
EXTENDS ConsignmentStock, TLC

\* Requests, and documents that take stock out of a lot, are interchangeable.
Same == Permutations(Allocs) \cup Permutations(Issues)
=============================================================================
