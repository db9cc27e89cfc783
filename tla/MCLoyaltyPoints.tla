---------------------------- MODULE MCLoyaltyPoints ----------------------------
(* Instances of LoyaltyPoints for TLC. *)
EXTENDS LoyaltyPoints, TLC

\* Points that are there at once and stay, and points that are delayed and expire.
InTurn    == [fifo |-> TRUE, delayed |-> FALSE, expires |-> FALSE, lotExpiry |-> FALSE]
Mixed     == [fifo |-> TRUE, delayed |-> TRUE, expires |-> TRUE, lotExpiry |-> TRUE]
BothPrograms == {InTurn, Mixed}

\* Orders and returns are interchangeable.
Same == Permutations(Orders) \cup Permutations(Returns)
=============================================================================
