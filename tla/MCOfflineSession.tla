---------------------------- MODULE MCOfflineSession ----------------------------
(* Instances of OfflineSession for TLC. *)
EXTENDS OfflineSession, TLC

\* The sales are interchangeable.
SameSales == Permutations(Sales)
=============================================================================
