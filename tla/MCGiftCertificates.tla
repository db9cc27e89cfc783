-------------------------- MODULE MCGiftCertificates --------------------------
(* Instances of GiftCertificates for TLC. *)
EXTENDS GiftCertificates, TLC

\* Orders, requests, returns and spare names are interchangeable.
Same == Permutations(Orders) \cup Permutations(Requests) \cup Permutations(Returns)
            \cup Permutations(Spares)
=============================================================================
