---------------------------- MODULE MCGroupCheckout ----------------------------
(* Instances of GroupCheckout for TLC. *)
EXTENDS GroupCheckout, TLC

\* An older layer of one unit, and a newer one.
OneAndOne  == <<1, 1>>
OneAndFour == <<1, 4>>

\* A single layer of two units, and with a newer one of one.
OnlyTwo    == <<2>>
TwoAndOne  == <<2, 1>>

\* Requests that walk a checkout are interchangeable, and so are lanes without strays.
Interchangeable == Permutations(Workers) \cup Permutations(Lanes)

=============================================================================
