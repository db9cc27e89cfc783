------------------------------- MODULE MCCashDesk -------------------------------
(* Instances of CashDesk for TLC. *)
EXTENDS CashDesk

CONSTANTS out1, out2, o1

\* Expenses of one unit.
Expenses == [m \in Moves |-> -1]
=============================================================================
