-------------------------- MODULE MCEcommerceOrders --------------------------
(* Instances of EcommerceOrders for TLC. *)
EXTENDS EcommerceOrders

CONSTANTS o1, o2, o3

Of(o, a) == [order |-> o, action |-> a]

\* The orders as they come in, and as their statuses change.
Shop == << << Of(o1, "SalesOrder"), Of(o2, "SalesInvoice") >>,
           << Of(o2, "UpdateStatus"), Of(o1, "Converge"), Of(o3, "Ignore") >> >>

\* One shop sells from its own stock with the PRRO on, one through the group
\* stock; one order of each is not fully mapped.
Unmapped(o, p) == [x \in Orders |-> IF x = o THEN p ELSE None]
TwoChannels == {[fulfils |-> FALSE, prro |-> TRUE, unmapped |-> Unmapped(o1, "route")],
                [fulfils |-> TRUE, prro |-> FALSE, unmapped |-> Unmapped(o2, "item")]}
=============================================================================
