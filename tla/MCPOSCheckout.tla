----------------------------- MODULE MCPOSCheckout -----------------------------
(* Instances of POSCheckout for TLC. *)
EXTENDS POSCheckout, TLC

CONSTANTS mixed, card, again, cash

\* Cash and a card, a card, another card, and cash alone.
Plans    == (mixed :> <<"Cash", "Card">>) @@ (card :> <<"Card">>)
                @@ (again :> <<"Card">>) @@ (cash :> <<"Cash">>)
CardPlan == card :> <<"Card">>
=============================================================================
