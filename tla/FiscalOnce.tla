------------------------------- MODULE FiscalOnce -------------------------------
(* What a business operation may expect of fiscalization: DPS receives its    *)
(* document once, and the ledger calls it fiscalized only after that and for  *)
(* good.  Losses, retries, crashes and cancelled attempts do not show.        *)
CONSTANT Keys
VARIABLE fate     \* of an idempotency key: "new", then "held" by DPS, then "told"

Init == fate = [k \in Keys |-> "new"]

Accept(k) == fate[k] = "new"  /\ fate' = [fate EXCEPT ![k] = "held"]
Report(k) == fate[k] = "held" /\ fate' = [fate EXCEPT ![k] = "told"]

Next == \E k \in Keys : Accept(k) \/ Report(k)

Spec == Init /\ [][Next]_fate
=============================================================================
