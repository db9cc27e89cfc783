--------------------------- MODULE RegisterRefinement ---------------------------
(* PRRORegister implements FiscalOnce. *)
EXTENDS PRRORegister

DocsOf(k)     == {r \in dps.docs : ledger[r].key = k}
Reported(k)   == \E r \in Receipts : ledger[r].key = k /\ ledger[r].status = "Fiscalized"

\* The fate of a key: two accepted documents for one key have no abstract counterpart.
Fate(k) ==
    CASE \E r, q \in DocsOf(k) : r # q -> "twice"
      [] DocsOf(k) = {} /\ ~Reported(k) -> "new"
      [] DocsOf(k) = {} /\ Reported(k) -> "untold"
      [] OTHER -> IF Reported(k) THEN "told" ELSE "held"

Once == INSTANCE FiscalOnce WITH fate <- [k \in Keys |-> Fate(k)]

\* Fiscalization is exactly-once as seen by its callers: every step of the
\* register is an acceptance, a report or a step that does not show.
ImplementsFiscalOnce == Once!Spec

=============================================================================
