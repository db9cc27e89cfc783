-------------------------- MODULE POSCheckoutProofs --------------------------
(***************************************************************************)
(* What a posted order promises, for every set of keys, plans and          *)
(* requests: it was paid in full, its drawer movements are there once, and *)
(* it is completed only with its receipt.                                  *)
(***************************************************************************)
EXTENDS POSCheckout, FiniteSetTheorems, TLAPS

Answers == {"Confirmed", "Failed"}

\* Every variable has the values of its DocType; attempts play no part.
OrderType   == [status : {"Building", "Held", "Cancelled", "Payment In Progress",
                          "Payment Unknown", "Awaiting Payment", "Fiscal Pending", "Completed"},
                fiscal : BOOLEAN, key : Keys \cup {NoKey}, plan : Seq(Answers),
                invoice : BOOLEAN]
RequestType == [at : {"idle", "card", "asked", "fiscal"}, key : Keys \cup {NoKey}, row : Nat,
                plan : Seq(Answers), unknown : BOOLEAN, fresh : BOOLEAN]
Typed ==
    /\ order \in OrderType
    /\ request \in [Requests -> RequestType]
    /\ bank \in [CardOps -> {"none", "charged", "refused", "cancelled"}]
    /\ drawer \in [Rows -> {0, 1}]

\* A plan of key k that says no more than the bank does.
Backed(k, p, b) ==
    \A i \in DOMAIN p : p[i] = "Confirmed" /\ PlanOf[k][i] = "Card" => b[<<k, i>>] = "charged"

OrderBacked ==
    /\ order.key = NoKey => order.plan = <<>>
    /\ order.key \in Keys => /\ Len(order.plan) = Len(PlanOf[order.key])
                             /\ Backed(order.key, order.plan, bank)

CardRow(k, i) == k \in Keys /\ i \in RowsOf(k) /\ PlanOf[k][i] = "Card"

QueryBacked(q, b) ==
    /\ q.at \in {"card", "asked"} => CardRow(q.key, q.row)
    /\ q.at = "card" => Len(q.plan) = q.row - 1 /\ Backed(q.key, q.plan, b)
RequestBacked == \A r \in Requests : QueryBacked(request[r], bank)

\* The request that saved the order last knows what state it left it in.
CardKnows == \A r \in Requests :
    request[r].fresh /\ request[r].at = "card" => order.status = "Payment In Progress"
FiscalKnows == \A r \in Requests :
    request[r].fresh /\ request[r].at = "fiscal" => order.invoice /\ order.fiscal

PendingIsPosted == order.status = "Fiscal Pending" => order.invoice

IInv == /\ Typed /\ OrderBacked /\ RequestBacked /\ CardKnows /\ FiscalKnows
        /\ PendingIsPosted
        /\ PaidInFull /\ DrawerFollowsInvoice /\ CompletedIsFiscal

-----------------------------------------------------------------------------
(* Card operations are the card rows of the plans.                         *)

LEMMA EmptyPlan == <<>> \in Seq(Answers) /\ Len(<<>>) = 0
OBVIOUS

LEMMA CardOpRow == \A o \in CardOps : o = <<o[1], o[2]>> /\ CardRow(o[1], o[2])
BY DEF CardOps, Ops, CardRow

LEMMA RowCardOp == \A k, i : CardRow(k, i) => <<k, i>> \in CardOps
BY DEF CardOps, Ops, CardRow

LEMMA RowInRows == \A k \in Keys : RowsOf(k) \subseteq Rows
BY DEF Rows

LEMMA PlanFacts == \A k \in Keys : /\ PlanOf[k] \in Seq({"Cash", "Card"})
                                   /\ RowsOf(k) = 1 .. Len(PlanOf[k])
                                   /\ Len(PlanOf[k]) \in Nat \ {0}
<1>1. ASSUME NEW k \in Keys
      PROVE  /\ PlanOf[k] \in Seq({"Cash", "Card"}) /\ PlanOf[k] # <<>>
             /\ RowsOf(k) = 1 .. Len(PlanOf[k])
  BY PlanAssumption DEF RowsOf
<1>2. ASSUME NEW k \in Keys
      PROVE  Len(PlanOf[k]) \in Nat \ {0}
  BY <1>1
<1> QED
  BY <1>1, <1>2

\* The bank never takes a charge back.
ChargesStay == \A o \in CardOps : bank[o] = "charged" => bank'[o] = "charged"

LEMMA BackedStays ==
    ASSUME ChargesStay, NEW k \in Keys, NEW p \in Seq(Answers), Len(p) =< Len(PlanOf[k]),
           Backed(k, p, bank)
    PROVE  Backed(k, p, bank')
<1> SUFFICES ASSUME NEW i \in DOMAIN p, p[i] = "Confirmed", PlanOf[k][i] = "Card"
             PROVE  bank'[<<k, i>>] = "charged"
  BY DEF Backed
<1>1. i \in RowsOf(k)
  BY PlanFacts
<1>2. <<k, i>> \in CardOps
  BY <1>1, RowCardOp DEF CardRow
<1> QED
  BY <1>2 DEF ChargesStay, Backed

-----------------------------------------------------------------------------
(* The plan a request goes on with, and what a step does with it.          *)

PlanTo(done, next) == [i \in 1 .. (next - 1) |-> IF i =< Len(done) THEN done[i] ELSE "Confirmed"]

LEMMA PlanToBacked ==
    ASSUME NEW k \in Keys, NEW done \in Seq(Answers), NEW next \in 1 .. Len(PlanOf[k]) + 1,
           NextCard(k, Len(done), next), NEW b, Backed(k, done, b)
    PROVE  /\ PlanTo(done, next) \in Seq(Answers)
           /\ Len(PlanTo(done, next)) = next - 1
           /\ Backed(k, PlanTo(done, next), b)
<1> DEFINE p == PlanTo(done, next)
<1>0. next \in Nat /\ next >= 1
  BY PlanFacts
<1>1. p \in Seq(Answers) /\ Len(p) = next - 1
  <2>1. \A i \in 1 .. (next - 1) : p[i] \in Answers
    BY DEF PlanTo, Answers
  <2> QED
    BY <1>0, <2>1 DEF PlanTo
<1>2. ASSUME NEW i \in DOMAIN p, p[i] = "Confirmed", PlanOf[k][i] = "Card"
      PROVE  b[<<k, i>>] = "charged"
  <2>1. i \in 1 .. (next - 1) /\ i \in RowsOf(k)
    BY <1>0, <1>1, PlanFacts DEF PlanTo
  <2>2. i =< Len(done)
    <3>1. Len(done) \in Nat
      OBVIOUS
    <3>2. CASE i > Len(done)
      BY <1>0, <1>2, <2>1, <3>1, <3>2 DEF NextCard
    <3> QED
      BY <2>1, <3>1, <3>2
  <2>3. i \in DOMAIN done /\ done[i] = "Confirmed"
    BY <1>2, <2>1, <2>2 DEF PlanTo
  <2> QED
    BY <1>2, <2>3 DEF Backed
<1> QED
  BY <1>1, <1>2 DEF Backed

LEMMA IdleFacts == /\ Idle.at = "idle"
                   /\ [Idle EXCEPT !.at = "fiscal"].at = "fiscal"
BY DEF Idle

LEMMA IdleTyped == Idle \in RequestType /\ [Idle EXCEPT !.at = "fiscal"] \in RequestType
BY EmptyPlan DEF Idle, RequestType

\* The request goes on with an old copy of the order, unless it is idle.
Stale(x) == /\ request'[x].at = request[x].at /\ request'[x].key = request[x].key
            /\ request'[x].row = request[x].row /\ request'[x].plan = request[x].plan
            /\ request'[x].fresh => request[x].at = "idle"

LEMMA OutdatedFacts ==
    ASSUME Typed
    PROVE  /\ Outdated \in [Requests -> RequestType]
           /\ \A x \in Requests :
                /\ Outdated[x].at = request[x].at /\ Outdated[x].key = request[x].key
                /\ Outdated[x].row = request[x].row /\ Outdated[x].plan = request[x].plan
                /\ Outdated[x].fresh => request[x].at = "idle"
<1>1. \A x \in Requests : Outdated[x] = [request[x] EXCEPT !.fresh = (request[x].at = "idle")]
  BY DEF Outdated
<1>2. \A x \in Requests : request[x] \in RequestType
  BY DEF Typed
<1>3. ASSUME NEW x \in Requests
      PROVE  /\ Outdated[x] \in RequestType
             /\ Outdated[x].at = request[x].at /\ Outdated[x].key = request[x].key
             /\ Outdated[x].row = request[x].row /\ Outdated[x].plan = request[x].plan
             /\ Outdated[x].fresh => request[x].at = "idle"
  <2>1. CASE request[x].at = "idle"
    <3>1. Outdated[x] = [request[x] EXCEPT !.fresh = TRUE]
      BY <1>1, <2>1
    <3> QED
      BY <3>1, <2>1, <1>2 DEF RequestType
  <2>2. CASE request[x].at # "idle"
    <3>1. Outdated[x] = [request[x] EXCEPT !.fresh = FALSE]
      BY <1>1, <2>2
    <3> QED
      BY <3>1, <2>2, <1>2 DEF RequestType
  <2> QED
    BY <2>1, <2>2
<1>4. Outdated \in [Requests -> RequestType]
  <2>1. Outdated = [x \in Requests |-> Outdated[x]]
    BY DEF Outdated
  <2> QED
    BY <1>3, <2>1
<1> QED
  BY <1>3, <1>4

\* A save leaves the saver with q and every other request with an old copy.
LEMMA SaveOutdates ==
    ASSUME Typed, NEW r \in Requests, NEW q \in RequestType, Save(r, q)
    PROVE  /\ request' \in [Requests -> RequestType]
           /\ request'[r] = q
           /\ \A x \in Requests \ {r} : Stale(x)
<1>1. request' = [Outdated EXCEPT ![r] = q]
  BY DEF Save
<1> QED
  BY <1>1, OutdatedFacts DEF Stale

\* A save by nobody who serves a request leaves all of them with an old copy.
LEMMA ElsewhereOutdates ==
    ASSUME Typed, RequestBacked, bank' = bank, SavedElsewhere
    PROVE  /\ request' \in [Requests -> RequestType]
           /\ RequestBacked' /\ CardKnows' /\ FiscalKnows'
<1>1. request' = Outdated
  BY DEF SavedElsewhere
<1>2. \A x \in Requests : Stale(x)
  BY <1>1, OutdatedFacts DEF Stale
<1>3. RequestBacked'
  BY <1>2 DEF RequestBacked, QueryBacked, Stale
<1>4. CardKnows' /\ FiscalKnows'
  BY <1>2 DEF CardKnows, FiscalKnows, Stale
<1> QED
  BY <1>1, <1>3, <1>4, OutdatedFacts

\* What other requests hold stays backed, and they know nothing any more.
LEMMA StaleRequests ==
    ASSUME RequestBacked, bank' = bank, NEW r \in Requests,
           \A x \in Requests \ {r} : Stale(x)
    PROVE  /\ QueryBacked(request'[r], bank) => RequestBacked'
           /\ (request'[r].at # "card" \/ order'.status = "Payment In Progress") => CardKnows'
           /\ (request'[r].at # "fiscal" \/ (order'.invoice /\ order'.fiscal)) => FiscalKnows'
<1>1. ASSUME NEW x \in Requests \ {r}
      PROVE  QueryBacked(request'[x], bank)
  BY DEF RequestBacked, QueryBacked, Stale
<1>2. QueryBacked(request'[r], bank) => RequestBacked'
  BY <1>1 DEF RequestBacked
<1>3. ASSUME NEW x \in Requests, request'[x].fresh, request'[x].at # "idle"
      PROVE  x = r
  BY <1>3 DEF Stale
<1>4. ASSUME request'[r].at # "card" \/ order'.status = "Payment In Progress"
      PROVE  CardKnows'
  <2> SUFFICES ASSUME NEW x \in Requests, request'[x].fresh, request'[x].at = "card"
               PROVE  order'.status = "Payment In Progress"
    BY DEF CardKnows
  <2>1. x = r
    BY <1>3
  <2> QED
    BY <1>4, <2>1
<1>5. ASSUME request'[r].at # "fiscal" \/ (order'.invoice /\ order'.fiscal)
      PROVE  FiscalKnows'
  <2> SUFFICES ASSUME NEW x \in Requests, request'[x].fresh, request'[x].at = "fiscal"
               PROVE  order'.invoice /\ order'.fiscal
    BY DEF FiscalKnows
  <2>1. x = r
    BY <1>3
  <2> QED
    BY <1>5, <2>1
<1> QED
  BY <1>2, <1>4, <1>5

\* The order is not posted, and stays so while it is not paid.
Open == ~order.invoice

LEMMA LeaveKeeps ==
    ASSUME IInv, Open, ChargesStay, bank' = bank, receipt' = receipt,
           NEW r \in Requests, NEW k \in Keys, NEW p \in Seq(Answers),
           Len(p) = Len(PlanOf[k]), Backed(k, p, bank),
           NEW s \in {"Payment Unknown", "Awaiting Payment"}, Leave(r, k, p, s)
    PROVE  IInv'
<1>1. /\ order' = [order EXCEPT !.status = s, !.key = k, !.plan = p]
      /\ Save(r, Idle) /\ drawer' = drawer
  BY DEF Leave
<1>2. /\ request' \in [Requests -> RequestType] /\ request'[r] = Idle
      /\ \A x \in Requests \ {r} :
                Stale(x)
  BY <1>1, SaveOutdates, IdleTyped DEF IInv
<1>3. /\ order' \in OrderType
      /\ order'.key = k /\ order'.plan = p /\ ~order'.invoice /\ order'.status = s
      /\ order'.fiscal = order.fiscal
  BY <1>1 DEF IInv, Typed, Open, OrderType
<1>4. Typed'
  BY <1>1, <1>2, <1>3 DEF IInv, Typed
<1>5. OrderBacked'
  BY <1>3, PlanAssumption DEF OrderBacked
<1>6. RequestBacked' /\ CardKnows' /\ FiscalKnows'
  <2>0. request'[r].at = "idle"
    BY <1>2, IdleFacts
  <2>1. QueryBacked(request'[r], bank) /\ request'[r].at = "idle"
    BY <2>0 DEF QueryBacked
  <2>2. RequestBacked
    BY DEF IInv
  <2> QED
    BY <1>2, <2>1, <2>2, StaleRequests
<1>8. PaidInFull' /\ PendingIsPosted'
  BY <1>3 DEF PaidInFull, PendingIsPosted
<1>9. DrawerFollowsInvoice'
  BY <1>1, <1>3 DEF IInv, DrawerFollowsInvoice, Open
<1>10. CompletedIsFiscal'
  BY <1>3 DEF IInv, CompletedIsFiscal, Open
<1> QED
  BY <1>4, <1>5, <1>6, <1>8, <1>9, <1>10 DEF IInv

\* The order is posted: now, or already and from the plan of the same key.
LEMMA CompleteKeeps ==
    ASSUME IInv, ChargesStay, bank' = bank, receipt' = receipt,
           NEW r \in Requests, NEW k \in Keys, NEW p \in Seq(Answers),
           Len(p) = Len(PlanOf[k]), Backed(k, p, bank), AllConfirmed(p),
           order.invoice => order.key = k, Complete(r, k, p)
    PROVE  IInv'
<1> DEFINE q == IF order.fiscal THEN [Idle EXCEPT !.at = "fiscal"] ELSE Idle
<1>1. /\ order' = [order EXCEPT !.status = IF order.fiscal THEN "Fiscal Pending" ELSE "Completed",
                                !.key = k, !.plan = p, !.invoice = TRUE]
      /\ Save(r, q) /\ drawer' = Movements(p)
  BY DEF Complete
<1>2. q \in RequestType /\ q.at \in {"idle", "fiscal"} /\ (q.at = "fiscal" => order.fiscal)
  BY IdleTyped, IdleFacts
<1> HIDE DEF q
<1>3. /\ request' \in [Requests -> RequestType] /\ request'[r] = q
      /\ \A x \in Requests \ {r} : Stale(x)
  BY <1>1, <1>2, SaveOutdates DEF IInv
<1>4. /\ order' \in OrderType
      /\ order'.key = k /\ order'.plan = p /\ order'.invoice
      /\ order'.status = (IF order.fiscal THEN "Fiscal Pending" ELSE "Completed")
      /\ order'.fiscal = order.fiscal
  BY <1>1 DEF IInv, Typed, OrderType
<1>5. /\ DOMAIN p = RowsOf(k) /\ RowsOf(k) \subseteq Rows
      /\ \A i \in DOMAIN p : p[i] = "Confirmed"
  BY PlanFacts, RowInRows DEF AllConfirmed
<1>6. drawer' = [i \in Rows |-> IF i \in DOMAIN p THEN 1 ELSE 0]
  <2>1. \A i \in Rows : drawer[i] \in {0, 1}
    BY DEF IInv, Typed
  <2>2. ASSUME NEW i \in Rows, i \notin DOMAIN p
        PROVE  drawer[i] = 0
    <3>1. CASE order.invoice
      <4>1. order.key = k /\ Len(order.plan) = Len(PlanOf[k]) /\ order.plan \in Seq(Answers)
        BY <3>1 DEF IInv, PaidInFull, Typed, OrderType
      <4>2. DOMAIN order.plan = DOMAIN p
        BY <4>1
      <4> QED
        BY <2>2, <4>2 DEF IInv, DrawerFollowsInvoice
    <3>2. CASE ~order.invoice
      BY <3>2 DEF IInv, DrawerFollowsInvoice
    <3> QED
      BY <3>1, <3>2
  <2>3. ASSUME NEW i \in Rows
        PROVE  (IF i \in DOMAIN p /\ p[i] = "Confirmed" /\ drawer[i] = 0 THEN 1 ELSE drawer[i])
               = (IF i \in DOMAIN p THEN 1 ELSE 0)
    BY <1>5, <2>1, <2>2
  <2> QED
    BY <1>1, <2>3 DEF Movements
<1>7. Typed'
  BY <1>3, <1>4, <1>6 DEF IInv, Typed
<1>8. OrderBacked'
  BY <1>4, PlanAssumption DEF OrderBacked
<1>9. RequestBacked' /\ CardKnows' /\ FiscalKnows'
  <2>1. request'[r].at # "card" /\ request'[r].at # "asked"
        /\ (request'[r].at = "fiscal" => order'.invoice /\ order'.fiscal)
    BY <1>2, <1>3, <1>4
  <2>2. QueryBacked(request'[r], bank)
    BY <2>1 DEF QueryBacked
  <2>3. RequestBacked
    BY DEF IInv
  <2> QED
    BY <1>3, <2>1, <2>2, <2>3, StaleRequests
<1>10. PaidInFull'
  <2>1. ASSUME NEW o \in CardOps, o[1] = k
        PROVE  bank[o] = "charged"
    <3>1. o = <<k, o[2]>> /\ o[2] \in RowsOf(k) /\ PlanOf[k][o[2]] = "Card"
      BY <2>1, CardOpRow DEF CardRow
    <3> QED
      BY <3>1, <1>5 DEF Backed
  <2> QED
    BY <1>4, <2>1 DEF PaidInFull
<1>11. DrawerFollowsInvoice'
  BY <1>4, <1>6 DEF DrawerFollowsInvoice
<1>12. PendingIsPosted' /\ CompletedIsFiscal'
  BY <1>4 DEF PendingIsPosted, CompletedIsFiscal
<1> QED
  BY <1>7, <1>8, <1>9, <1>10, <1>11, <1>12 DEF IInv

\* A request commits its next card row and waits for the terminal.
SendCard(r, k, p, next, unknown) ==
    /\ order' = [order EXCEPT !.status = "Payment In Progress", !.key = NoKey, !.plan = <<>>]
    /\ Save(r, [at |-> "card", key |-> k, row |-> next, plan |-> p,
                unknown |-> unknown, fresh |-> TRUE])
    /\ UNCHANGED drawer

LEMMA SendCardKeeps ==
    ASSUME IInv, Open, bank' = bank, receipt' = receipt,
           NEW r \in Requests, NEW k \in Keys, NEW p \in Seq(Answers),
           NEW next \in RowsOf(k), PlanOf[k][next] = "Card", Len(p) = next - 1,
           Backed(k, p, bank), NEW unknown \in BOOLEAN,
           SendCard(r, k, p, next, unknown)
    PROVE  IInv'
<1> DEFINE q == [at |-> "card", key |-> k, row |-> next, plan |-> p,
                 unknown |-> unknown, fresh |-> TRUE]
<1>1. /\ order' = [order EXCEPT !.status = "Payment In Progress", !.key = NoKey, !.plan = <<>>]
      /\ Save(r, q) /\ drawer' = drawer
  BY DEF SendCard
<1>2. /\ q \in RequestType /\ q.at = "card" /\ q.key = k /\ q.row = next /\ q.plan = p
  <2>1. next \in Nat
    BY PlanFacts
  <2> QED
    BY <2>1 DEF RequestType
<1> HIDE DEF q
<1>3. /\ request' \in [Requests -> RequestType] /\ request'[r] = q
      /\ \A x \in Requests \ {r} : Stale(x)
  BY <1>1, <1>2, SaveOutdates DEF IInv
<1>4. /\ order' \in OrderType
      /\ order'.key = NoKey /\ order'.plan = <<>> /\ ~order'.invoice
      /\ order'.status = "Payment In Progress" /\ order'.fiscal = order.fiscal
  BY <1>1, EmptyPlan DEF IInv, Typed, Open, OrderType
<1>5. Typed'
  BY <1>1, <1>3, <1>4 DEF IInv, Typed
<1>6. OrderBacked'
  BY <1>4, PlanAssumption DEF OrderBacked
<1>7. RequestBacked' /\ CardKnows' /\ FiscalKnows'
  <2>1. request'[r].at = "card" /\ request'[r].key = k /\ request'[r].row = next
        /\ request'[r].plan = p
    BY <1>2, <1>3
  <2>2. QueryBacked(request'[r], bank)
    BY <2>1 DEF QueryBacked, CardRow
  <2>3. RequestBacked
    BY DEF IInv
  <2> QED
    BY <1>3, <1>4, <2>1, <2>2, <2>3, StaleRequests
<1>8. PaidInFull' /\ PendingIsPosted'
  BY <1>4 DEF PaidInFull, PendingIsPosted
<1>9. DrawerFollowsInvoice'
  BY <1>1, <1>4 DEF IInv, DrawerFollowsInvoice, Open
<1>10. CompletedIsFiscal'
  BY <1>4 DEF IInv, CompletedIsFiscal, Open
<1> QED
  BY <1>5, <1>6, <1>7, <1>8, <1>9, <1>10 DEF IInv

LEMMA ProceedKeeps ==
    ASSUME IInv, Open, bank' = bank, receipt' = receipt,
           NEW r \in Requests, NEW k \in Keys, NEW done \in Seq(Answers),
           Backed(k, done, bank), NEW unknown \in BOOLEAN, NEW att,
           Proceed(r, k, done, unknown, att)
    PROVE  IInv'
<1>1. PICK next \in 1 .. Len(PlanOf[k]) + 1 :
        /\ NextCard(k, Len(done), next)
        /\ \/ next \in RowsOf(k) /\ SendCard(r, k, PlanTo(done, next), next, unknown)
           \/ /\ next \notin RowsOf(k)
              /\ \/ Leave(r, k, PlanTo(done, next), "Payment Unknown")
                 \/ Leave(r, k, PlanTo(done, next), "Awaiting Payment")
                 \/ /\ AllConfirmed(PlanTo(done, next))
                    /\ Complete(r, k, PlanTo(done, next))
  BY DEF Proceed, PlanTo, SendCard
<1> DEFINE p == PlanTo(done, next)
<1>2. p \in Seq(Answers) /\ Len(p) = next - 1 /\ Backed(k, p, bank)
  BY <1>1, PlanToBacked
<1> HIDE DEF p
<1>3. ChargesStay
  BY DEF ChargesStay
<1>4. CASE next \in RowsOf(k) /\ SendCard(r, k, p, next, unknown)
  <2>1. PlanOf[k][next] = "Card"
    BY <1>1, <1>4 DEF NextCard
  <2> QED
    BY <1>2, <1>4, <2>1, SendCardKeeps
<1>5. next \notin RowsOf(k) => Len(p) = Len(PlanOf[k])
  <2>1. RowsOf(k) = 1 .. Len(PlanOf[k]) /\ Len(PlanOf[k]) \in Nat
    BY PlanFacts
  <2>2. next \in Nat /\ next >= 1 /\ next =< Len(PlanOf[k]) + 1
    BY <2>1
  <2> QED
    BY <1>2, <2>1, <2>2
<1>6. CASE next \notin RowsOf(k) /\ Leave(r, k, p, "Payment Unknown")
  BY <1>2, <1>3, <1>5, <1>6, LeaveKeeps
<1>7. CASE next \notin RowsOf(k) /\ Leave(r, k, p, "Awaiting Payment")
  BY <1>2, <1>3, <1>5, <1>7, LeaveKeeps
<1>8. CASE next \notin RowsOf(k) /\ AllConfirmed(p) /\ Complete(r, k, p)
  BY <1>2, <1>3, <1>5, <1>8, CompleteKeeps DEF Open
<1> QED
  BY <1>1, <1>4, <1>6, <1>7, <1>8 DEF p

-----------------------------------------------------------------------------
(* Every step keeps the invariant.                                         *)

LEMMA InitKeeps == ASSUME Init PROVE IInv
<1>1. /\ order \in OrderType /\ order.status = "Building" /\ order.key = NoKey
      /\ order.plan = <<>> /\ ~order.invoice
  BY EmptyPlan DEF Init, OrderType
<1>2. \A r \in Requests : request[r] = Idle /\ request[r].at = "idle"
  BY IdleFacts DEF Init
<1>3. Typed
  BY <1>1, <1>2, IdleTyped DEF Init, Typed
<1>4. OrderBacked /\ RequestBacked
  BY <1>1, <1>2, PlanAssumption DEF OrderBacked, RequestBacked, QueryBacked
<1>5. CardKnows /\ FiscalKnows /\ PendingIsPosted
  BY <1>1, <1>2 DEF CardKnows, FiscalKnows, PendingIsPosted
<1>6. PaidInFull /\ DrawerFollowsInvoice /\ CompletedIsFiscal
  BY <1>1 DEF Init, PaidInFull, DrawerFollowsInvoice, CompletedIsFiscal
<1> QED
  BY <1>3, <1>4, <1>5, <1>6 DEF IInv

LEMMA CheckoutStartKeeps ==
    ASSUME IInv, NEW r \in Requests, NEW k \in Keys, CheckoutStart(r, k)
    PROVE  IInv'
<1>1. Open
  BY DEF CheckoutStart, Payable, IInv, CompletedIsFiscal, Open
<1>2. Backed(k, <<>>, bank)
  BY DEF Backed
<1>3. Proceed(r, k, <<>>, FALSE, attempts) /\ bank' = bank /\ receipt' = receipt
  BY DEF CheckoutStart
<1> QED
  BY <1>1, <1>2, <1>3, EmptyPlan, ProceedKeeps

\* The terminal confirms only what the bank charged, and never denies a charge.
LEMMA SaysTruth ==
    ASSUME NEW o \in CardOps, NEW answer \in Says(o)
    PROVE  /\ answer = "confirmed" => bank[o] = "charged"
           /\ bank[o] = "charged" => answer \in {"unknown", "confirmed"}
BY DEF Says

LEMMA AppendFacts ==
    ASSUME NEW p \in Seq(Answers), NEW e \in Answers, NEW n \in Nat, Len(p) = n - 1
    PROVE  /\ DOMAIN Append(p, e) = 1 .. n
           /\ \A i \in 1 .. n : Append(p, e)[i] = IF i < n THEN p[i] ELSE e
<1>1. Append(p, e) \in Seq(Answers) /\ Len(Append(p, e)) = n
  OBVIOUS
<1>2. ASSUME NEW i \in 1 .. n
      PROVE  Append(p, e)[i] = IF i < n THEN p[i] ELSE e
  OBVIOUS
<1> QED
  BY <1>1, <1>2

LEMMA AnswerKeeps ==
    ASSUME IInv, NEW r \in Requests, Answer(r)
    PROVE  IInv'
<1> DEFINE q == request[r]
           o == <<q.key, q.row>>
<1>1. /\ q.at = "card" /\ q.fresh /\ bank' = bank /\ receipt' = receipt
  BY DEF Answer
<1>2. PICK answer \in Says(o) : \E att :
        Proceed(r, q.key, Append(q.plan, RowStatus(answer)), q.unknown \/ Unclear(answer), att)
  BY DEF Answer
<1>2a. PICK att :
        Proceed(r, q.key, Append(q.plan, RowStatus(answer)), q.unknown \/ Unclear(answer), att)
  BY <1>2
<1>3. q \in RequestType /\ QueryBacked(q, bank)
  BY DEF IInv, Typed, RequestBacked
<1>4. /\ CardRow(q.key, q.row) /\ Len(q.plan) = q.row - 1 /\ Backed(q.key, q.plan, bank)
      /\ q.plan \in Seq(Answers) /\ q.row \in Nat
  BY <1>1, <1>3 DEF QueryBacked, RequestType
<1>5. Open
  BY <1>1 DEF IInv, CardKnows, CompletedIsFiscal, Open
<1> DEFINE done == Append(q.plan, RowStatus(answer))
<1>6. RowStatus(answer) \in Answers
  BY DEF RowStatus, Answers
<1>7. done \in Seq(Answers)
  BY <1>4, <1>6
<1>8. Backed(q.key, done, bank)
  <2> SUFFICES ASSUME NEW i \in DOMAIN done, done[i] = "Confirmed", PlanOf[q.key][i] = "Card"
               PROVE  bank[<<q.key, i>>] = "charged"
    BY DEF Backed
  <2>0. /\ i \in 1 .. q.row
        /\ done[i] = IF i < q.row THEN q.plan[i] ELSE RowStatus(answer)
    BY <1>4, <1>6, AppendFacts
  <2>1. CASE i < q.row
    <3>1. i \in DOMAIN q.plan /\ done[i] = q.plan[i]
      BY <1>4, <2>0, <2>1
    <3> QED
      BY <1>4, <3>1 DEF Backed
  <2>2. CASE ~(i < q.row)
    <3>1. i = q.row /\ done[i] = RowStatus(answer)
      BY <1>4, <2>0, <2>2
    <3>2. answer = "confirmed"
      BY <3>1 DEF RowStatus
    <3> QED
      BY <1>4, <3>1, <3>2, RowCardOp, SaysTruth
  <2> QED
    BY <2>1, <2>2
<1>9. (q.unknown \/ Unclear(answer)) \in BOOLEAN
  BY DEF Unclear
<1>10. q.key \in Keys
  BY <1>4 DEF CardRow
<1> QED
  BY <1>1, <1>2a, <1>5, <1>7, <1>8, <1>9, <1>10, ProceedKeeps

LEMMA AskStatusKeeps ==
    ASSUME IInv, NEW r \in Requests, NEW o \in CardOps, AskStatus(r, o)
    PROVE  IInv'
<1> DEFINE q == [Idle EXCEPT !.at = "asked", !.key = o[1], !.row = o[2]]
<1>1. /\ request' = [request EXCEPT ![r] = q]
      /\ order' = order /\ bank' = bank /\ receipt' = receipt /\ drawer' = drawer
  BY DEF AskStatus
<1>2. CardRow(o[1], o[2]) /\ o[2] \in Nat
  BY CardOpRow, PlanFacts DEF CardRow
<1>3. q.at = "asked" /\ q.key = o[1] /\ q.row = o[2]
  BY DEF Idle
<1>4. q \in RequestType
  BY <1>2, EmptyPlan DEF Idle, RequestType, CardRow
<1> HIDE DEF q
<1>5. \A x \in Requests : request'[x] = IF x = r THEN q ELSE request[x]
  BY <1>1 DEF IInv, Typed
<1>6. Typed'
  BY <1>1, <1>4 DEF IInv, Typed
<1>7. RequestBacked'
  <2>1. QueryBacked(q, bank)
    BY <1>2, <1>3 DEF QueryBacked
  <2>2. \A x \in Requests : QueryBacked(request'[x], bank)
    BY <1>5, <2>1 DEF IInv, RequestBacked
  <2> QED
    BY <1>1, <2>2 DEF RequestBacked
<1>8. CardKnows' /\ FiscalKnows'
  BY <1>1, <1>3, <1>5 DEF IInv, CardKnows, FiscalKnows
<1>9. /\ OrderBacked' /\ PendingIsPosted' /\ PaidInFull' /\ DrawerFollowsInvoice'
      /\ CompletedIsFiscal'
  BY <1>1 DEF IInv, OrderBacked, PendingIsPosted, PaidInFull, DrawerFollowsInvoice,
              CompletedIsFiscal
<1> QED
  BY <1>6, <1>7, <1>8, <1>9 DEF IInv

LEMMA ExceptFacts ==
    ASSUME NEW p \in Seq(Answers), NEW j, NEW e \in Answers
    PROVE  [p EXCEPT ![j] = e] \in Seq(Answers) /\ Len([p EXCEPT ![j] = e]) = Len(p)
<1>1. Len(p) \in Nat /\ p \in [1 .. Len(p) -> Answers]
  OBVIOUS
<1>2. [p EXCEPT ![j] = e] \in [1 .. Len(p) -> Answers]
  BY <1>1
<1>3. \A f \in [1 .. Len(p) -> Answers] : f \in Seq(Answers) /\ Len(f) = Len(p)
  BY <1>1
<1> QED
  BY <1>2, <1>3

\* What the answer makes of the plan of the order.
LEMMA StatusPlan ==
    ASSUME IInv, NEW o \in CardOps, NEW answer \in Says(o), NEW plan,
           \/ plan = order.plan
           \/ /\ order.key = o[1] /\ answer # "unknown"
              /\ plan = [order.plan EXCEPT ![o[2]] = RowStatus(answer)]
    PROVE  /\ plan \in Seq(Answers)
           /\ order.key = NoKey => plan = <<>>
           /\ order.key \in Keys => /\ Len(plan) = Len(PlanOf[order.key])
                                    /\ Backed(order.key, plan, bank)
           /\ order.invoice => AllConfirmed(plan)
<1>1. order.plan \in Seq(Answers) /\ order.key \in Keys \cup {NoKey}
  BY DEF IInv, Typed, OrderType
<1>2. CASE plan = order.plan
  BY <1>1, <1>2 DEF IInv, OrderBacked, PaidInFull
<1>3. CASE /\ order.key = o[1] /\ answer # "unknown"
           /\ plan = [order.plan EXCEPT ![o[2]] = RowStatus(answer)]
  <2>1. o = <<order.key, o[2]>> /\ order.key \in Keys /\ o[2] \in RowsOf(order.key)
    BY <1>3, CardOpRow DEF CardRow
  <2>2. /\ Len(order.plan) = Len(PlanOf[order.key]) /\ Backed(order.key, order.plan, bank)
        /\ order.key # NoKey
    BY <2>1, PlanAssumption DEF IInv, OrderBacked
  <2>3. RowStatus(answer) \in Answers
    BY DEF RowStatus, Answers
  <2>4. plan \in Seq(Answers) /\ Len(plan) = Len(order.plan)
    BY <1>1, <1>3, <2>3, ExceptFacts
  <2>5. \A i \in DOMAIN plan : i \in DOMAIN order.plan
                               /\ plan[i] = IF i = o[2] THEN RowStatus(answer) ELSE order.plan[i]
    BY <1>1, <1>3, <2>3
  <2>6. Backed(order.key, plan, bank)
    <3>1. RowStatus(answer) = "Confirmed" => bank[o] = "charged"
      BY SaysTruth DEF RowStatus
    <3> QED
      BY <2>1, <2>2, <2>5, <3>1 DEF Backed
  <2>7. ASSUME order.invoice
        PROVE  AllConfirmed(plan)
    <3>1. AllConfirmed(order.plan) /\ bank[o] = "charged"
      BY <1>3, <2>7 DEF IInv, PaidInFull
    <3>2. RowStatus(answer) = "Confirmed"
      BY <1>3, <3>1, SaysTruth DEF RowStatus
    <3> QED
      BY <2>5, <3>1, <3>2 DEF AllConfirmed
  <2> QED
    BY <2>1, <2>2, <2>4, <2>6, <2>7
<1> QED
  BY <1>2, <1>3

LEMMA StatusAnswerKeeps ==
    ASSUME IInv, NEW r \in Requests, StatusAnswer(r)
    PROVE  IInv'
<1> DEFINE q == request[r]
           o == <<q.key, q.row>>
<1>1. q.at = "asked" /\ bank' = bank /\ receipt' = receipt
  BY DEF StatusAnswer
<1>2. PICK answer \in Says(o) : \E plan :
        /\ \/ plan = order.plan
           \/ /\ order.key = q.key /\ answer # "unknown"
              /\ plan = [order.plan EXCEPT ![q.row] = RowStatus(answer)]
        /\ \/ AllConfirmed(plan) /\ Complete(r, order.key, plan)
           \/ /\ ~AllConfirmed(plan)
              /\ \E s \in {"Payment Unknown", "Awaiting Payment"} : Leave(r, order.key, plan, s)
  <2>1. PICK answer \in Says(o) :
        LET now == CASE answer = "confirmed" -> "Confirmed"
                     [] answer = "unknown"   -> "Unknown"
                     [] OTHER                -> "Declined"
            plan == IF order.key # q.key \/ now = "Unknown" THEN order.plan
                    ELSE [order.plan EXCEPT ![q.row] = RowStatus(answer)]
        IN  \/ AllConfirmed(plan) /\ Complete(r, order.key, plan)
            \/ /\ ~AllConfirmed(plan)
               /\ \E s \in {"Payment Unknown", "Awaiting Payment"} : Leave(r, order.key, plan, s)
    BY DEF StatusAnswer
  <2> QED
    BY <2>1
<1>2a. PICK plan :
        /\ \/ plan = order.plan
           \/ /\ order.key = q.key /\ answer # "unknown"
              /\ plan = [order.plan EXCEPT ![q.row] = RowStatus(answer)]
        /\ \/ AllConfirmed(plan) /\ Complete(r, order.key, plan)
           \/ /\ ~AllConfirmed(plan)
              /\ \E s \in {"Payment Unknown", "Awaiting Payment"} : Leave(r, order.key, plan, s)
  BY <1>2
<1>3. o \in CardOps
  BY <1>1, RowCardOp DEF IInv, RequestBacked, QueryBacked
<1>4. /\ plan \in Seq(Answers)
      /\ order.key = NoKey => plan = <<>>
      /\ order.key \in Keys => /\ Len(plan) = Len(PlanOf[order.key])
                               /\ Backed(order.key, plan, bank)
      /\ order.invoice => AllConfirmed(plan)
  BY <1>2a, <1>3, StatusPlan
<1>5. order.key \in Keys \cup {NoKey}
  BY DEF IInv, Typed, OrderType
<1>6. ChargesStay
  BY <1>1 DEF ChargesStay
<1>7. CASE AllConfirmed(plan) /\ Complete(r, order.key, plan)
  <2>1. order.key \in Keys
    BY <1>4, <1>5, <1>7 DEF Complete
  <2> QED
    BY <1>1, <1>4, <1>6, <1>7, <2>1, CompleteKeeps
<1>8. CASE /\ ~AllConfirmed(plan)
           /\ \E s \in {"Payment Unknown", "Awaiting Payment"} : Leave(r, order.key, plan, s)
  <2>1. order.key \in Keys
    <3>1. AllConfirmed(<<>>)
      BY DEF AllConfirmed
    <3> QED
      BY <1>4, <1>5, <1>8, <3>1
  <2>2. Open
    BY <1>4, <1>8 DEF Open
  <2> QED
    BY <1>1, <1>4, <1>6, <1>8, <2>1, <2>2, LeaveKeeps
<1> QED
  BY <1>2a, <1>7, <1>8

LEMMA BankDecidesKeeps ==
    ASSUME IInv, NEW o \in CardOps, BankDecides(o)
    PROVE  IInv'
<1>1. /\ order' = order /\ request' = request /\ receipt' = receipt /\ drawer' = drawer
      /\ \E d \in {"charged", "refused", "cancelled"} : bank' = [bank EXCEPT ![o] = d]
      /\ bank[o] = "none"
  BY DEF BankDecides
<1>2. ChargesStay
  BY <1>1 DEF IInv, Typed, ChargesStay
<1>3. Typed'
  BY <1>1 DEF IInv, Typed
<1>4. OrderBacked'
  <2>1. ASSUME order.key \in Keys
        PROVE  Len(order.plan) = Len(PlanOf[order.key]) /\ Backed(order.key, order.plan, bank')
    <3>1. /\ Len(order.plan) = Len(PlanOf[order.key]) /\ Backed(order.key, order.plan, bank)
          /\ order.plan \in Seq(Answers)
      BY <2>1 DEF IInv, OrderBacked, Typed, OrderType
    <3>2. Len(order.plan) =< Len(PlanOf[order.key])
      BY <3>1
    <3> QED
      BY <1>2, <2>1, <3>1, <3>2, BackedStays
  <2> QED
    BY <1>1, <2>1 DEF IInv, OrderBacked
<1>5. RequestBacked'
  <2>1. ASSUME NEW x \in Requests
        PROVE  QueryBacked(request[x], bank')
    <3>1. request[x] \in RequestType /\ QueryBacked(request[x], bank)
      BY DEF IInv, Typed, RequestBacked
    <3>2. ASSUME request[x].at = "card"
          PROVE  Backed(request[x].key, request[x].plan, bank')
      <4>1. /\ request[x].key \in Keys /\ request[x].row \in RowsOf(request[x].key)
            /\ Len(request[x].plan) = request[x].row - 1
            /\ Backed(request[x].key, request[x].plan, bank)
            /\ request[x].plan \in Seq(Answers)
        BY <3>1, <3>2 DEF QueryBacked, CardRow, RequestType
      <4>2. Len(request[x].plan) =< Len(PlanOf[request[x].key])
        BY <4>1, PlanFacts
      <4> QED
        BY <1>2, <4>1, <4>2, BackedStays
    <3> QED
      BY <3>1, <3>2 DEF QueryBacked
  <2> QED
    BY <1>1, <2>1 DEF RequestBacked
<1>6. CardKnows' /\ FiscalKnows' /\ PendingIsPosted' /\ DrawerFollowsInvoice' /\ CompletedIsFiscal'
  BY <1>1 DEF IInv, CardKnows, FiscalKnows, PendingIsPosted, DrawerFollowsInvoice, CompletedIsFiscal
<1>7. PaidInFull'
  BY <1>1, <1>2 DEF IInv, PaidInFull, ChargesStay
<1> QED
  BY <1>3, <1>4, <1>5, <1>6, <1>7 DEF IInv

LEMMA DeliverKeeps ==
    ASSUME IInv, NEW s \in {"Uncertain", "Error", "Fiscalized"}, Deliver(s)
    PROVE  IInv'
<1>1. /\ order' = order /\ request' = request /\ bank' = bank /\ drawer' = drawer
      /\ order.invoice /\ order.fiscal /\ receipt # "Fiscalized"
  BY DEF Deliver
<1>2. Typed' /\ OrderBacked' /\ RequestBacked'
  BY <1>1 DEF IInv, Typed, OrderBacked, RequestBacked
<1>3. CardKnows' /\ FiscalKnows' /\ PendingIsPosted' /\ PaidInFull' /\ DrawerFollowsInvoice'
  BY <1>1 DEF IInv, CardKnows, FiscalKnows, PendingIsPosted, PaidInFull, DrawerFollowsInvoice
<1>4. CompletedIsFiscal'
  BY <1>1 DEF IInv, CompletedIsFiscal
<1> QED
  BY <1>2, <1>3, <1>4 DEF IInv

\* The status changes and nothing else of the order, with a good reason.
Restated(s) == order' = [order EXCEPT !.status = s]

LEMMA RestatedKeeps ==
    ASSUME IInv, bank' = bank, receipt' = receipt, drawer' = drawer,
           NEW s \in {"Building", "Held", "Cancelled", "Fiscal Pending", "Completed"}, Restated(s),
           order.invoice => s \in {"Fiscal Pending", "Completed"},
           s = "Fiscal Pending" => order.invoice,
           s = "Completed" => order.invoice /\ (order.fiscal => receipt = "Fiscalized"),
           request' \in [Requests -> RequestType], RequestBacked', CardKnows', FiscalKnows'
    PROVE  IInv'
<1>1. /\ order' \in OrderType /\ order'.status = s /\ order'.key = order.key
      /\ order'.plan = order.plan /\ order'.invoice = order.invoice
      /\ order'.fiscal = order.fiscal
  BY DEF IInv, Typed, OrderType, Restated
<1>2. Typed' /\ OrderBacked'
  BY <1>1 DEF IInv, Typed, OrderBacked
<1>3. PendingIsPosted' /\ PaidInFull' /\ DrawerFollowsInvoice'
  BY <1>1 DEF IInv, PendingIsPosted, PaidInFull, DrawerFollowsInvoice
<1>4. CompletedIsFiscal'
  BY <1>1 DEF IInv, CompletedIsFiscal
<1> QED
  BY <1>2, <1>3, <1>4 DEF IInv

LEMMA SettleKeeps ==
    ASSUME IInv, NEW r \in Requests, Settle(r)
    PROVE  IInv'
<1> DEFINE s == IF Issued(receipt) THEN "Completed" ELSE "Fiscal Pending"
<1>1. /\ request[r].at = "fiscal" /\ request[r].fresh /\ Save(r, Idle) /\ Restated(s)
      /\ bank' = bank /\ receipt' = receipt /\ drawer' = drawer
  BY DEF Settle, Restated
<1>2. order.invoice /\ order.fiscal
  BY <1>1 DEF IInv, FiscalKnows
<1>3. s \in {"Fiscal Pending", "Completed"} /\ (s = "Completed" => receipt = "Fiscalized")
  BY DEF Issued
<1>4. /\ request' \in [Requests -> RequestType] /\ request'[r] = Idle
      /\ \A x \in Requests \ {r} : Stale(x)
  BY <1>1, SaveOutdates, IdleTyped DEF IInv
<1>5. request'[r].at = "idle"
  BY <1>4, IdleFacts
<1>6. QueryBacked(request'[r], bank)
  BY <1>5 DEF QueryBacked
<1>7. RequestBacked' /\ CardKnows' /\ FiscalKnows'
  BY <1>1, <1>4, <1>5, <1>6, StaleRequests DEF IInv
<1> HIDE DEF s
<1> QED
  BY <1>1, <1>2, <1>3, <1>4, <1>7, RestatedKeeps

LEMMA RecoverKeeps ==
    ASSUME IInv, Recover
    PROVE  IInv'
<1>1. /\ order.status = "Fiscal Pending" /\ receipt = "Fiscalized" /\ SavedElsewhere
      /\ Restated("Completed") /\ bank' = bank /\ receipt' = receipt /\ drawer' = drawer
  BY DEF Recover, Issued, Restated
<1>2. order.invoice
  BY <1>1 DEF IInv, PendingIsPosted
<1>3. /\ request' \in [Requests -> RequestType]
      /\ RequestBacked' /\ CardKnows' /\ FiscalKnows'
  BY <1>1, ElsewhereOutdates DEF IInv
<1> QED
  BY <1>1, <1>2, <1>3, RestatedKeeps

LEMMA SetAsideKeeps ==
    ASSUME IInv, NEW s \in {"Building", "Held", "Cancelled"}, SetAside(s)
    PROVE  IInv'
<1>1. /\ order.status \in {"Building", "Held"} /\ SavedElsewhere /\ Restated(s)
      /\ bank' = bank /\ receipt' = receipt /\ drawer' = drawer
  BY DEF SetAside, Restated
<1>2. ~order.invoice
  BY <1>1 DEF IInv, CompletedIsFiscal
<1>3. /\ request' \in [Requests -> RequestType]
      /\ RequestBacked' /\ CardKnows' /\ FiscalKnows'
  BY <1>1, ElsewhereOutdates DEF IInv
<1> QED
  BY <1>1, <1>2, <1>3, RestatedKeeps

LEMMA DropKeeps ==
    ASSUME IInv, NEW r \in Requests, Drop(r)
    PROVE  IInv'
<1>1. /\ request' = [request EXCEPT ![r] = Idle]
      /\ order' = order /\ bank' = bank /\ receipt' = receipt /\ drawer' = drawer
  BY DEF Drop
<1>2. \A x \in Requests : request'[x] = IF x = r THEN Idle ELSE request[x]
  BY <1>1 DEF IInv, Typed
<1>3. Typed'
  BY <1>1, IdleTyped DEF IInv, Typed
<1>4. RequestBacked'
  <2>1. QueryBacked(Idle, bank)
    BY IdleFacts DEF QueryBacked
  <2>2. \A x \in Requests : QueryBacked(request'[x], bank)
    BY <1>2, <2>1 DEF IInv, RequestBacked
  <2> QED
    BY <1>1, <2>2 DEF RequestBacked
<1>5. CardKnows' /\ FiscalKnows'
  BY <1>1, <1>2, IdleFacts DEF IInv, CardKnows, FiscalKnows
<1>6. /\ OrderBacked' /\ PendingIsPosted' /\ PaidInFull' /\ DrawerFollowsInvoice'
      /\ CompletedIsFiscal'
  BY <1>1 DEF IInv, OrderBacked, PendingIsPosted, PaidInFull, DrawerFollowsInvoice,
              CompletedIsFiscal
<1> QED
  BY <1>3, <1>4, <1>5, <1>6 DEF IInv

LEMMA StutterKeeps == ASSUME IInv, UNCHANGED vars PROVE IInv'
<1>1. Typed' /\ OrderBacked' /\ RequestBacked'
  BY DEF vars, IInv, Typed, OrderBacked, RequestBacked
<1>2. CardKnows' /\ FiscalKnows' /\ PendingIsPosted'
  BY DEF vars, IInv, CardKnows, FiscalKnows, PendingIsPosted
<1>3. PaidInFull' /\ DrawerFollowsInvoice' /\ CompletedIsFiscal'
  BY DEF vars, IInv, PaidInFull, DrawerFollowsInvoice, CompletedIsFiscal
<1> QED
  BY <1>1, <1>2, <1>3 DEF IInv

LEMMA StepKeeps == ASSUME IInv, [Next]_vars PROVE IInv'
<1>1. ASSUME NEW r \in Requests, NEW k \in Keys, CheckoutStart(r, k) PROVE IInv'
  BY <1>1, CheckoutStartKeeps
<1>2. ASSUME NEW r \in Requests, NEW o \in CardOps, AskStatus(r, o) PROVE IInv'
  BY <1>2, AskStatusKeeps
<1>3. ASSUME NEW r \in Requests, Answer(r) \/ StatusAnswer(r) \/ Settle(r) \/ Drop(r) PROVE IInv'
  BY <1>3, AnswerKeeps, StatusAnswerKeeps, SettleKeeps, DropKeeps
<1>4. ASSUME NEW o \in CardOps, BankDecides(o) PROVE IInv'
  BY <1>4, BankDecidesKeeps
<1>5. ASSUME NEW s \in {"Uncertain", "Error", "Fiscalized"}, Deliver(s) PROVE IInv'
  BY <1>5, DeliverKeeps
<1>6. ASSUME NEW s \in {"Building", "Held", "Cancelled"}, SetAside(s) PROVE IInv'
  BY <1>6, SetAsideKeeps
<1> QED
  BY <1>1, <1>2, <1>3, <1>4, <1>5, <1>6, RecoverKeeps, StutterKeeps DEF Next

\* The whole invariant holds in every reachable state (ua_pos/api.py: what an
\* order, its requests and the bank know of one another).
THEOREM Invariance == Spec => []IInv
<1>1. Init => IInv
  BY InitKeeps
<1>2. IInv /\ [Next]_vars => IInv'
  BY StepKeeps
<1> QED
  BY <1>1, <1>2, PTL DEF Spec

\* An invoice is only ever posted for a plan whose card rows the bank charged,
\* whatever the plans and however many requests race (_complete_paid_order).
THEOREM OrderIsPaid == Spec => []PaidInFull
<1>1. IInv => PaidInFull
  BY DEF IInv
<1> QED
  BY <1>1, Invariance, PTL

\* The cash movements of an order are there once when it is posted and not
\* before, also when it is completed a second time (_create_cash_sale_movements).
THEOREM DrawerIsRight == Spec => []DrawerFollowsInvoice
<1>1. IInv => DrawerFollowsInvoice
  BY DEF IInv
<1> QED
  BY <1>1, Invariance, PTL

\* A fiscal order is completed only with an issued receipt, and a posted order
\* is never reopened (_complete_paid_order, recover_pos_fiscal_pending).
THEOREM CompletionIsFiscal == Spec => []CompletedIsFiscal
<1>1. IInv => CompletedIsFiscal
  BY DEF IInv
<1> QED
  BY <1>1, Invariance, PTL

-----------------------------------------------------------------------------
(* The card is charged once.  A plan has one card row, as the user         *)
(* interface makes it; then at most one card operation is alive.           *)

OneCard == \A k \in Keys : \A i, j \in RowsOf(k) :
    PlanOf[k][i] = "Card" /\ PlanOf[k][j] = "Card" => i = j

AttemptType == [Ops -> {"None", "Sent", "Unknown", "Confirmed", "Declined"}]

\* The bank charged the operation of an attempt, or it still may.
Live(a, o) == a[o] \notin {"None", "Declined"}

OneLive(a)        == \A o, p \in CardOps : Live(a, o) /\ Live(a, p) => o = p
ChargeIsLive(a)   == \A o \in CardOps : bank[o] = "charged" => Live(a, o)
NoneLive(a)       == \A o \in CardOps : ~Live(a, o)
UnpaidIsClear     == order.status \in {"Building", "Held", "Awaiting Payment"} => NoneLive(attempts)

\* What a request with a copy of the order that nobody replaced may rely on.
Pays(q, a) ==
    /\ q.fresh /\ q.at \in {"card", "asked"} => Live(a, <<q.key, q.row>>)
    /\ q.fresh /\ q.at = "card" => AllConfirmed(q.plan) /\ ~q.unknown
RequestsPay == \A r \in Requests : Pays(request[r], attempts)

ChargeInv == /\ attempts \in AttemptType
             /\ OneLive(attempts) /\ ChargeIsLive(attempts) /\ UnpaidIsClear /\ RequestsPay

\* A saved order leaves nobody but the saver with anything to rely on.
LEMMA OnlySaverPays ==
    ASSUME NEW r \in Requests, \A x \in Requests \ {r} : Stale(x),
           Pays(request'[r], attempts')
    PROVE  RequestsPay'
<1>1. ASSUME NEW x \in Requests \ {r}
      PROVE  Pays(request'[x], attempts')
  BY DEF Stale, Pays
<1> QED
  BY <1>1 DEF RequestsPay

\* A request that goes on with the plan: either nothing is alive and it may
\* charge a card, or no card row is left, and then what is alive is not refused.
LEMMA ProceedCharges ==
    ASSUME IInv, bank' = bank, NEW r \in Requests, NEW k \in Keys,
           NEW done \in Seq(Answers), NEW unknown \in BOOLEAN, NEW att \in AttemptType,
           OneLive(att), ChargeIsLive(att),
           \/ NoneLive(att) /\ ~unknown /\ AllConfirmed(done)
           \/ \A i \in RowsOf(k) : i > Len(done) => PlanOf[k][i] = "Cash",
           NoneLive(att) \/ unknown \/ AllConfirmed(done),
           Proceed(r, k, done, unknown, att)
    PROVE  ChargeInv'
<1> DEFINE plan(next)  == PlanTo(done, next)
           taken(next) == [o \in Ops |-> IF o[1] = k /\ Len(done) < o[2] /\ o[2] < next
                                         THEN "Confirmed" ELSE att[o]]
<1>1. PICK next \in 1 .. Len(PlanOf[k]) + 1 :
        /\ NextCard(k, Len(done), next)
        /\ \/ /\ next \in RowsOf(k)
              /\ attempts' = [taken(next) EXCEPT ![<<k, next>>] = "Sent"]
              /\ SendCard(r, k, plan(next), next, unknown)
           \/ /\ next \notin RowsOf(k)
              /\ attempts' = taken(next)
              /\ \/ Leave(r, k, plan(next), "Payment Unknown")
                 \/ /\ ~unknown /\ ~AllConfirmed(plan(next))
                    /\ Leave(r, k, plan(next), "Awaiting Payment")
                 \/ Complete(r, k, plan(next))
  BY DEF Proceed, PlanTo, SendCard
<1> DEFINE p == PlanTo(done, next)
           t == taken(next)
<1>2. next \in Nat /\ next >= 1 /\ Len(done) \in Nat
  BY PlanFacts
<1>3. t \in AttemptType /\ \A o \in CardOps : t[o] = att[o]
  <2>1. ASSUME NEW o \in CardOps
        PROVE  ~(o[1] = k /\ Len(done) < o[2] /\ o[2] < next)
    <3>1. o[2] \in RowsOf(o[1]) /\ PlanOf[o[1]][o[2]] = "Card"
      BY CardOpRow DEF CardRow
    <3> QED
      BY <1>1, <3>1 DEF NextCard
  <2>2. CardOps \subseteq Ops
    BY DEF CardOps
  <2>3. t \in AttemptType
    BY DEF AttemptType
  <2> QED
    BY <2>1, <2>2, <2>3
<1>4. AllConfirmed(done) => AllConfirmed(p)
  <2>1. DOMAIN p = 1 .. (next - 1) /\ DOMAIN done = 1 .. Len(done)
    BY DEF PlanTo
  <2>2. \A i \in 1 .. (next - 1) : p[i] = IF i =< Len(done) THEN done[i] ELSE "Confirmed"
    BY DEF PlanTo
  <2> HIDE DEF p
  <2>3. ASSUME AllConfirmed(done), NEW i \in 1 .. (next - 1)
        PROVE  p[i] = "Confirmed"
    BY <1>2, <2>1, <2>2, <2>3 DEF AllConfirmed
  <2> QED
    BY <2>1, <2>3 DEF AllConfirmed
<1> HIDE DEF p, t
<1>5. CASE /\ next \in RowsOf(k)
           /\ attempts' = [t EXCEPT ![<<k, next>>] = "Sent"]
           /\ SendCard(r, k, p, next, unknown)
  <2>1. CardRow(k, next) /\ next > Len(done)
    BY <1>1, <1>5 DEF NextCard, CardRow
  <2>2. NoneLive(att) /\ ~unknown /\ AllConfirmed(done)
    BY <2>1 DEF CardRow
  <2>3. <<k, next>> \in CardOps /\ <<k, next>> \in Ops
    BY <2>1, RowCardOp DEF CardOps
  <2>4. attempts' \in AttemptType /\ attempts'[<<k, next>>] = "Sent"
        /\ \A o \in CardOps : o # <<k, next>> => attempts'[o] = att[o]
    BY <1>3, <1>5, <2>3 DEF AttemptType, CardOps
  <2>5. OneLive(attempts')
    BY <2>2, <2>4 DEF OneLive, NoneLive, Live
  <2>6. ChargeIsLive(attempts)'
    <3>1. \A o \in CardOps : bank[o] # "charged"
      BY <2>2 DEF ChargeIsLive, NoneLive
    <3> QED
      BY <3>1 DEF ChargeIsLive
  <2>7. order'.status = "Payment In Progress"
    BY <1>5 DEF SendCard, IInv, Typed, OrderType
  <2> DEFINE q == [at |-> "card", key |-> k, row |-> next, plan |-> p,
                   unknown |-> unknown, fresh |-> TRUE]
  <2>8. q \in RequestType
    <3>1. p \in Seq(Answers)
      <4>1. \A i \in 1 .. (next - 1) :
               (IF i =< Len(done) THEN done[i] ELSE "Confirmed") \in Answers
        BY <1>2 DEF Answers
      <4> QED
        BY <1>2, <4>1 DEF p, PlanTo
    <3> QED
      BY <1>2, <3>1 DEF RequestType
  <2>9. q.key = k /\ q.row = next /\ q.plan = p /\ q.unknown = unknown
    OBVIOUS
  <2>10. Save(r, q)
    BY <1>5 DEF SendCard
  <2> HIDE DEF q
  <2>11. request'[r] = q /\ \A x \in Requests \ {r} : Stale(x)
    BY <2>8, <2>10, SaveOutdates DEF IInv
  <2>12. Pays(q, attempts')
    BY <1>4, <2>2, <2>4, <2>9 DEF Pays, Live
  <2>13. RequestsPay'
    BY <2>11, <2>12, OnlySaverPays
  <2> QED
    BY <2>4, <2>5, <2>6, <2>7, <2>13 DEF ChargeInv, UnpaidIsClear, OneLive
<1>6. CASE /\ next \notin RowsOf(k)
           /\ attempts' = t
           /\ \/ Leave(r, k, p, "Payment Unknown")
              \/ ~unknown /\ ~AllConfirmed(p) /\ Leave(r, k, p, "Awaiting Payment")
              \/ Complete(r, k, p)
  <2>1. attempts' \in AttemptType /\ \A o \in CardOps : attempts'[o] = att[o]
    BY <1>3, <1>6
  <2>2. OneLive(attempts') /\ ChargeIsLive(attempts)'
    BY <2>1 DEF OneLive, ChargeIsLive, Live
  <2>3. UnpaidIsClear'
    <3>1. CASE Leave(r, k, p, "Payment Unknown") \/ Complete(r, k, p)
      <4>1. order'.status \in {"Payment Unknown", "Fiscal Pending", "Completed"}
        BY <3>1 DEF Leave, Complete, IInv, Typed, OrderType
      <4> QED
        BY <4>1 DEF UnpaidIsClear
    <3>2. CASE ~unknown /\ ~AllConfirmed(p)
      <4>1. NoneLive(att)
        BY <1>4, <3>2
      <4> QED
        BY <2>1, <4>1 DEF UnpaidIsClear, NoneLive, Live
    <3> QED
      BY <1>6, <3>1, <3>2
  <2>4. \E q \in {Idle, [Idle EXCEPT !.at = "fiscal"]} : Save(r, q)
    BY <1>6 DEF Leave, Complete
  <2>5. PICK q \in {Idle, [Idle EXCEPT !.at = "fiscal"]} : Save(r, q)
    BY <2>4
  <2>6. q.at \in {"idle", "fiscal"} /\ q \in RequestType
    BY IdleFacts, IdleTyped
  <2>7. request'[r] = q /\ \A x \in Requests \ {r} : Stale(x)
    BY <2>5, <2>6, SaveOutdates DEF IInv
  <2>8. Pays(request'[r], attempts')
    BY <2>6, <2>7 DEF Pays
  <2>9. RequestsPay'
    BY <2>7, <2>8, OnlySaverPays
  <2> QED
    BY <2>1, <2>2, <2>3, <2>9 DEF ChargeInv, OneLive
<1> QED
  BY <1>1, <1>5, <1>6 DEF p, t

LEMMA InitCharges == ASSUME Init PROVE ChargeInv
<1>1. attempts \in AttemptType /\ NoneLive(attempts)
  BY DEF Init, AttemptType, NoneLive, Live, CardOps
<1>2. OneLive(attempts) /\ ChargeIsLive(attempts)
  BY <1>1 DEF Init, OneLive, ChargeIsLive, NoneLive
<1>3. RequestsPay
  BY IdleFacts DEF Init, RequestsPay, Pays
<1> QED
  BY <1>1, <1>2, <1>3 DEF ChargeInv, UnpaidIsClear

LEMMA CheckoutStartCharges ==
    ASSUME IInv, ChargeInv, NEW r \in Requests, NEW k \in Keys, CheckoutStart(r, k)
    PROVE  ChargeInv'
<1>1. NoneLive(attempts)
  BY DEF CheckoutStart, Payable, ChargeInv, UnpaidIsClear
<1>2. AllConfirmed(<<>>)
  BY DEF AllConfirmed
<1>3. Proceed(r, k, <<>>, FALSE, attempts) /\ bank' = bank
  BY DEF CheckoutStart
<1> QED
  BY <1>1, <1>2, <1>3, EmptyPlan, ProceedCharges DEF ChargeInv

\* What an answer of the terminal leaves of the operation it is about; only a
\* cancellation at the terminal leaves an attempt alive that charges nothing.
Heard(answer) == CASE answer = "confirmed" -> "Confirmed"
                   [] answer = "declined"  -> "Declined"
                   [] OTHER                -> "Unknown"

LEMMA AnswerCharges ==
    ASSUME IInv, ChargeInv, OneCard, NEW r \in Requests, Answer(r)
    PROVE  Interrupted' \/ ChargeInv'
<1> DEFINE q == request[r]
           o == <<q.key, q.row>>
           att(answer) == [attempts EXCEPT ![o] = Heard(answer)]
<1>1. q.at = "card" /\ q.fresh /\ bank' = bank
  BY DEF Answer
<1>2. PICK answer \in Says(o) :
        Proceed(r, q.key, Append(q.plan, RowStatus(answer)), q.unknown \/ Unclear(answer), att(answer))
  BY DEF Answer, Heard
<1>3. /\ CardRow(q.key, q.row) /\ Len(q.plan) = q.row - 1
      /\ q.plan \in Seq(Answers) /\ q.row \in Nat /\ q.unknown \in BOOLEAN
  BY <1>1 DEF IInv, Typed, RequestBacked, QueryBacked, RequestType
<1>4. o \in CardOps /\ o \in Ops /\ q.key \in Keys
  BY <1>3, RowCardOp DEF CardOps, CardRow
<1>5. Live(attempts, o) /\ AllConfirmed(q.plan) /\ ~q.unknown
  BY <1>1 DEF ChargeInv, RequestsPay, Pays
<1>6. CASE answer = "cancelled"
  <2>1. bank[o] = "cancelled"
    BY <1>6 DEF Says
  <2> QED
    BY <1>1, <1>4, <2>1 DEF Interrupted
<1>7. CASE answer # "cancelled"
  <2> DEFINE done == Append(q.plan, RowStatus(answer))
             unknown == q.unknown \/ Unclear(answer)
             a == att(answer)
  <2>1. /\ answer \in {"unknown", "confirmed", "declined"}
        /\ bank[o] = "charged" => answer # "declined"
    BY <1>4, <1>7 DEF Says
  <2>2. a \in AttemptType /\ a[o] = Heard(answer) /\ \A p \in CardOps : p # o => a[p] = attempts[p]
    BY <1>4 DEF ChargeInv, AttemptType, Heard, CardOps
  <2>3. \A p \in CardOps : p # o => ~Live(a, p) /\ bank[p] # "charged"
    BY <1>4, <1>5, <2>2 DEF ChargeInv, OneLive, ChargeIsLive, Live
  <2>4. Live(a, o) => answer \in {"unknown", "confirmed"}
    BY <2>1, <2>2 DEF Live, Heard
  <2>5. OneLive(a)
    BY <2>3 DEF OneLive
  <2>6. bank[o] = "charged" => Live(a, o)
    BY <2>1, <2>2 DEF Live, Heard
  <2>7. ChargeIsLive(a)
    BY <2>3, <2>6 DEF ChargeIsLive
  <2>8. RowStatus(answer) \in Answers
    BY DEF RowStatus, Answers
  <2>9. /\ done \in Seq(Answers) /\ Len(done) = q.row
        /\ \A i \in DOMAIN done : i \in 1 .. q.row
        /\ \A i \in 1 .. q.row : done[i] = IF i < q.row THEN q.plan[i] ELSE RowStatus(answer)
    BY <1>3, <2>8, AppendFacts
  <2>10. \A i \in RowsOf(q.key) : i > Len(done) => PlanOf[q.key][i] = "Cash"
    <3> SUFFICES ASSUME NEW i \in RowsOf(q.key), i > q.row
                 PROVE  PlanOf[q.key][i] = "Cash"
      BY <2>9
    <3>1. PlanOf[q.key][i] \in {"Cash", "Card"} /\ i # q.row
      BY <1>3, <1>4, PlanFacts
    <3>2. PlanOf[q.key][i] # "Card"
      BY <1>3, <1>4, <3>1 DEF OneCard, CardRow
    <3> QED
      BY <3>1, <3>2
  <2>11. answer = "confirmed" => AllConfirmed(done)
    <3>1. ASSUME answer = "confirmed", NEW i \in DOMAIN done
          PROVE  done[i] = "Confirmed"
      <4>1. i \in 1 .. q.row /\ done[i] = IF i < q.row THEN q.plan[i] ELSE RowStatus(answer)
        BY <2>9
      <4>2. CASE i < q.row
        <5>1. i \in DOMAIN q.plan
          BY <1>3, <4>1, <4>2
        <5> QED
          BY <1>5, <4>1, <4>2, <5>1 DEF AllConfirmed
      <4>3. CASE ~(i < q.row)
        BY <3>1, <4>1, <4>3 DEF RowStatus
      <4> QED
        BY <4>2, <4>3
    <3> QED
      BY <3>1 DEF AllConfirmed
  <2>12. NoneLive(a) \/ unknown \/ AllConfirmed(done)
    <3>1. CASE Live(a, o)
      BY <2>4, <2>11, <3>1 DEF Unclear
    <3>2. CASE ~Live(a, o)
      BY <2>3, <3>2 DEF NoneLive
    <3> QED
      BY <3>1, <3>2
  <2>13. Proceed(r, q.key, done, unknown, a)
    BY <1>2
  <2>14. unknown \in BOOLEAN
    BY <1>3 DEF Unclear
  <2> HIDE DEF done, unknown, a, att
  <2> QED
    BY <1>1, <1>4, <2>2, <2>5, <2>7, <2>9, <2>10, <2>12, <2>13, <2>14, ProceedCharges
<1> QED
  BY <1>6, <1>7

LEMMA StatusAnswerCharges ==
    ASSUME IInv, ChargeInv, NEW r \in Requests, StatusAnswer(r)
    PROVE  ChargeInv'
<1> DEFINE q == request[r]
           o == <<q.key, q.row>>
<1>1. q.at = "asked" /\ q.fresh /\ bank' = bank
  BY DEF StatusAnswer
<1>2. PICK answer \in Says(o), now \in {"Confirmed", "Unknown", "Declined"} :
        /\ now = "Declined" => answer \notin {"confirmed", "unknown"}
        /\ attempts' = [attempts EXCEPT ![o] = now]
        /\ \E plan : \/ Complete(r, order.key, plan)
                     \/ Leave(r, order.key, plan,
                              IF now = "Declined" THEN "Awaiting Payment" ELSE "Payment Unknown")
  BY DEF StatusAnswer
<1>3. PICK plan :
        /\ now = "Declined" => answer \notin {"confirmed", "unknown"}
        /\ attempts' = [attempts EXCEPT ![o] = now]
        /\ \/ Complete(r, order.key, plan)
           \/ Leave(r, order.key, plan,
                    IF now = "Declined" THEN "Awaiting Payment" ELSE "Payment Unknown")
  BY <1>2
<1>4. o \in CardOps /\ o \in Ops
  BY <1>1, RowCardOp DEF IInv, RequestBacked, QueryBacked, CardOps
<1>5. Live(attempts, o)
  BY <1>1 DEF ChargeInv, RequestsPay, Pays
<1>6. /\ attempts' \in AttemptType /\ attempts'[o] = now
      /\ \A p \in CardOps : p # o => attempts'[p] = attempts[p]
  BY <1>3, <1>4 DEF ChargeInv, AttemptType, CardOps
<1>7. \A p \in CardOps : p # o => ~Live(attempts', p) /\ bank[p] # "charged"
  BY <1>4, <1>5, <1>6 DEF ChargeInv, OneLive, ChargeIsLive, Live
<1>8. OneLive(attempts')
  BY <1>7 DEF OneLive
<1>9. bank[o] = "charged" => Live(attempts', o)
  BY <1>3, <1>4, <1>6, SaysTruth DEF Live
<1>10. ChargeIsLive(attempts)'
  BY <1>1, <1>7, <1>9 DEF ChargeIsLive
<1>11. UnpaidIsClear'
  <2>1. CASE now = "Declined"
    BY <1>6, <1>7, <2>1 DEF UnpaidIsClear, NoneLive, Live
  <2>2. CASE now # "Declined"
    <3>1. order'.status \in {"Payment Unknown", "Fiscal Pending", "Completed"}
      BY <1>3, <2>2 DEF Leave, Complete, IInv, Typed, OrderType
    <3> QED
      BY <3>1 DEF UnpaidIsClear
  <2> QED
    BY <2>1, <2>2
<1>12. RequestsPay'
  <2>1. PICK z \in {Idle, [Idle EXCEPT !.at = "fiscal"]} : Save(r, z)
    BY <1>3 DEF Leave, Complete
  <2>2. z.at \in {"idle", "fiscal"} /\ z \in RequestType
    BY IdleFacts, IdleTyped
  <2>3. request'[r] = z /\ \A x \in Requests \ {r} : Stale(x)
    BY <2>1, <2>2, SaveOutdates DEF IInv
  <2>4. Pays(request'[r], attempts')
    BY <2>2, <2>3 DEF Pays
  <2> QED
    BY <2>3, <2>4, OnlySaverPays
<1> QED
  BY <1>6, <1>8, <1>10, <1>11, <1>12 DEF ChargeInv, OneLive

LEMMA AskStatusCharges ==
    ASSUME IInv, ChargeInv, NEW r \in Requests, NEW o \in CardOps, AskStatus(r, o)
    PROVE  ChargeInv'
<1> DEFINE q == [Idle EXCEPT !.at = "asked", !.key = o[1], !.row = o[2]]
<1>1. /\ request' = [request EXCEPT ![r] = q] /\ Live(attempts, o)
      /\ order' = order /\ bank' = bank /\ attempts' = attempts
  BY DEF AskStatus, Live
<1>2. q.at = "asked" /\ <<q.key, q.row>> = o
  BY CardOpRow DEF Idle
<1> HIDE DEF q
<1>3. \A x \in Requests : request'[x] = IF x = r THEN q ELSE request[x]
  BY <1>1 DEF IInv, Typed
<1>4. Pays(q, attempts)
  BY <1>1, <1>2 DEF Pays
<1>5. \A x \in Requests : Pays(request'[x], attempts)
  BY <1>3, <1>4 DEF ChargeInv, RequestsPay
<1> QED
  BY <1>1, <1>5 DEF ChargeInv, RequestsPay, OneLive, ChargeIsLive, UnpaidIsClear, NoneLive

LEMMA BankDecidesCharges ==
    ASSUME IInv, ChargeInv, NEW o \in CardOps, BankDecides(o)
    PROVE  ChargeInv'
<1>1. /\ order' = order /\ request' = request /\ attempts' = attempts
      /\ Live(attempts, o) /\ \A p \in CardOps : p # o => bank'[p] = bank[p]
  BY DEF BankDecides, IInv, Typed, Live
<1>2. ChargeIsLive(attempts)'
  BY <1>1 DEF ChargeInv, ChargeIsLive
<1> QED
  BY <1>1, <1>2 DEF ChargeInv, RequestsPay, OneLive, UnpaidIsClear, NoneLive

\* The order is saved and no attempt or decision changes.
LEMMA SavedCharges ==
    ASSUME IInv, ChargeInv, attempts' = attempts, bank' = bank,
           \/ SavedElsewhere
           \/ \E r \in Requests : Save(r, Idle),
           \/ order'.status \in {"Fiscal Pending", "Completed", "Cancelled"}
           \/ order.status \in {"Building", "Held"}
    PROVE  ChargeInv'
<1>1. UnpaidIsClear'
  BY DEF ChargeInv, UnpaidIsClear, NoneLive
<1>2. RequestsPay'
  <2>1. CASE SavedElsewhere
    <3>1. \A x \in Requests : Stale(x)
      BY <2>1, OutdatedFacts DEF Stale, SavedElsewhere, IInv
    <3> QED
      BY <3>1 DEF Stale, Pays, RequestsPay
  <2>2. CASE \E r \in Requests : Save(r, Idle)
    <3>1. PICK r \in Requests : Save(r, Idle)
      BY <2>2
    <3>2. request'[r] = Idle /\ \A x \in Requests \ {r} : Stale(x)
      BY <3>1, SaveOutdates, IdleTyped DEF IInv
    <3>3. Pays(request'[r], attempts')
      BY <3>2, IdleFacts DEF Pays
    <3> QED
      BY <3>2, <3>3, OnlySaverPays
  <2> QED
    BY <2>1, <2>2
<1> QED
  BY <1>1, <1>2 DEF ChargeInv, OneLive, ChargeIsLive

LEMMA OtherCharges ==
    ASSUME IInv, ChargeInv,
           \/ \E r \in Requests : Settle(r)
           \/ \E s \in {"Building", "Held", "Cancelled"} : SetAside(s)
           \/ Recover
    PROVE  ChargeInv'
<1>1. ASSUME NEW r \in Requests, Settle(r)
      PROVE  ChargeInv'
  <2>1. /\ attempts' = attempts /\ bank' = bank /\ Save(r, Idle)
        /\ order'.status \in {"Fiscal Pending", "Completed"}
    BY <1>1 DEF Settle, IInv, Typed, OrderType
  <2> QED
    BY <2>1, SavedCharges
<1>2. ASSUME NEW s \in {"Building", "Held", "Cancelled"}, SetAside(s)
      PROVE  ChargeInv'
  BY <1>2, SavedCharges DEF SetAside
<1>3. ASSUME Recover
      PROVE  ChargeInv'
  <2>1. order'.status = "Completed"
    BY <1>3 DEF Recover, IInv, Typed, OrderType
  <2> QED
    BY <1>3, <2>1, SavedCharges DEF Recover
<1> QED
  BY <1>1, <1>2, <1>3

LEMMA DropCharges ==
    ASSUME IInv, ChargeInv, NEW r \in Requests, Drop(r)
    PROVE  ChargeInv'
<1>1. /\ request' = [request EXCEPT ![r] = Idle]
      /\ order' = order /\ bank' = bank /\ attempts' = attempts
  BY DEF Drop
<1>2. \A x \in Requests : request'[x] = IF x = r THEN Idle ELSE request[x]
  BY <1>1 DEF IInv, Typed
<1>3. \A x \in Requests : Pays(request'[x], attempts)
  BY <1>2, IdleFacts DEF ChargeInv, RequestsPay, Pays
<1> QED
  BY <1>1, <1>3 DEF ChargeInv, RequestsPay, OneLive, ChargeIsLive, UnpaidIsClear, NoneLive

LEMMA UnmovedCharges ==
    ASSUME ChargeInv, UNCHANGED <<order, attempts, bank, request>>
    PROVE  ChargeInv'
BY DEF ChargeInv, RequestsPay, OneLive, ChargeIsLive, UnpaidIsClear, NoneLive

\* A decision of the bank is final, and so is an operation cancelled at the terminal.
LEMMA InterruptedStays ==
    ASSUME IInv, [Next]_vars, Interrupted
    PROVE  Interrupted'
<1>1. \/ bank' = bank
      \/ \E o \in CardOps : BankDecides(o)
  BY DEF Next, vars, CheckoutStart, AskStatus, Answer, StatusAnswer, Settle, Drop, Deliver,
         SetAside, Recover
<1>2. ASSUME NEW o \in CardOps, BankDecides(o)
      PROVE  Interrupted'
  <2>1. \A p \in CardOps : bank[p] # "none" => bank'[p] = bank[p]
    BY <1>2 DEF BankDecides, IInv, Typed
  <2> QED
    BY <2>1 DEF Interrupted
<1>3. CASE bank' = bank
  BY <1>3 DEF Interrupted
<1> QED
  BY <1>1, <1>2, <1>3

LEMMA StepCharges ==
    ASSUME OneCard, IInv, [Next]_vars, Interrupted \/ ChargeInv
    PROVE  Interrupted' \/ ChargeInv'
<1> SUFFICES ASSUME ChargeInv
             PROVE  Interrupted' \/ ChargeInv'
  BY InterruptedStays
<1>1. ASSUME NEW r \in Requests, NEW k \in Keys, CheckoutStart(r, k) PROVE ChargeInv'
  BY <1>1, CheckoutStartCharges
<1>2. ASSUME NEW r \in Requests, NEW o \in CardOps, AskStatus(r, o) PROVE ChargeInv'
  BY <1>2, AskStatusCharges
<1>3. ASSUME NEW r \in Requests, Answer(r) PROVE Interrupted' \/ ChargeInv'
  BY <1>3, AnswerCharges
<1>4. ASSUME NEW r \in Requests, StatusAnswer(r) \/ Settle(r) \/ Drop(r) PROVE ChargeInv'
  BY <1>4, StatusAnswerCharges, OtherCharges, DropCharges
<1>5. ASSUME NEW o \in CardOps, BankDecides(o) PROVE ChargeInv'
  BY <1>5, BankDecidesCharges
<1>6. ASSUME NEW s \in {"Uncertain", "Error", "Fiscalized"}, Deliver(s) PROVE ChargeInv'
  BY <1>6, UnmovedCharges DEF Deliver
<1>7. ASSUME NEW s \in {"Building", "Held", "Cancelled"}, SetAside(s) PROVE ChargeInv'
  BY <1>7, OtherCharges
<1>8. ASSUME UNCHANGED vars PROVE ChargeInv'
  BY <1>8, UnmovedCharges DEF vars
<1> QED
  BY <1>1, <1>2, <1>3, <1>4, <1>5, <1>6, <1>7, <1>8, OtherCharges DEF Next

\* With one card row in a plan, the card of the buyer is charged once whatever the
\* order of calls, time-outs, crashes and attempts, and an order that can be paid
\* has no charge and no attempt that may become one (checkout_start, card_status):
\* unless an operation was cancelled at the terminal.
THEOREM CardIsChargedOnce ==
    ASSUME OneCard
    PROVE  Spec => []ChargedOnce
<1>1. Init => Interrupted \/ ChargeInv
  BY InitCharges
<1>2. IInv /\ (Interrupted \/ ChargeInv) /\ [Next]_vars => (Interrupted \/ ChargeInv)'
  BY StepCharges
<1>3. (Interrupted \/ ChargeInv) => ChargedOnce
  <2> SUFFICES ASSUME ChargeInv
               PROVE  ChargedOnce
    BY DEF ChargedOnce
  <2>1. Cardinality(Charged) =< 1
    <3>1. CASE Charged = {}
      BY <3>1, FS_EmptySet
    <3>2. CASE Charged # {}
      <4>1. PICK o \in Charged : TRUE
        BY <3>2
      <4>2. Charged = {o}
        BY <4>1 DEF Charged, ChargeInv, OneLive, ChargeIsLive
      <4> QED
        BY <4>2, FS_Singleton
    <3> QED
      BY <3>1, <3>2
  <2>2. ASSUME Payable(order.status)
        PROVE  NoneLive(attempts)
    BY <2>2 DEF Payable, ChargeInv, UnpaidIsClear
  <2>3. NoneLive(attempts) => Charged = {}
    BY DEF NoneLive, Charged, ChargeInv, ChargeIsLive
  <2> QED
    BY <2>1, <2>2, <2>3 DEF ChargedOnce, NoneLive, Live
<1> QED
  BY <1>1, <1>2, <1>3, Invariance, PTL DEF Spec
=============================================================================
