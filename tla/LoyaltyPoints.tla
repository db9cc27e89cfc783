----------------------------- MODULE LoyaltyPoints -----------------------------
(***************************************************************************)
(* Loyalty points (ua_loyalty): one account, the orders that redeem and    *)
(* earn points, their reservations, and the ledger every movement is       *)
(* appended to.  The account keeps running totals of the ledger and of the *)
(* open reservations; credits are kept in lots, which are activated,       *)
(* consumed, reduced and expire.                                           *)
(*                                                                         *)
(* A step is one database transaction.  Every transaction takes the lock   *)
(* of the account, and one that read it before waiting for the lock cannot *)
(* save it (its version has changed), so a step sees the latest state.     *)
(***************************************************************************)
EXTENDS Integers, FiniteSets, FiniteSetsExt

CONSTANTS
    Orders,
    Holds,      \* 1..n: names for reservations, taken in turn
    Returns,    \* names for return invoices
    Opening,    \* points imported at the start
    Debit,      \* points debited by hand, once
    Price, Units,   \* what an order is worth, and the units it sells
    Portions,   \* units a return may take back
    Wanted,     \* amounts a cashier asks to redeem
    EarnPercent,
    Programs,   \* published rules: fifo, delayed, expires, lotExpiry
    MaxEntries, \* bound on the ledger
    Overlapping, \* does a client reserve for an order while its checkout runs?
    None

ASSUME LoyaltyAssumption ==
    /\ {Opening, Debit, EarnPercent, MaxEntries} \subseteq Nat /\ {Price, Units} \subseteq Nat \ {0}
    /\ Portions \subseteq 1..Units /\ Wanted \subseteq Nat /\ Overlapping \in BOOLEAN
    /\ Programs \subseteq [fifo : BOOLEAN, delayed : BOOLEAN, expires : BOOLEAN, lotExpiry : BOOLEAN]

VARIABLES
    program,  \* UA Loyalty Program, protected once it is published
    account,  \* UA Loyalty Account with its ledger and its lots, by ledger key
    hold,     \* UA Loyalty Reservation
    order,    \* POS Order and its invoice: the loyalty_... fields and the status
    pay,      \* checkouts that run: the redemption their payments allow for
    back      \* return invoices

vars == <<program, account, hold, order, pay, back>>

Sum(S, F(_)) == FoldSet(LAMBDA x, n : n + F(x), 0, S)
Round(a, b)  == (2 * a + b) \div (2 * b)     \* to the kopeck, halves up
Positive(n)  == Max({0, n})
Held      == {"ACTIVE", "PAYMENT_IN_PROGRESS", "PARTIALLY_CONSUMED"}
Unpaid    == {"Building", "Awaiting Payment"}
Earned(amount) == Round((Price - amount) * EarnPercent, 100)

\* What a new reservation may take; the account may be in debt.
Redeemable(a) == Positive(a.active - a.reserved)

-----------------------------------------------------------------------------
(* The ledger and the lots.                                                *)

Credits        == {"EARN_IMMEDIATE", "EARN_ACTIVATE", "REDEEM_RETURN_RESTORE",
                   "REDEEM_CANCEL_RESTORE", "EARN_REVERSE_CANCEL", "OPENING_CREDIT"}
PendingCredits == {"EARN_PENDING", "PENDING_REVERSE_CANCEL"}

\* Oldest lots first; an aggregate program leaves its lots alone.
ConsumeLots(a, amount) ==
    LET older(k) == {j \in DOMAIN a.lots : a.lots[j].at < a.lots[k].at /\ a.lots[j].status = "ACTIVE"}
        taken(k) == Min({a.lots[k].available,
                         Positive(amount - Sum(older(k), LAMBDA j : a.lots[j].available))})
    IN  IF ~program.fifo THEN a
        ELSE [a EXCEPT !.lots = [k \in DOMAIN @ |->
                IF @[k].status # "ACTIVE" \/ taken(k) = 0 THEN @[k]
                ELSE [@[k] EXCEPT !.available = @ - taken(k),
                                  !.status = IF a.lots[k].available = taken(k) THEN "DEPLETED" ELSE @]]]

\* A reversal takes from the lot of the entry it reverses what is left there.
ReduceOrigin(a, origin, amount) ==
    LET reduced == IF origin \in DOMAIN a.lots THEN Min({amount, a.lots[origin].available}) ELSE 0
    IN  IF reduced = 0 THEN a
        ELSE [a EXCEPT !.lots[origin].available = @ - reduced,
                       !.lots[origin].status =
                          IF a.lots[origin].available = reduced THEN "REVERSED" ELSE @]

\* A credit first pays the debt of the account; the rest is the lot, and what
\* the obligation to expire is about.
CreateLot(a, k, e, before) ==
    LET credit == IF e.active > 0 THEN e.active ELSE e.pending
        available == IF e.active > 0 THEN e.active - Min({e.active, Positive(-before)}) ELSE 0
        lot == [at |-> Cardinality(DOMAIN a.lots), available |-> available,
                pending |-> Positive(e.pending), expires |-> e.expires,
                due |-> IF e.expires /\ e.type \notin PendingCredits THEN available ELSE None,
                status |-> IF available = 0 /\ e.pending <= 0 THEN "DEPLETED"
                           ELSE IF e.active > 0 THEN "ACTIVE" ELSE "PENDING"]
    IN  IF e.type \notin Credits \cup PendingCredits \/ credit <= 0 THEN a
        ELSE [a EXCEPT !.lots = [j \in DOMAIN @ \cup {k} |-> IF j = k THEN lot ELSE @[j]]]

Entry(type, active, pending, origin, expires) ==
    [type |-> type, active |-> active, pending |-> pending, origin |-> origin, expires |-> expires]

\* append_ledger: k is the idempotency key.
Append(a, k, e) ==
    LET b == [a EXCEPT !.active = @ + e.active, !.pending = @ + e.pending,
                       !.ledger = [j \in DOMAIN @ \cup {k} |-> IF j = k THEN e ELSE @[j]]]
        c == IF e.active >= 0 \/ e.type \in {"EXPIRE", "MANUAL_DEBIT"} THEN b
             ELSE IF e.type = "REDEEM" THEN ConsumeLots(b, -e.active)
             ELSE ReduceOrigin(b, e.origin, -e.active)
    IN  IF k \in DOMAIN a.ledger THEN a ELSE CreateLot(c, k, e, a.active)

\* Inverse entries: what a cancelled invoice appends for each of its entries.
InverseType(type) ==
    CASE type = "REDEEM" -> "REDEEM_CANCEL_RESTORE"
      [] type \in {"EARN_PENDING", "PENDING_REVERSE_RETURN"} -> "PENDING_REVERSE_CANCEL"
      [] type = "REDEEM_RETURN_RESTORE" -> "RETURN_RESTORE_CANCEL_REVERSE"
      [] type \in {"EARN_IMMEDIATE", "EARN_REVERSE_RETURN"} -> "EARN_REVERSE_CANCEL"

Reverse(a, k) ==
    IF k \notin DOMAIN a.ledger THEN a
    ELSE LET e == a.ledger[k]
         IN  Append(a, <<"CANCEL", k>>,
                    Entry(InverseType(e.type), -e.active, -e.pending, k, FALSE))

Covered(a, amount) ==
    program.fifo => amount <= Sum({k \in DOMAIN a.lots : a.lots[k].status = "ACTIVE"},
                                  LAMBDA k : a.lots[k].available)

\* Every movement changes the version of the account that quotes name.
Outdated(f) == [o \in Orders |-> [f[o] EXCEPT !.fresh = FALSE]]

\* The opening balance is imported before the first order.
Init ==
    /\ program \in Programs
    /\ account = Append([active |-> 0, pending |-> 0, reserved |-> 0,
                         ledger |-> [k \in {} |-> None], lots |-> [k \in {} |-> None]],
                        <<"OPENING", 1>>, Entry("OPENING_CREDIT", Opening, 0, None, FALSE))
    /\ hold = [h \in Holds |-> [order |-> None, left |-> 0, status |-> None, failed |-> FALSE]]
    /\ order = [o \in Orders |-> [status |-> "Building", loyalty |-> "IDENTIFIED", fresh |-> FALSE,
                                  amt |-> 0, hold |-> None]]
    /\ pay = [o \in Orders |-> None]
    /\ back = [t \in Returns |-> [status |-> None, order |-> None, qty |-> 0]]

-----------------------------------------------------------------------------
(* Movements outside a sale.                                               *)

\* An approved debit; the lots are left as they are.
AdjustDown ==
    /\ Debit > 0 /\ <<"ADJUSTMENT", 1>> \notin DOMAIN account.ledger
    /\ account' = Append(account, <<"ADJUSTMENT", 1>>, Entry("MANUAL_DEBIT", -Debit, 0, None, FALSE))
    /\ order' = Outdated(order)
    /\ UNCHANGED <<program, hold, pay, back>>

\* The job that activates what was earned with a delay, less what was returned.
ActivateLot(k) ==
    /\ account.lots[k].status = "PENDING"
    /\ LET reversed == {j \in DOMAIN account.ledger : account.ledger[j].origin = k}
           left == account.lots[k].pending + Sum(reversed, LAMBDA j : account.ledger[j].pending)
           a == IF left <= 0 THEN account
                ELSE Append(account, <<"ACTIVATE", k>>,
                            Entry("EARN_ACTIVATE", left, -left, k, account.lots[k].expires))
       IN  /\ account' = [a EXCEPT !.lots[k].pending = 0,
                                   !.lots[k].status = IF left > 0 THEN "DEPLETED" ELSE "REVERSED"]
           /\ order' = IF left > 0 THEN Outdated(order) ELSE order
    /\ UNCHANGED <<program, hold, pay, back>>

\* The job that writes off an obligation, once, up to the balance.
Expire(k) ==
    /\ account.lots[k].due # None
    /\ LET cap == IF program.lotExpiry THEN Min({Positive(account.active), account.lots[k].available})
                                       ELSE Positive(account.active)
           writeoff == Min({account.lots[k].due, cap})
           a == IF writeoff = 0 THEN account
                ELSE Append(account, <<"EXPIRE", k>>, Entry("EXPIRE", -writeoff, 0, k, FALSE))
       IN  /\ account' = [a EXCEPT !.lots[k].due = None]
           /\ order' = IF writeoff > 0 THEN Outdated(order) ELSE order
    /\ UNCHANGED <<program, hold, pay, back>>

\* The administrator lets the totals be computed again.
Repair ==
    /\ account' = [account EXCEPT
         !.active = Sum(DOMAIN account.ledger, LAMBDA k : account.ledger[k].active),
         !.pending = Sum(DOMAIN account.ledger, LAMBDA k : account.ledger[k].pending),
         !.reserved = Sum({h \in Holds : hold[h].status \in Held}, LAMBDA h : hold[h].left)]
    /\ order' = Outdated(order)
    /\ UNCHANGED <<program, hold, pay, back>>

-----------------------------------------------------------------------------
(* Quotes and reservations.                                                *)

Quoted(o, want) ==
    [order[o] EXCEPT !.loyalty = "QUOTED", !.fresh = TRUE,
                     !.amt = Min({want, Redeemable(account), Price})]

\* A quote takes no notice of a reservation the order may have.
Quote(o, want) ==
    /\ order[o].status \in Unpaid
    /\ order' = [order EXCEPT ![o] = Quoted(o, want)]
    /\ UNCHANGED <<program, account, hold, pay, back>>

ChangeCart(o) ==
    /\ order[o].status = "Building" /\ order[o].loyalty = "QUOTED"
    /\ order' = [order EXCEPT ![o].loyalty = "REQUIRES_REQUOTE"]
    /\ UNCHANGED <<program, account, hold, pay, back>>

Next1(h) == hold[h].status = None /\ \A g \in Holds : g < h => hold[g].status # None

\* Mutant: the reservation believes the quote.
CanReserveQuoted(q) == q.loyalty = "QUOTED" /\ q.amt > 0
CanReserve(q) == q.loyalty = "QUOTED" /\ q.fresh /\ q.amt \in 1..Redeemable(account)

Reserved(o, h, q, status, loyalty) ==
    /\ hold' = [hold EXCEPT ![h] = [order |-> o, left |-> q.amt, status |-> status, failed |-> FALSE]]
    /\ account' = [account EXCEPT !.reserved = @ + q.amt]
    /\ order' = Outdated([order EXCEPT ![o] = [q EXCEPT !.loyalty = loyalty, !.hold = h]])

\* The reservation a cashier asks for ahead of the payment.
Reserve(o, h) ==
    /\ order[o].status \in Unpaid /\ Next1(h) /\ CanReserve(order[o])
    /\ pay[o] = None \/ Overlapping
    /\ Reserved(o, h, order[o], "ACTIVE", "RESERVED")
    /\ UNCHANGED <<program, pay, back>>

MarkPaymentInProgress(o) ==
    /\ order[o].hold # None
    /\ hold[order[o].hold].status = "ACTIVE"
    /\ hold' = [hold EXCEPT ![order[o].hold].status = "PAYMENT_IN_PROGRESS"]
    /\ order' = [order EXCEPT ![o].loyalty = "PAYMENT_IN_PROGRESS"]
    /\ UNCHANGED <<program, account, pay, back>>

\* Mutant: a hold is given up whatever its payment is doing.
CanReleaseAny(h) == hold[h].status \in Held
\* Nobody but the checkout whose payment failed gives up a hold that is being paid.
CanRelease(h) == hold[h].status = "ACTIVE"

\* Mutant: the account is not told.
ReleasedOnly(hs) ==
    /\ hold' = [h \in Holds |-> IF h \in hs THEN [hold[h] EXCEPT !.status = "RELEASED", !.left = 0]
                                            ELSE hold[h]]
    /\ account' = account

\* The job then writes EXPIRED, which nothing tells from RELEASED.
Released(hs) ==
    /\ hold' = [h \in Holds |-> IF h \in hs THEN [hold[h] EXCEPT !.status = "RELEASED", !.left = 0]
                                            ELSE hold[h]]
    /\ account' = [account EXCEPT !.reserved = @ - Sum(hs, LAMBDA h : hold[h].left)]

\* The cashier; the order keeps the name of its reservation.
Release(h) ==
    /\ CanRelease(h)
    /\ Released({h})
    /\ order' = Outdated(order)
    /\ UNCHANGED <<program, pay, back>>

\* One run of the job is one transaction: all it listed, or nothing.
ReleaseStale(hs) ==
    /\ hs # {} /\ \A h \in hs : CanRelease(h)
    /\ Released(hs)
    /\ order' = Outdated(order)
    /\ UNCHANGED <<program, pay, back>>

-----------------------------------------------------------------------------
(* The checkout.                                                           *)

\* A quote that is not usable is made again, for what was asked last; the hold is
\* committed before the terminal is called.
PrepareCheckout(o, h, want) ==
    /\ order[o].status \in Unpaid /\ pay[o] = None /\ Next1(h)
    /\ LET q == IF order[o].loyalty = "QUOTED" THEN order[o] ELSE Quoted(o, want)
       IN  /\ CanReserve(q)
           /\ Reserved(o, h, q, "PAYMENT_IN_PROGRESS", "PAYMENT_IN_PROGRESS")
           /\ pay' = [pay EXCEPT ![o] = q.amt]
    /\ UNCHANGED <<program, back>>

\* The order is read again, and the payments must add up to its total.  With
\* nothing to redeem there is no commit, and the quote only has to be current.
Ready(o) ==
    /\ order[o].status \in Unpaid
    /\ \/ pay[o] # None /\ pay[o] = order[o].amt
       \/ pay[o] = None /\ order[o].loyalty = "QUOTED" /\ order[o].fresh /\ order[o].amt = 0

CanPost(o) ==
    LET r == order[o].amt
    IN  r > 0 => /\ order[o].hold # None
                 /\ hold[order[o].hold].status \in Held
                 /\ r <= hold[order[o].hold].left
                 /\ Covered(account, r)

\* consume, then the entries of the invoice.
Consumed(o) ==
    LET r == order[o].amt
        h == order[o].hold
        left == hold[h].left - r
        a == IF r = 0 THEN account
             ELSE Append([account EXCEPT !.reserved = @ - r], <<"REDEEM", o>>,
                         Entry("REDEEM", -r, 0, None, FALSE))
        e == Earned(r)
    IN  /\ hold' = IF r = 0 THEN hold
                   ELSE [hold EXCEPT ![h].left = left,
                                     ![h].status = IF left = 0 THEN "CONSUMED" ELSE "PARTIALLY_CONSUMED"]
        /\ account' = IF e = 0 THEN a
                      ELSE Append(a, <<"EARN", o>>,
                             IF program.delayed THEN Entry("EARN_PENDING", 0, e, None, program.expires)
                                                ELSE Entry("EARN_IMMEDIATE", e, 0, None, program.expires))

\* The order is saved again after the invoice, and its loyalty state with it.
Posts(o) ==
    /\ CanPost(o)
    /\ Consumed(o)
    /\ order' = Outdated([order EXCEPT ![o].status = "Posted"])
    /\ pay' = [pay EXCEPT ![o] = None]
    /\ UNCHANGED <<program, back>>

PayCash(o) == Ready(o) /\ Posts(o)

\* Committed before the terminal is called.
StartCard(o) ==
    /\ Ready(o)
    /\ order' = [order EXCEPT ![o].status = "Payment In Progress"]
    /\ pay' = [pay EXCEPT ![o] = order[o].amt]
    /\ UNCHANGED <<program, account, hold, back>>

CardConfirms(o) ==
    /\ pay[o] # None /\ order[o].status = "Payment In Progress"
    /\ Posts(o)

\* The key of the release names the order: it is free once only, and the second
\* declined payment is rolled back to where the terminal was called.
CardDeclines(o) ==
    LET h == order[o].hold
    IN  /\ pay[o] # None /\ order[o].status = "Payment In Progress"
        /\ pay' = [pay EXCEPT ![o] = None]
        /\ \/ /\ h = None
              /\ order' = [order EXCEPT ![o].status = "Awaiting Payment"]
              /\ UNCHANGED <<account, hold>>
           \/ /\ h # None
              /\ \A g \in Holds \ {h} : ~(hold[g].failed /\ hold[g].order = o)
              /\ hold' = [hold EXCEPT ![h].status = "RELEASED", ![h].left = 0, ![h].failed = TRUE]
              /\ account' = [account EXCEPT !.reserved = @ - hold[h].left]
              /\ order' = Outdated([order EXCEPT ![o].status = "Awaiting Payment",
                                                 ![o].loyalty = "QUOTED", ![o].hold = None])
           \/ /\ h # None
              /\ \E g \in Holds \ {h} : hold[g].failed /\ hold[g].order = o
              /\ UNCHANGED <<account, hold, order>>
        /\ UNCHANGED <<program, back>>

CardUnknown(o) ==
    /\ pay[o] # None /\ order[o].status = "Payment In Progress"
    /\ order' = [order EXCEPT ![o].status = "Payment Unknown"]
    /\ pay' = [pay EXCEPT ![o] = None]
    /\ UNCHANGED <<program, account, hold, back>>

\* A later answer of the terminal; a refusal leaves the points on hold.
CardStatus(o) ==
    /\ order[o].status = "Payment Unknown"
    /\ \/ Posts(o)
       \/ /\ order' = [order EXCEPT ![o].status = "Awaiting Payment"]
          /\ UNCHANGED <<program, account, hold, pay, back>>

\* The worker dies, or the payments do not add up to the total.
RequestEnds(o) ==
    /\ pay[o] # None
    /\ pay' = [pay EXCEPT ![o] = None]
    /\ UNCHANGED <<program, account, hold, order, back>>

-----------------------------------------------------------------------------
(* Returns and cancellations.                                              *)

Live(o) == {t \in Returns : back[t].status = "posted" /\ back[t].order = o}
ReturnedQty(o) == Sum(Live(o), LAMBDA t : back[t].qty)
Points(k) == IF k \notin DOMAIN account.ledger THEN 0
             ELSE LET e == account.ledger[k]
                      n == e.active + e.pending
                  IN  IF n < 0 THEN -n ELSE n

\* What earlier returns took of what the sale earned or redeemed: only a return that
\* left an entry counts, and a share that is rounded to nothing leaves none.
Counted(o, kind)  == {t \in Live(o) : <<kind, t>> \in DOMAIN account.ledger}
Previous(o, kind) == [qty    |-> Sum(Counted(o, kind), LAMBDA t : back[t].qty),
                      amount |-> Sum(Counted(o, kind), LAMBDA t : Points(<<kind, t>>))]

\* Mutant: the last return takes its share like the others.
ShareRounded(original, q, previous) == Round(original * q, Units)

\* calculate_return_share: the last return takes what the others left.
Share(original, q, previous) ==
    IF previous.qty + q = Units THEN original - previous.amount ELSE Round(original * q, Units)

\* Earned points are taken back, redeemed ones restored, newest allocation first.
\* Once earlier shares were rounded to more than there was, no return is accepted.
PostReturn(t, o, q) ==
    LET earned == Previous(o, "RETURN-EARN")
        redeemed == Previous(o, "RETURN-REDEEM")
        earn == Share(Points(<<"EARN", o>>), q, earned)
        redeem == Share(Points(<<"REDEEM", o>>), q, redeemed)
        pending == earn > 0 /\ account.ledger[<<"EARN", o>>].type = "EARN_PENDING"
        a == IF earn = 0 THEN account
             ELSE Append(account, <<"RETURN-EARN", t>>,
                    IF pending THEN Entry("PENDING_REVERSE_RETURN", 0, -earn, <<"EARN", o>>, FALSE)
                               ELSE Entry("EARN_REVERSE_RETURN", -earn, 0, <<"EARN", o>>, FALSE))
    IN  /\ back[t].status = None /\ order[o].status = "Posted"
        /\ ReturnedQty(o) + q <= Units
        /\ earned.amount <= Points(<<"EARN", o>>) /\ redeemed.amount <= Points(<<"REDEEM", o>>)
        /\ account' = IF redeem = 0 THEN a
                      ELSE Append(a, <<"RETURN-REDEEM", t>>,
                                  Entry("REDEEM_RETURN_RESTORE", redeem, 0, <<"REDEEM", o>>, program.expires))
        /\ back' = [back EXCEPT ![t] = [status |-> "posted", order |-> o, qty |-> q]]
        /\ order' = Outdated(order)
        /\ UNCHANGED <<program, hold, pay>>

CancelReturn(t) ==
    /\ back[t].status = "posted"
    /\ account' = Reverse(Reverse(account, <<"RETURN-REDEEM", t>>), <<"RETURN-EARN", t>>)
    /\ back' = [back EXCEPT ![t].status = "cancelled"]
    /\ order' = Outdated(order)
    /\ UNCHANGED <<program, hold, pay>>

\* An invoice with a submitted return cannot be cancelled.
CancelSale(o) ==
    /\ order[o].status = "Posted" /\ Live(o) = {}
    /\ account' = Reverse(Reverse(account, <<"EARN", o>>), <<"REDEEM", o>>)
    /\ order' = Outdated([order EXCEPT ![o].status = "Invoice Cancelled"])
    /\ UNCHANGED <<program, hold, pay, back>>

-----------------------------------------------------------------------------
Step ==
    \/ AdjustDown \/ Repair
    \/ \E k \in DOMAIN account.lots : ActivateLot(k) \/ Expire(k)
    \/ \E h \in Holds : Release(h)
    \/ \E hs \in SUBSET Holds : ReleaseStale(hs)
    \/ \E o \in Orders :
         \/ \E want \in Wanted : Quote(o, want) \/ \E h \in Holds : PrepareCheckout(o, h, want)
         \/ \E h \in Holds : Reserve(o, h)
         \/ \E t \in Returns, q \in Portions : PostReturn(t, o, q)
         \/ ChangeCart(o) \/ MarkPaymentInProgress(o) \/ PayCash(o) \/ StartCard(o)
         \/ CardConfirms(o) \/ CardDeclines(o) \/ CardUnknown(o) \/ CardStatus(o)
         \/ RequestEnds(o) \/ CancelSale(o)
    \/ \E t \in Returns : CancelReturn(t)

Next == Step /\ Cardinality(DOMAIN account'.ledger) <= MaxEntries

Spec == Init /\ [][Next]_vars

-----------------------------------------------------------------------------
(* Properties.                                                             *)

\* The types of the account, the reservations, the orders and the returns.
TypeOK ==
    /\ program \in Programs
    /\ {account.active, account.pending, account.reserved} \subseteq Int
    /\ DOMAIN account.lots \subseteq DOMAIN account.ledger
    /\ \A k \in DOMAIN account.lots : account.lots[k].available \in Nat
    /\ \A h \in Holds : /\ hold[h].status \in Held \cup {None, "RELEASED", "CONSUMED"}
                        /\ hold[h].order \in Orders \cup {None} /\ hold[h].left \in Nat
    /\ \A o \in Orders : order[o].amt \in 0..Price /\ order[o].hold \in Holds \cup {None}
    /\ pay \in [Orders -> 0..Price \cup {None}]
    /\ \A t \in Returns : back[t].qty \in 0..Units

\* reconcile_account never finds a difference: the running totals of the account
\* are what the ledger and the open reservations add up to.
TotalsAgree ==
    /\ account.active = Sum(DOMAIN account.ledger, LAMBDA k : account.ledger[k].active)
    /\ account.pending = Sum(DOMAIN account.ledger, LAMBDA k : account.ledger[k].pending)
    /\ account.reserved = Sum({h \in Holds : hold[h].status \in Held}, LAMBDA h : hold[h].left)

\* Nobody spends a point twice or a point that is not there: redemptions that were
\* posted and reservations that are open never come to more than was ever credited, and,
\* whatever was earned, returned, cancelled or set against a debt, the lots hold at
\* least the balance, so _consume_credit_lots finds what a redemption within it needs.
SpentOnce ==
    LET spent == {k \in DOMAIN account.ledger : account.ledger[k].type = "REDEEM"}
        credit == {k \in DOMAIN account.ledger : account.ledger[k].active > 0}
    IN  Sum({h \in Holds : hold[h].status \in Held}, LAMBDA h : hold[h].left)
          - Sum(spent, LAMBDA k : account.ledger[k].active)
        <= Sum(credit, LAMBDA k : account.ledger[k].active)
LotsCoverBalance == SpentOnce /\ Covered(account, Positive(account.active))

\* So totals, ledger, reservations and lots of an account are four views of one balance.
BalancesAgree == TotalsAgree /\ LotsCoverBalance

\* While the terminal may have taken the money of an order that redeems points,
\* neither the cashier nor the job nor a new quote can take its reservation away.
\* (A client that reserves while the checkout runs can: Overlapping.)
PaidKeepsItsPoints ==
    \A o \in Orders :
      order[o].status \in {"Payment In Progress", "Payment Unknown"} /\ order[o].amt > 0
      => /\ order[o].hold # None
         /\ hold[order[o].hold].status = "PAYMENT_IN_PROGRESS"
         /\ hold[order[o].hold].left = order[o].amt

\* Partial returns, their cancellations and the cancellation of a sale undo it: a sale
\* whose invoice is cancelled, or whose units all came back in returns that each took a
\* share, has left no points behind, earned or redeemed; and whatever the shares are
\* rounded to and whichever are cancelled again, returns take no more of a sale than it
\* moved, and of all its units no less, but for half a kopeck a return.
Moved(k) == Sum({k, <<"CANCEL", k>>} \cap DOMAIN account.ledger,
                LAMBDA j : account.ledger[j].active + account.ledger[j].pending)
Left(o, kind, undo) ==
    LET net == Moved(<<kind, o>>)
                 + Sum({t \in Returns : back[t].order = o}, LAMBDA t : Moved(<<undo, t>>))
    IN  IF kind = "EARN" THEN net ELSE -net
UndoneLeavesNothing ==
    \A o \in Orders :
      \A kind \in {"EARN", "REDEEM"} :
        LET undo == IF kind = "EARN" THEN "RETURN-EARN" ELSE "RETURN-REDEEM"
            left == Left(o, kind, undo)
            rounding == Cardinality({t \in Returns : back[t].order = o})
        IN  /\ order[o].status = "Invoice Cancelled" \/ Previous(o, undo).qty = Units => left = 0
            /\ -rounding <= 2 * left
            /\ ReturnedQty(o) = Units => 2 * left <= rounding

\* "Final residual, over-return guard" (docs/loyalty/08-testing.md:10): returns take no
\* more of a sale than it moved, and when all its units came back exactly that.
ReturnsAreExact ==
    \A o \in Orders :
      \A left \in {Left(o, "EARN", "RETURN-EARN"), Left(o, "REDEEM", "RETURN-REDEEM")} :
        left >= 0 /\ (ReturnedQty(o) = Units => left = 0)

\* "Payment confirmed": the posting of a paid order can be repeated until it
\* succeeds (docs/loyalty/10-operations-runbook.md), so nothing may prevent it.
PaidCanPost ==
    \A o \in Orders : order[o].status = "Payment Unknown" => CanPost(o)

\* A return takes earned points from the balance they are in: what is pending is
\* what lots still have to activate, never less.
PendingIsScheduled ==
    account.pending >= 0
=============================================================================
