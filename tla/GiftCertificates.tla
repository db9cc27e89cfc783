--------------------------- MODULE GiftCertificates ---------------------------
(***************************************************************************)
(* Gift certificates (ua_gift_certificates): a certificate is sold and     *)
(* activated, quoted and reserved for an order, held while the order is    *)
(* being paid, consumed by its invoice, restored by a return, and it       *)
(* expires or is replaced.  Every movement is a ledger entry whose effect  *)
(* on the certificate is saved with it.                                    *)
(*                                                                         *)
(* A step ends at a commit.  A quote is signed with the version of the     *)
(* certificate and the time the order was last saved; it is dropped here   *)
(* when either changes, because reserving refuses it from then on.         *)
(***************************************************************************)
EXTENDS Integers, FiniteSets, FiniteSetsExt, Sums

CONSTANTS
    Originals,  \* certificates that are offered for sale
    Spares,     \* names for the certificates that replace others
    Orders, Requests,
    Holds,      \* 1..n: names for reservations, taken in turn
    Returns,    \* names for return orders
    Paid, Promo,  \* what the buyer paid for and what was granted on top
    Price,      \* the eligible total of an order; it sells Sold units
    Sold,
    Breakage,   \* does the program recognise the balance that expires?
    SweepSize,  \* reservations one run of the expiry job lists
    None        \* no certificate, no order, not yet created

Statuses == {"Issued", "Reserved For Sale", "Payment Pending", "Active", "Partially Redeemed",
             "Fully Redeemed", "Expired", "Replaced", "Consuming", "Consumed", "Released",
             "planned", "posted", "cancelled"}

ASSUME GiftAssumption ==
    /\ {Paid, Promo} \subseteq Nat /\ {Price, Sold, SweepSize} \subseteq Nat \ {0}
    /\ Breakage \in BOOLEAN
    /\ Originals \cap Spares = {} /\ Originals # {} /\ Holds \subseteq Nat
    /\ \A S \in {Originals, Spares, Orders, Holds, Returns} : IsFiniteSet(S) /\ None \notin S
    /\ None \notin Statuses

VARIABLES
    cert,     \* UA Gift Certificate
    hold,     \* UA Gift Certificate Reservation, its allocation when consumed
    order,    \* POS Order: status, gift_certificate_redeemed_total, its invoice
    quote,    \* the quote a cashier holds for an order
    request,  \* checkouts between two of their commits
    back,     \* return orders and their UA Gift Certificate Return Allocation
    sweep,    \* the run of release_stale_reservations
    books     \* value that came in by activation and went out unredeemed

vars == <<cert, hold, order, quote, request, back, sweep, books>>

Certs == Originals \cup Spares
Void  == {"Blocked", "Expired", "Replaced", "Refunded", "Cancelled"}
Open  == {"Active", "Consuming"}

Balance(c)   == c.paid + c.promo
Available(c) == IF c.status \in Void THEN 0 ELSE Balance(c) - c.reserved
Amounts      == [h \in Holds |-> hold[h].amt]
HoldsOf(o)   == {h \in Holds : hold[h].order = o /\ hold[h].status \in Open}
HoldsOn(c)   == {h \in Holds : hold[h].cert = c /\ hold[h].status \in Open}
HeldFor(o)   == SumOver(Amounts, HoldsOf(o))
Round(a, b)  == (2 * a + b) \div (2 * b)     \* to the kopeck, halves up

Init ==
    /\ cert \in [Certs -> [status : {"Issued", None}, paid : {0}, promo : {0},
                           reserved : {0}, redeemed : {FALSE}, due : {FALSE},
                           single : BOOLEAN, by : {None}]]
    /\ \A c \in Certs : cert[c].status = None <=> c \in Spares
    /\ \A c \in Spares : ~cert[c].single
    /\ hold = [h \in Holds |-> [cert |-> None, order |-> None, amt |-> 0, paid |-> 0,
                                forfeit |-> 0, status |-> None, late |-> FALSE]]
    /\ order = [o \in Orders |-> [status |-> "Building", total |-> 0, invoice |-> None]]
    /\ quote = [o \in Orders |-> None]
    /\ request = [q \in Requests |-> [at |-> "idle", order |-> None, rows |-> {}, fresh |-> TRUE]]
    /\ back = [t \in Returns |-> [status |-> None, order |-> None, qty |-> 0, amt |-> 0,
                                  paid |-> 0, to |-> None, used |-> FALSE]]
    /\ sweep = [todo |-> {}, first |-> TRUE]
    /\ books = [in |-> 0, out |-> 0]

-----------------------------------------------------------------------------
(* The ledger.                                                             *)

StatusAfter(c) == IF Balance(c) = 0 THEN "Fully Redeemed"
                  ELSE IF c.redeemed THEN "Partially Redeemed" ELSE "Active"

\* What an entry makes of the components of a certificate, and of its status.
Entered(c, type, paid, promo, reserved) ==
    [c EXCEPT !.paid = @ + paid, !.promo = @ + promo, !.reserved = @ + reserved,
              !.redeemed = @ \/ (type = "Redeem" /\ paid + promo < 0)]
NextStatus(n) == IF n.status \in Void \/ (Balance(n) = 0 /\ ~n.redeemed) THEN n.status
                 ELSE StatusAfter(n)
Entry(c, type, paid, promo, reserved) ==
    LET n == Entered(c, type, paid, promo, reserved) IN [n EXCEPT !.status = NextStatus(n)]

\* An entry that leaves anything else is refused.
Sound(c) == c.paid >= 0 /\ c.promo >= 0 /\ c.reserved \in 0..Balance(c)

\* Proportional consumption of what was paid and what was granted.
PaidPart(c, amount) ==
    LET share == Min({Round(amount * c.paid, Balance(c)), c.paid, amount})
    IN  IF amount - share > c.promo THEN amount - c.promo ELSE share

\* Redemptions of a certificate after a restoration make it irreversible.
Used(t, c) == back[t].used \/ (back[t].status = "posted" /\ back[t].to = c)

\* Quotes for the orders os or of the certificates cs are refused from now on.
Drop(os, cs) ==
    quote' = [o \in Orders |-> IF o \in os \/ (quote[o] # None /\ quote[o].cert \in cs)
                               THEN None ELSE quote[o]]

\* A request that read the order before this save cannot save it any more.
Outdate(o, me) ==
    request' = [q \in Requests |->
                  IF q # me /\ request[q].order = o /\ request[q].at = "waiting"
                    THEN [request[q] EXCEPT !.fresh = FALSE]
                  ELSE IF q = me THEN [request[q] EXCEPT !.at = "idle", !.order = None,
                                                         !.rows = {}, !.fresh = TRUE]
                  ELSE request[q]]

-----------------------------------------------------------------------------
(* Selling a certificate.                                                  *)

AddSaleRow(c) ==
    /\ cert[c].status = "Issued"
    /\ cert' = [cert EXCEPT ![c].status = "Reserved For Sale"]
    /\ UNCHANGED <<hold, order, quote, request, back, sweep, books>>

\* prepare_payment commits before the money is taken.
PrepareSale(c) ==
    /\ cert[c].status = "Reserved For Sale"
    /\ cert' = [cert EXCEPT ![c].status = "Payment Pending"]
    /\ UNCHANGED <<hold, order, quote, request, back, sweep, books>>

\* The payment failed, or the order was cancelled.
ReleasePendingSale(c) ==
    /\ cert[c].status \in {"Reserved For Sale", "Payment Pending"}
    /\ cert' = [cert EXCEPT ![c].status = "Issued"]
    /\ UNCHANGED <<hold, order, quote, request, back, sweep, books>>

\* Both funding entries and the new status are one transaction with the sale.
ActivateCertificate(c) ==
    /\ cert[c].status = "Payment Pending"
    /\ LET n == Entry(Entry(cert[c], "Activate", Paid, 0, 0), "Activate", 0, Promo, 0)
       IN  /\ Sound(n)
           /\ cert' = [cert EXCEPT ![c] = [n EXCEPT !.status = "Active"]]
    /\ books' = [books EXCEPT !.in = @ + Paid + Promo]
    /\ UNCHANGED <<hold, order, quote, request, back, sweep>>

-----------------------------------------------------------------------------
(* Quotes and reservations.                                                *)

\* One certificate an order: the default limit of a program.
QuoteRedemption(o, c, amount) ==
    /\ order[o].status \in {"Building", "Awaiting Payment"} /\ HoldsOf(o) = {}
    /\ cert[c].status \in {"Active", "Partially Redeemed"} /\ ~cert[c].due
    /\ amount \in 1..Min({Price, Available(cert[c])})
    /\ quote' = [quote EXCEPT ![o] =
                   [cert |-> c, amt |-> amount, paid |-> PaidPart(cert[c], amount),
                    forfeit |-> IF cert[c].single THEN Balance(cert[c]) - amount ELSE 0]]
    /\ UNCHANGED <<cert, hold, order, request, back, sweep, books>>

\* The reservation, its ledger entry and the total of the order.
ReserveRedemption(o, h) ==
    /\ quote[o] # None /\ hold[h].status = None
    /\ \A g \in Holds : g < h => hold[g].status # None
    /\ LET t == quote[o]
           n == Entry(cert[t.cert], "Reserve", 0, 0, t.amt)
       IN  /\ t.amt <= Available(cert[t.cert])
           /\ \A g \in HoldsOf(o) : hold[g].cert # t.cert
           /\ Sound(n)
           /\ cert' = [cert EXCEPT ![t.cert] = n]
           /\ hold' = [hold EXCEPT ![h] = [cert |-> t.cert, order |-> o, amt |-> t.amt,
                         paid |-> t.paid, forfeit |-> t.forfeit, status |-> "Active", late |-> FALSE]]
           /\ order' = [order EXCEPT ![o].total = @ + t.amt]
           /\ Drop({o}, {t.cert})
    /\ Outdate(o, None)
    /\ UNCHANGED <<back, sweep, books>>

\* Mutant: only the paid part of the hold is given back.
ReleasedPaid(hs, status) ==
    /\ hold' = [h \in Holds |-> IF h \in hs THEN [hold[h] EXCEPT !.status = status] ELSE hold[h]]
    /\ cert' = [c \in Certs |->
                  Entry(cert[c], "Release", 0, 0,
                         -SumOver([h \in Holds |-> hold[h].paid], {h \in hs : hold[h].cert = c}))]

\* release_reservation: a hold that was consumed or released is left alone.
\* The total of the order is computed again from what it still holds.
Released(hs, status) ==
    /\ hold' = [h \in Holds |-> IF h \in hs THEN [hold[h] EXCEPT !.status = status, !.late = FALSE]
                                ELSE hold[h]]
    /\ cert' = [c \in Certs |->
                  LET mine == {h \in hs : hold[h].cert = c}
                  IN  IF mine = {} THEN cert[c]
                      ELSE Entry(cert[c], "Release", 0, 0, -SumOver(Amounts, mine))]
    /\ \A c \in Certs : Sound(cert'[c])

TotalAfter(o, hs) == SumOver(Amounts, HoldsOf(o) \ hs)

\* The cashier may release any hold of an order of the desk, at any time.
ReleaseRedemption(h) ==
    /\ hold[h].status \in Open
    /\ LET o == hold[h].order
       IN  /\ Released({h}, "Released")
           /\ order' = [order EXCEPT ![o].total = TotalAfter(o, {h})]
           /\ Drop({o}, {hold[h].cert})
           /\ Outdate(o, None)
    /\ UNCHANGED <<back, sweep, books>>

CancelOrder(o) ==
    /\ order[o].status = "Building"
    /\ Released(HoldsOf(o), "Released")
    /\ order' = [order EXCEPT ![o] = [status |-> "Cancelled", total |-> 0, invoice |-> None]]
    /\ Drop({o}, {hold[h].cert : h \in HoldsOf(o)})
    /\ Outdate(o, None)
    /\ UNCHANGED <<back, sweep, books>>

\* A reservation outlives its time to live.
Overdue(h) ==
    /\ hold[h].status = "Active" /\ ~hold[h].late
    /\ hold' = [hold EXCEPT ![h].late = TRUE]
    /\ UNCHANGED <<cert, order, quote, request, back, sweep, books>>

\* The job lists the overdue reservations that are Active.
ListStale ==
    /\ sweep.todo = {}
    /\ \E S \in SUBSET {h \in Holds : hold[h].status = "Active" /\ hold[h].late} :
          /\ S # {} /\ Cardinality(S) <= SweepSize
          /\ sweep' = [todo |-> S, first |-> TRUE]
    /\ UNCHANGED <<cert, hold, order, quote, request, back, books>>

\* The first one is read in the transaction of the list, so that saving it
\* fails when it has changed since; the others are read afresh, and whether
\* they are still Active is not asked again.
CanExpire(h) == IF sweep.first THEN hold[h].status = "Active" ELSE hold[h].status \in Open

ReleaseStale(h) ==
    /\ h \in sweep.todo
    /\ sweep' = [todo |-> sweep.todo \ {h}, first |-> FALSE]
    /\ IF CanExpire(h)
       THEN LET o == hold[h].order
            IN  /\ Released({h}, "Expired")
                /\ order' = [order EXCEPT ![o].total = TotalAfter(o, {h})]
                /\ Drop({o}, {hold[h].cert})
                /\ Outdate(o, None)
       ELSE UNCHANGED <<hold, cert, order, quote, request>>
    /\ UNCHANGED <<back, books>>

-----------------------------------------------------------------------------
(* Paying an order.                                                        *)

\* The holds become Consuming and the order is saved; both are committed
\* before the terminal is called.  An order with no hold commits nothing.
PrepareCheckout(q, o) ==
    /\ request[q].at = "idle" /\ order[o].status \in {"Building", "Awaiting Payment"}
    /\ HoldsOf(o) # {}
    /\ hold' = [h \in Holds |-> IF h \in HoldsOf(o)
                                THEN [hold[h] EXCEPT !.status = "Consuming", !.late = FALSE]
                                ELSE hold[h]]
    /\ Drop({o}, {})
    /\ request' = [p \in Requests |->
                     IF p = q THEN [at |-> "prepared", order |-> o, rows |-> HoldsOf(o), fresh |-> TRUE]
                     ELSE IF request[p].order = o /\ request[p].at = "waiting"
                          THEN [request[p] EXCEPT !.fresh = FALSE]
                     ELSE request[p]]
    /\ UNCHANGED <<cert, order, back, sweep, books>>

\* What consuming hold h leaves of its certificate: the two components, and
\* for a single-use certificate the rest of its balance.
Steps(h) ==
    LET paid == hold[h].paid
        c1   == Entry(cert[hold[h].cert], "Redeem", -paid, 0, -hold[h].amt)
        c2   == Entry(c1, "Redeem", 0, -(hold[h].amt - paid), 0)
        lost == Min({c2.paid, hold[h].forfeit})
        c3   == Entry(c2, "Forfeit", -lost, 0, 0)
    IN  <<c1, c2, c3, Entry(c3, "Forfeit", 0, -(hold[h].forfeit - lost), 0)>>

\* The invoice is one of certificates when the order has a total; it must then
\* match what is held, and every entry must be sound.
CanPost(o) ==
    order[o].total > 0 =>
        /\ HeldFor(o) = order[o].total
        /\ \A h \in HoldsOf(o) : \A i \in 1..4 : Sound(Steps(h)[i])

Debited(o) == IF order[o].total > 0 THEN HoldsOf(o) ELSE {}

\* Posting the invoice of order o, unless it has one already.
Post(o) ==
    IF order[o].invoice # None
    THEN /\ order' = [order EXCEPT ![o].status = "Completed"]
         /\ UNCHANGED <<cert, hold, back, books>> /\ Drop({o}, {})
    ELSE /\ CanPost(o)
         /\ cert' = [c \in Certs |-> IF \E h \in Debited(o) : hold[h].cert = c
                                     THEN Steps(CHOOSE h \in Debited(o) : hold[h].cert = c)[4]
                                     ELSE cert[c]]
         /\ hold' = [h \in Holds |-> IF h \in Debited(o) THEN [hold[h] EXCEPT !.status = "Consumed"]
                                     ELSE hold[h]]
         /\ back' = [t \in Returns |-> [back[t] EXCEPT
                       !.used = @ \/ \E h \in Debited(o) : Used(t, hold[h].cert)]]
         /\ books' = [books EXCEPT !.out = @ + SumOver([h \in Holds |-> hold[h].forfeit], Debited(o))]
         /\ order' = [order EXCEPT ![o].status = "Completed", ![o].invoice = "posted"]
         /\ Drop({o}, {hold[h].cert : h \in Debited(o)})

\* The order is read again after the commit of the preparation, its status is
\* not looked at, and it is saved.  Without a card nothing is committed until
\* the invoice is posted.
PayByCash(q) ==
    /\ request[q].at = "prepared"
    /\ SumOver(Amounts, request[q].rows) <= Price
    /\ Post(request[q].order)
    /\ Outdate(request[q].order, q)
    /\ UNCHANGED sweep

\* With a card the order is committed before the terminal is called.
StartCard(q) ==
    /\ request[q].at = "prepared"
    /\ SumOver(Amounts, request[q].rows) < Price
    /\ LET o == request[q].order
       IN  /\ order' = [order EXCEPT ![o].status = "Payment In Progress"]
           /\ Drop({o}, {})
           /\ request' = [p \in Requests |->
                IF p = q THEN [request[q] EXCEPT !.at = "waiting", !.fresh = TRUE]
                ELSE IF request[p].order = o /\ request[p].at = "waiting"
                     THEN [request[p] EXCEPT !.fresh = FALSE]
                ELSE request[p]]
    /\ UNCHANGED <<cert, hold, back, sweep, books>>

\* The card is charged and the order, if nobody saved it meanwhile, posted.
CardConfirms(q) ==
    /\ request[q].at = "waiting" /\ request[q].fresh
    /\ Post(request[q].order)
    /\ Outdate(request[q].order, q)
    /\ UNCHANGED sweep

\* A failed payment releases every hold of the order.
CardDeclines(q) ==
    /\ request[q].at = "waiting" /\ request[q].fresh
    /\ LET o == request[q].order
       IN  /\ Released(HoldsOf(o), "Released")
           /\ order' = [order EXCEPT ![o].status = "Awaiting Payment",
                                     ![o].total = IF HoldsOf(o) = {} THEN @ ELSE 0]
           /\ Drop({o}, {hold[h].cert : h \in HoldsOf(o)})
           /\ Outdate(o, q)
    /\ UNCHANGED <<back, sweep, books>>

\* The answer is lost: the holds stay until card_status learns the outcome.
CardUnknown(q) ==
    /\ request[q].at = "waiting" /\ request[q].fresh
    /\ order' = [order EXCEPT ![request[q].order].status = "Payment Unknown"]
    /\ Drop({request[q].order}, {})
    /\ Outdate(request[q].order, q)
    /\ UNCHANGED <<cert, hold, back, sweep, books>>

\* The request ends without another commit: it died, its save was refused or
\* the invoice could not be posted.
RequestEnds(q) ==
    /\ request[q].at # "idle"
    /\ request' = [request EXCEPT ![q] = [at |-> "idle", order |-> None, rows |-> {}, fresh |-> TRUE]]
    /\ UNCHANGED <<cert, hold, order, quote, back, sweep, books>>

\* card_status: the bank confirms, and the order is completed, or it declined.
CardStatus(o) ==
    /\ order[o].status \in {"Payment Unknown", "Payment In Progress"}
    /\ \/ Post(o)
       \/ /\ Released(HoldsOf(o), "Released")
          /\ order' = [order EXCEPT ![o].status = "Awaiting Payment",
                                    ![o].total = IF HoldsOf(o) = {} THEN @ ELSE 0]
          /\ Drop({o}, {hold[h].cert : h \in HoldsOf(o)})
          /\ UNCHANGED <<back, books>>
    /\ Outdate(o, None)
    /\ UNCHANGED sweep

-----------------------------------------------------------------------------
(* Returns and cancellations of invoices.                                  *)

Allocation(o)  == {h \in Holds : hold[h].order = o /\ hold[h].status = "Consumed"}
RestoredBy(o)  == {t \in Returns : back[t].order = o /\ back[t].status \in {"posted", "cancelled"}}

Units      == [t \in Returns |-> back[t].qty]
Restored   == [t \in Returns |-> back[t].amt]
RestoredPaid == [t \in Returns |-> back[t].paid]

\* The rows of earlier returns: one that restored nothing has no row, so that
\* its units are not counted.
Rows(o)  == {t \in RestoredBy(o) : back[t].amt > 0}
Prior(o) == [qty |-> SumOver(Units, Rows(o)), amt |-> SumOver(Restored, Rows(o)),
             paid |-> SumOver(RestoredPaid, Rows(o))]

\* ERPNext takes back no more units than the invoice has and returns did not.
Returnable(o, qty) ==
    SumOver(Units, {t \in RestoredBy(o) : back[t].status = "posted"}) + qty <= Sold

\* The share of an allocation that qty units restore, and its paid part: the
\* last unit restores what is left.
RestoreShare(h, qty, prior) ==
    IF prior.qty + qty = Sold THEN hold[h].amt - prior.amt
    ELSE Min({Round(hold[h].amt * qty, Sold), hold[h].amt - prior.amt})
\* Mutant: what earlier returns restored is not taken into account.
RestorePaidAlone(h, amount, prior) == Round(amount * hold[h].paid, hold[h].amt)
RestorePaid(h, amount, prior) ==
    LET left == hold[h].paid - prior.paid
    IN  IF amount = hold[h].amt - prior.amt THEN left
        ELSE Min({left, Round(amount * hold[h].paid, hold[h].amt)})

\* Mutant: one step along the chain of replacements.
HeirOnce(c) == IF cert[c].status = "Replaced" THEN cert[c].by ELSE c

\* A certificate that cannot take the value back is replaced by a new one.
Heir(c) == LET by[i \in 0..Cardinality(Certs)] ==
                 [d \in Certs |-> IF i = 0 \/ cert[d].status # "Replaced" THEN d
                                  ELSE by[i - 1][cert[d].by]]
           IN  by[Cardinality(Certs)][c]
NeedsHeir(c) == cert[c].status \in Void \/ cert[c].single

Replaced(c, n) ==
    LET moved == Entry(Entry(cert[c], "Replace", -cert[c].paid, 0, 0), "Replace", 0, -cert[c].promo, 0)
        fresh == [cert[c] EXCEPT !.status = "Active", !.reserved = 0, !.redeemed = FALSE, !.by = None]
    IN  [cert EXCEPT ![c] = [moved EXCEPT !.status = "Replaced", !.by = n], ![n] = fresh]

\* The pairs of a certificate that takes a restored value, and the
\* certificates as they are when it does.
Targets(c) ==
    IF ~NeedsHeir(Heir(c)) THEN {[to |-> Heir(c), certs |-> cert]}
    ELSE {[to |-> n, certs |-> Replaced(Heir(c), n)] :
            n \in {m \in Spares : cert[m].status = None /\ cert[Heir(c)].reserved = 0}}

RestoreTo(target, amount, paid) ==
    LET n == Entry(Entry(target.certs[target.to], "Restore", paid, 0, 0),
                    "Restore", 0, amount - paid, 0)
    IN  Sound(n) /\ cert' = [target.certs EXCEPT ![target.to] = n]

\* A return order is made for units that no completed return has.
CreateReturn(t, o, qty) ==
    /\ back[t].status = None /\ order[o].status = "Completed" /\ order[o].invoice = "posted"
    /\ qty \in 1..(Sold - SumOver(Units, RestoredBy(o))) /\ Allocation(o) # {}
    /\ back' = [back EXCEPT ![t].status = "planned", ![t].order = o, ![t].qty = qty]
    /\ UNCHANGED <<cert, hold, order, quote, request, sweep, books>>

\* Submitting the return invoice restores the share of each allocation.
PostReturn(t) ==
    LET o == back[t].order
    IN  /\ back[t].status = "planned" /\ order[o].invoice = "posted"
        /\ Prior(o).qty + back[t].qty <= Sold /\ Returnable(o, back[t].qty)
        /\ \E h \in Allocation(o) : \E target \in Targets(hold[h].cert) :
              LET amount == RestoreShare(h, back[t].qty, Prior(o))
                  paid   == RestorePaid(h, amount, Prior(o))
              IN  IF amount = 0
                  THEN /\ back' = [back EXCEPT ![t].status = "posted"]
                       /\ UNCHANGED <<cert, quote>>
                  ELSE /\ RestoreTo(target, amount, paid)
                       /\ back' = [back EXCEPT ![t].status = "posted", ![t].amt = amount,
                                               ![t].paid = paid, ![t].to = target.to]
                       /\ Drop({}, {target.to})
        /\ UNCHANGED <<hold, order, request, sweep, books>>

\* A return whose value has been used since cannot be cancelled; its record
\* stays and still counts when the next return is planned.
CancelReturn(t) ==
    /\ back[t].status = "posted" /\ ~back[t].used /\ back[t].amt > 0
    /\ LET c  == back[t].to
           c1 == Entry(cert[c], "Redeem", -back[t].paid, 0, 0)
           c2 == Entry(c1, "Redeem", 0, -(back[t].amt - back[t].paid), 0)
       IN  /\ Sound(c1) /\ Sound(c2)
           /\ cert' = [cert EXCEPT ![c] = c2]
           /\ back' = [s \in Returns |-> IF s = t THEN [back[t] EXCEPT !.status = "cancelled"]
                                         ELSE [back[s] EXCEPT !.used = Used(s, c)]]
           /\ Drop({}, {c})
    /\ UNCHANGED <<hold, order, request, sweep, books>>

\* Cancelling the invoice of a sale that has no submitted return restores all.
CancelSale(o) ==
    /\ order[o].invoice = "posted" /\ Allocation(o) # {}
    /\ \A t \in RestoredBy(o) : back[t].status = "cancelled"
    /\ \E h \in Allocation(o) : \E target \in Targets(hold[h].cert) :
          /\ RestoreTo(target, hold[h].amt, hold[h].paid)
          /\ Drop({}, {target.to})
    /\ order' = [order EXCEPT ![o].invoice = "cancelled"]
    /\ UNCHANGED <<hold, request, back, sweep, books>>

-----------------------------------------------------------------------------
(* Expiry.                                                                 *)

ValidityEnds(c) ==
    /\ cert[c].status \in {"Active", "Partially Redeemed"} /\ ~cert[c].due
    /\ cert' = [cert EXCEPT ![c].due = TRUE]
    /\ UNCHANGED <<hold, order, quote, request, back, sweep, books>>

ExpireCertificate(c) ==
    /\ cert[c].status \in {"Active", "Partially Redeemed"} /\ cert[c].due /\ cert[c].reserved = 0
    /\ LET n == IF Breakage THEN Entry(Entry(cert[c], "Expire", -cert[c].paid, 0, 0),
                                        "Expire", 0, -cert[c].promo, 0)
                ELSE cert[c]
       IN  cert' = [cert EXCEPT ![c] = [n EXCEPT !.status = "Expired"]]
    /\ books' = [books EXCEPT !.out = @ + IF Breakage THEN Balance(cert[c]) ELSE 0]
    /\ Drop({}, {c})
    /\ UNCHANGED <<hold, order, request, back, sweep>>

-----------------------------------------------------------------------------
Sale     == \E c \in Originals : AddSaleRow(c) \/ PrepareSale(c) \/ ReleasePendingSale(c)
                                    \/ ActivateCertificate(c)
Reserve  == \E o \in Orders :
               \/ \E c \in Certs, a \in 1..Price : QuoteRedemption(o, c, a)
               \/ \E h \in Holds : ReserveRedemption(o, h)
               \/ CancelOrder(o)
Release  == \E h \in Holds : ReleaseRedemption(h) \/ Overdue(h) \/ ReleaseStale(h)
Checkout == \E q \in Requests :
               \/ \E o \in Orders : PrepareCheckout(q, o)
               \/ PayByCash(q) \/ StartCard(q) \/ CardConfirms(q) \/ CardDeclines(q)
               \/ CardUnknown(q) \/ RequestEnds(q)
Undo     == \/ \E t \in Returns, o \in Orders, n \in 1..Sold : CreateReturn(t, o, n)
            \/ \E t \in Returns : PostReturn(t) \/ CancelReturn(t)
            \/ \E o \in Orders : CancelSale(o)
Expire   == \E c \in Certs : ValidityEnds(c) \/ ExpireCertificate(c)

Next == \/ Sale \/ Reserve \/ Release \/ ListStale \/ Checkout
        \/ \E o \in Orders : CardStatus(o)
        \/ Undo \/ Expire

Spec == Init /\ [][Next]_vars

-----------------------------------------------------------------------------
(* Properties.                                                             *)

TypeOK ==
    /\ \A c \in Certs :
         /\ cert[c].status \in {None, "Issued", "Reserved For Sale", "Payment Pending", "Active",
                "Partially Redeemed", "Fully Redeemed", "Expired", "Replaced"}
         /\ Sound(cert[c]) /\ Balance(cert[c]) <= Paid + Promo
         /\ cert[c].by \in Spares \cup {None}
    /\ \A h \in Holds :
         /\ hold[h].status \in Open \cup {None, "Consumed", "Released", "Expired"}
         /\ hold[h].paid \in 0..hold[h].amt /\ hold[h].amt <= Price
    /\ \A o \in Orders : order[o].total \in 0..Price
    /\ \A t \in Returns : back[t].status \in {None, "planned", "posted", "cancelled"}
    /\ books.out \in 0..books.in

\* What certificates still carry, what submitted invoices redeemed and returns
\* did not restore, and what was forfeited or expired, is exactly what was
\* activated.
Balances == [c \in Certs |-> Balance(cert[c])]
Billed   == {h \in Holds : hold[h].status = "Consumed" /\ order[hold[h].order].invoice = "posted"}
Returned == {t \in Returns : back[t].status = "posted"}
ValueAddsUp == SumOver(Balances, Certs) + SumOver(Amounts, Billed) + books.out
                 = books.in + SumOver(Restored, Returned)

\* The reserved balance of a certificate is what its open reservations hold
\* (services/reconciliation.py compares the same two).
HoldsAreReserved == \A c \in Certs : cert[c].reserved = SumOver(Amounts, HoldsOn(c))

\* Until it is posted an order counts on exactly what it holds: reserving adds
\* to the total, releasing computes it again.
OrderTotalIsHeld ==
    \A o \in Orders : order[o].invoice = None => order[o].total = HeldFor(o)

\* Certificate, reservations and order agree about what is held, whoever of cashier,
\* job, failed payment and invoice released or consumed it.
HoldsAgree == HoldsAreReserved /\ OrderTotalIsHeld

\* Returns never restore more of an allocation than it took, nor more of what
\* was paid for, and once every unit has a row they have restored all of it.
RestoredExactly ==
    \A o \in Orders : \A h \in Allocation(o) :
        LET prior == Prior(o)
        IN  /\ prior.amt <= hold[h].amt /\ prior.paid <= hold[h].paid
            /\ prior.qty = Sold => prior.amt = hold[h].amt
            /\ prior.amt = hold[h].amt => prior.paid = hold[h].paid

\* "exact paid/promotional restore" (docs/gift-certificates/02-architecture.md:9): returns
\* of single units may restore more of the promotional part than was taken.
ComponentsAreExact ==
    \A o \in Orders : \A h \in Allocation(o) :
        Prior(o).amt - Prior(o).paid <= hold[h].amt - hold[h].paid

\* "with last-residual rounding" (docs/gift-certificates/adr/ADR-006-return-restoration.md:3):
\* the last return does not restore the rest when an earlier one restored nothing.
LastReturnRestoresAll ==
    \A o \in Orders : \A h \in Allocation(o) :
        SumOver(Units, {t \in RestoredBy(o) : back[t].status = "posted"}) = Sold
            => Prior(o).amt = hold[h].amt

\* A replaced certificate carries nothing, holds nothing, and leads to one
\* that is not replaced, however often its heirs were replaced in turn.
ReplacedIsEmpty ==
    \A c \in Certs : cert[c].status = "Replaced" =>
        /\ Balance(cert[c]) = 0 /\ cert[c].reserved = 0
        /\ cert[Heir(c)].status # "Replaced"

\* No retry, return, cancellation, expiry or replacement makes value, loses it
\* or leaves it where it cannot be spent (append_entry, restore_return_invoice,
\* replace_certificate).
ValueIsConserved == ValueAddsUp /\ ReplacedIsEmpty

\* "Consuming is not expired by TTL worker" (docs/gift-certificates/04-state-machines.md).
ConsumingNotExpired ==
    [][\A h \in Holds : hold[h].status = "Consuming" => hold'[h].status # "Expired"]_vars
=============================================================================
