------------------------------ MODULE POSCheckout ------------------------------
(***************************************************************************)
(* Payment of one POS order (ua_pos/api.py): checkout_start charges the    *)
(* rows of a payment plan, card_status asks the terminal about an attempt  *)
(* with no clear answer, and a paid order is posted, gets its cash         *)
(* movements and waits for its fiscal receipt.                             *)
(*                                                                         *)
(* A step ends at a commit.  The code commits before every call to the     *)
(* terminal and before the first fiscal call; what a request has done      *)
(* since its last commit is lost when it fails.  Every save is refused if  *)
(* the order changed since the request read it.                            *)
(***************************************************************************)
EXTENDS Integers, Sequences, FiniteSets

CONSTANTS
    Keys,      \* idempotency keys of checkout_start
    PlanOf,    \* the payment rows sent with a key: a sequence of kinds
    Requests,  \* requests served at the same time
    Crashes,   \* may a request die at any moment?
    NoKey      \* the key of an order without a payment plan

ASSUME PlanAssumption ==
    /\ \A k \in Keys : PlanOf[k] \in Seq({"Cash", "Card"}) /\ PlanOf[k] # <<>>
    /\ Crashes \in BOOLEAN
    /\ NoKey \notin Keys

VARIABLES
    order,     \* POS Order: status, fiscal_mode, payments_plan, sales_invoice
    attempts,  \* POS Payment Attempt: the status of every row of every key
    bank,      \* what the bank decided about a card operation
    receipt,   \* PRRO Receipt of the invoice
    drawer,    \* POS Cash Movements submitted for each row of the plan
    request    \* requests that wait for the terminal or for the fiscal server

vars == <<order, attempts, bank, receipt, drawer, request>>

RowsOf(k) == DOMAIN PlanOf[k]
Ops       == UNION {{k} \X RowsOf(k) : k \in Keys}
CardOps   == {o \in Ops : PlanOf[o[1]][o[2]] = "Card"}
Rows      == UNION {RowsOf(k) : k \in Keys}
Idle      == [at |-> "idle", key |-> NoKey, row |-> 0, plan |-> <<>>,
              unknown |-> FALSE, fresh |-> TRUE]

Init ==
    /\ order \in [status : {"Building"}, fiscal : BOOLEAN, key : {NoKey},
                  plan : {<<>>}, invoice : {FALSE}]
    /\ attempts = [o \in Ops |-> "None"]
    /\ bank = [o \in CardOps |-> "none"]
    /\ receipt = "none"
    /\ drawer = [i \in Rows |-> 0]
    /\ request = [r \in Requests |-> Idle]

-----------------------------------------------------------------------------
(* The terminal.                                                           *)

\* What it may answer: nothing certain while the bank has not decided, and the
\* decision or, when the answer is lost, nothing certain afterwards.
Says(o) == {"unknown"} \cup (CASE bank[o] = "charged"   -> {"confirmed"}
                               [] bank[o] = "refused"   -> {"declined"}
                               [] bank[o] = "cancelled" -> {"cancelled"}
                               [] OTHER                 -> {})

\* An operation that was sent is decided once, perhaps after the call timed
\* out; a repeated operation_id is the same operation.
BankDecides(o) ==
    /\ attempts[o] \in {"Sent", "Unknown"} /\ bank[o] = "none"
    /\ \E d \in {"charged", "refused", "cancelled"} : bank' = [bank EXCEPT ![o] = d]
    /\ UNCHANGED <<order, attempts, receipt, drawer, request>>

-----------------------------------------------------------------------------
(* Saving the order, and completing one that is paid.                      *)

\* Whoever else holds a copy of the order holds an old one.
Outdated         == [x \in Requests |-> [request[x] EXCEPT !.fresh = (request[x].at = "idle")]]
SavedElsewhere   == request' = Outdated
Save(r, q)       == request' = [Outdated EXCEPT ![r] = q]
AllConfirmed(p)  == \A i \in DOMAIN p : p[i] = "Confirmed"

\* Bug: a movement is recorded without looking for the one that exists.
MovementsAgain(p) == [i \in Rows |-> drawer[i] + (IF i \in DOMAIN p THEN 1 ELSE 0)]
Movements(p)      == [i \in Rows |-> IF i \in DOMAIN p /\ p[i] = "Confirmed" /\ drawer[i] = 0
                                    THEN 1 ELSE drawer[i]]

\* _complete_paid_order up to its first commit: the invoice, which ERPNext
\* refuses without a payment row, the movements and the fiscal job.
Complete(r, k, p) ==
    /\ p # <<>>
    /\ order' = [order EXCEPT !.status = IF order.fiscal THEN "Fiscal Pending" ELSE "Completed",
                              !.key = k, !.plan = p, !.invoice = TRUE]
    /\ drawer' = Movements(p)
    /\ Save(r, IF order.fiscal THEN [Idle EXCEPT !.at = "fiscal"] ELSE Idle)

\* The request ends with an order that is not paid.
Leave(r, k, p, status) ==
    /\ order' = [order EXCEPT !.status = status, !.key = k, !.plan = p]
    /\ Save(r, Idle)
    /\ UNCHANGED drawer

-----------------------------------------------------------------------------
(* checkout_start.                                                         *)

\* The first card row of the plan after row n, or the end of the plan.
NextCard(k, n, next) ==
    /\ next > n /\ (next \in RowsOf(k) => PlanOf[k][next] = "Card")
    /\ \A i \in RowsOf(k) : n < i /\ i < next => PlanOf[k][i] = "Cash"

\* The rows after the ones already done: cash is taken at once; the first card
\* row is committed as Sent, the order with an empty plan, and the terminal is
\* called.  Without one the order gets its plan and its outcome.
Proceed(r, k, done, unknown, att) == \E next \in 1 .. Len(PlanOf[k]) + 1 :
    LET plan == [i \in 1 .. (next - 1) |-> IF i =< Len(done) THEN done[i] ELSE "Confirmed"]
        taken == [o \in Ops |-> IF o[1] = k /\ Len(done) < o[2] /\ o[2] < next THEN "Confirmed" ELSE att[o]]
    IN  /\ NextCard(k, Len(done), next)
        /\ \/ /\ next \in RowsOf(k)
              /\ attempts' = [taken EXCEPT ![<<k, next>>] = "Sent"]
              /\ order' = [order EXCEPT !.status = "Payment In Progress", !.key = NoKey, !.plan = <<>>]
              /\ Save(r, [at |-> "card", key |-> k, row |-> next, plan |-> plan,
                          unknown |-> unknown, fresh |-> TRUE])
              /\ UNCHANGED drawer
           \/ /\ next \notin RowsOf(k)
              /\ attempts' = taken
              /\ \/ unknown /\ Leave(r, k, plan, "Payment Unknown")
                 \/ ~unknown /\ ~AllConfirmed(plan) /\ Leave(r, k, plan, "Awaiting Payment")
                 \/ ~unknown /\ AllConfirmed(plan) /\ Complete(r, k, plan)

Payable(s)      == s \in {"Building", "Awaiting Payment"}

\* The row lock and the version of the order admit one request at a time.
CheckoutStart(r, k) ==
    /\ request[r].at = "idle"
    /\ Payable(order.status)
    /\ order.fiscal \/ Len(PlanOf[k]) = 1
    /\ Proceed(r, k, <<>>, FALSE, attempts)
    /\ UNCHANGED <<bank, receipt>>

\* Bug: a call that timed out counts as a refusal.
TimeoutRefuses(answer) == FALSE
Unclear(answer)        == answer = "unknown"
\* Bug: every answer of the terminal is taken for a payment.
TakesAny(answer)  == IF answer = "unknown" THEN "Failed" ELSE "Confirmed"
RowStatus(answer) == IF answer = "confirmed" THEN "Confirmed" ELSE "Failed"

\* The terminal answers, or the call fails, which is as good as unknown.
Answer(r) ==
    LET q == request[r]
        o == <<q.key, q.row>>
    IN  /\ q.at = "card" /\ q.fresh
        /\ \E answer \in Says(o) :
            Proceed(r, q.key, Append(q.plan, RowStatus(answer)), q.unknown \/ Unclear(answer),
                    [attempts EXCEPT ![o] = CASE answer = "confirmed" -> "Confirmed"
                                              [] answer = "declined"  -> "Declined"
                                              [] OTHER                -> "Unknown"])
        /\ UNCHANGED <<bank, receipt>>

-----------------------------------------------------------------------------
(* card_status: nothing is locked and no status of the order is required   *)
(* while the terminal is asked.                                            *)

AskStatus(r, o) ==
    /\ request[r].at = "idle"
    /\ attempts[o] \in {"Sent", "Unknown"}
    /\ request' = [request EXCEPT ![r] = [Idle EXCEPT !.at = "asked", !.key = o[1], !.row = o[2]]]
    /\ UNCHANGED <<order, attempts, bank, receipt, drawer>>

StatusAnswer(r) ==
    LET q == request[r]
        o == <<q.key, q.row>>
    IN  /\ q.at = "asked" /\ q.fresh
        /\ \E answer \in Says(o) :
            LET now == CASE answer = "confirmed" -> "Confirmed"
                         [] answer = "unknown"   -> "Unknown"
                         [] OTHER                -> "Declined"
                plan == IF order.key # q.key \/ now = "Unknown" THEN order.plan
                        ELSE [order.plan EXCEPT ![q.row] = RowStatus(answer)]
            IN  /\ attempts' = [attempts EXCEPT ![o] = now]
                /\ \/ AllConfirmed(plan) /\ Complete(r, order.key, plan)
                   \/ /\ ~AllConfirmed(plan)
                      /\ Leave(r, order.key, plan,
                               IF now = "Declined" THEN "Awaiting Payment" ELSE "Payment Unknown")
        /\ UNCHANGED <<bank, receipt>>

-----------------------------------------------------------------------------
(* The receipt, recovery and the rest.                                     *)

\* Bug: a document whose delivery is uncertain counts as issued.
IssuedOrSent(s) == s \in {"Fiscalized", "Uncertain"}
Issued(s)       == s = "Fiscalized"

\* The outbox job of the invoice runs, for the checkout, the scheduler or a
\* cashier; module PRRORegister is about what happens then.
Deliver(state) ==
    /\ order.invoice /\ order.fiscal /\ receipt # "Fiscalized"
    /\ receipt' = state
    /\ UNCHANGED <<order, attempts, bank, drawer, request>>

\* The end of _complete_paid_order.
Settle(r) ==
    /\ request[r].at = "fiscal" /\ request[r].fresh
    /\ order' = [order EXCEPT !.status = IF Issued(receipt) THEN "Completed" ELSE "Fiscal Pending"]
    /\ Save(r, Idle)
    /\ UNCHANGED <<attempts, bank, receipt, drawer>>

\* Bug: recovery looks for orders that were posted and have no job yet.
RecoverPosted ==
    /\ order.status = "Posted" /\ Issued(receipt)
    /\ order' = [order EXCEPT !.status = "Completed"]
    /\ SavedElsewhere
    /\ UNCHANGED <<attempts, bank, receipt, drawer>>

\* recover_pos_fiscal_pending and retry_fiscalization.
Recover ==
    /\ order.status = "Fiscal Pending" /\ Issued(receipt)
    /\ order' = [order EXCEPT !.status = "Completed"]
    /\ SavedElsewhere
    /\ UNCHANGED <<attempts, bank, receipt, drawer>>

\* Every row was paid, and posting the invoice raises: Manual Review is saved,
\* the exception goes on, and the framework rolls both back.
PostingFails(r) ==
    LET q == request[r]
    IN  /\ q.at = "card" /\ q.row = Len(PlanOf[q.key])
        /\ ~q.unknown /\ AllConfirmed(q.plan) /\ bank[<<q.key, q.row>>] = "charged"

\* A request fails and what it did since its last commit is gone.
Drop(r) ==
    /\ request[r].at # "idle"
    /\ Crashes \/ ~request[r].fresh \/ request[r].at = "asked" \/ PostingFails(r)
    /\ request' = [request EXCEPT ![r] = Idle]
    /\ UNCHANGED <<order, attempts, bank, receipt, drawer>>

\* hold_order and cancel_order.
SetAside(status) ==
    /\ \/ order.status = "Building" /\ status \in {"Held", "Cancelled"}
       \/ order.status = "Held" /\ status \in {"Building", "Cancelled"}
    /\ order' = [order EXCEPT !.status = status]
    /\ SavedElsewhere
    /\ UNCHANGED <<attempts, bank, receipt, drawer>>

Next ==
    \/ \E r \in Requests, k \in Keys : CheckoutStart(r, k)
    \/ \E r \in Requests, o \in CardOps : AskStatus(r, o)
    \/ \E r \in Requests : Answer(r) \/ StatusAnswer(r) \/ Settle(r) \/ Drop(r)
    \/ \E o \in CardOps : BankDecides(o)
    \/ \E s \in {"Uncertain", "Error", "Fiscalized"} : Deliver(s)
    \/ \E s \in {"Building", "Held", "Cancelled"} : SetAside(s)
    \/ Recover

Spec == Init /\ [][Next]_vars

\* recover_pos_fiscal_pending runs again and again: every five minutes from
\* recover_fiscal_state, and whenever the outbox has processed a job of the POS.
FairSpec == Spec /\ WF_vars(Recover)

-----------------------------------------------------------------------------
(* Properties.                                                             *)

Charged     == {o \in CardOps : bank[o] = "charged"}
Interrupted == \E o \in CardOps : bank[o] = "cancelled"

\* Every record keeps the fields and values of its DocType.
TypeOK ==
    /\ order.status \in {"Building", "Held", "Cancelled", "Payment In Progress", "Payment Unknown",
                         "Awaiting Payment", "Fiscal Pending", "Completed"}
    /\ order.key \in Keys \cup {NoKey} /\ order.invoice \in BOOLEAN /\ order.fiscal \in BOOLEAN
    /\ order.plan \in Seq({"Confirmed", "Failed"})
    /\ attempts \in [Ops -> {"None", "Sent", "Unknown", "Confirmed", "Declined"}]
    /\ bank \in [CardOps -> {"none", "charged", "refused", "cancelled"}]
    /\ receipt \in {"none", "Uncertain", "Error", "Fiscalized"}
    /\ drawer \in [Rows -> Nat]

\* An invoice is posted for money that was taken: every row of one whole plan is
\* confirmed and the bank charged its card rows, whichever of the checkout and
\* the status request found out last.
PaidInFull ==
    order.invoice =>
        /\ Len(order.plan) = Len(PlanOf[order.key]) /\ AllConfirmed(order.plan)
        /\ \A o \in CardOps : o[1] = order.key => bank[o] = "charged"

\* The buyer's card is charged once, although the bank may charge after the call timed
\* out, requests die and the cashier pays again with another key; and an order that can
\* be paid (again) owes all of it: no card operation was charged and none may still be
\* (docs/pos/04-state-machines.md forbids a new attempt while one is Sent or Unknown).
\* An operation cancelled at the terminal is the exception: its attempt stays Unknown,
\* and a later status request for it reopens an order whose new payment is unknown.
ChargedOnce ==
    \/ Interrupted
    \/ /\ Cardinality(Charged) =< 1
       /\ Payable(order.status) => /\ Charged = {}
                                  /\ \A o \in CardOps : attempts[o] \in {"None", "Declined"}

\* The drawer has one movement for each row of a posted plan and none before,
\* also when a late status request completes the order a second time.
DrawerFollowsInvoice ==
    \A i \in Rows : drawer[i] = IF order.invoice /\ i \in DOMAIN order.plan THEN 1 ELSE 0

\* A fiscal sale is completed only with a receipt the server issued, a receipt
\* is only sought for a posted sale, and a posted sale is never reopened.
CompletedIsFiscal ==
    /\ order.status = "Completed" => order.invoice /\ (order.fiscal => receipt = "Fiscalized")
    /\ receipt # "none" => order.invoice
    /\ order.invoice => order.status \in {"Fiscal Pending", "Completed"}

\* An issued receipt reaches its order: it does not stay pending for ever, not
\* even when the request that waited for the receipt died or was overtaken.
ReceiptReachesOrder ==
    order.status = "Fiscal Pending" /\ receipt = "Fiscalized" ~> order.status = "Completed"

\* _complete_paid_order puts a paid order whose posting failed under review, and
\* an unclear payment is Payment Unknown: when no request is under way, a charge
\* of the bank shows in the status of the order.
ChargeIsRecorded ==
    (\A r \in Requests : request[r].at = "idle") /\ Charged # {}
        => order.status \in {"Payment Unknown", "Manual Review", "Fiscal Pending", "Completed"}
=============================================================================
