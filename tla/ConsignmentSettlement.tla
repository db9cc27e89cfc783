------------------------- MODULE ConsignmentSettlement -------------------------
(***************************************************************************)
(* What a shop owes its partner (consignment_and_commission): the sale of  *)
(* partner's goods recognises a liability, customers return part of them,  *)
(* settlement reports turn the liability into a debt, which payments       *)
(* settle and later returns adjust.  Two accounts are kept: the unreported *)
(* liability and the payable of the supplier.                              *)
(*                                                                         *)
(* A step is one database transaction, and is taken as if no other changed *)
(* its rows meanwhile.  A return is created and submitted in one step: its *)
(* draft holds only what submitting computes again.                        *)
(***************************************************************************)
EXTENDS Integers, FiniteSets, FiniteSetsExt, Sums

CONSTANTS
    Sales,      \* CC Sale Allocations, one of a sale
    Returns, Reports, Payments,
    Units,      \* sold in each sale
    Partner,    \* the partner's share of a sale, in kopecks
    Parts,      \* amounts paid at a time
    None

ASSUME SettlementAssumption ==
    /\ {Units, Partner} \subseteq Nat \ {0} /\ Parts \subseteq Nat \ {0}
    /\ \A S \in {Sales, Returns, Reports, Payments} : IsFiniteSet(S)
    /\ None \notin Sales \cup Reports \cup {0, 1, 2}
    /\ None \notin {"SOLD", "PARTIALLY_RETURNED", "RETURNED", "REPORTED", "CANCELLED",
                    "posted", "cancelled", "draft", "submitted"}

VARIABLES
    sale,    \* CC Sale Allocation
    back,    \* CC Sale Return Allocation, with its CC Settlement Adjustment
    report,  \* CC Settlement Report; doc is its docstatus, rows what its sales are owed
    payment, \* Payment Entry
    ledger   \* balances of the two accounts

vars == <<sale, back, report, payment, ledger>>

Positive(n)  == Max({0, n})
Round(a, b)  == (2 * a + b) \div (2 * b)     \* to the kopeck, halves up

\* calculate_return_financial_delta: the share of the units returned so far, less
\* the share of those returned before.
Share(q) == IF q = Units THEN Partner ELSE Round(Partner * q, Units)
Delta(before, q) == Share(before + q) - Share(before)

Init ==
    /\ sale = [s \in Sales |-> [status |-> None, returned |-> 0, report |-> None]]
    /\ back = [t \in Returns |-> [status |-> None, sale |-> None, qty |-> 0, amount |-> 0,
                                  report |-> None, applied |-> 0]]
    /\ report = [r \in Reports |-> [doc |-> None, status |-> None, rows |-> [s \in Sales |-> 0],
                                    adjusted |-> 0, paid |-> 0, outstanding |-> 0, credit |-> 0]]
    /\ payment = [p \in Payments |-> [status |-> None, report |-> None, amount |-> 0]]
    /\ ledger = [unreported |-> 0, payable |-> 0]

Total(r) == SumOver(report[r].rows, Sales)
Audits(s) == {t \in Returns : back[t].status = "posted" /\ back[t].sale = s}
\* Adjustments of a report: the returns that were posted when it was submitted.
Adjustments(B, r) == {t \in Returns : B[t].status = "posted" /\ B[t].report = r}
Amounts(D) == [d \in DOMAIN D |-> D[d].amount]
Paid(P, r) == SumOver(Amounts(P), {p \in Payments : P[p].status = "submitted" /\ P[p].report = r})

\* Mutant: what was adjusted is kept from the last time.
RefreshedPayments(r, B, P) ==
    LET net == Total(r) - report[r].adjusted
        paid == Paid(P, r)
    IN  [report[r] EXCEPT !.paid = paid, !.outstanding = Positive(net - paid),
                          !.credit = Positive(paid - net)]

\* refresh_settlement_lifecycle: the report after its adjustments are those of B and
\* its payments those of P.
Refreshed(r, B, P) ==
    LET adjusted == SumOver(Amounts(B), Adjustments(B, r))
        net == Total(r) - adjusted
        paid == Paid(P, r)
    IN  IF report[r].doc # 1 THEN report[r]
        ELSE [report[r] EXCEPT
               !.adjusted = adjusted, !.paid = paid,
               !.outstanding = Positive(net - paid), !.credit = Positive(paid - net),
               !.status = CASE paid > net -> "CREDIT_DUE"
                            [] paid = net /\ net = 0 -> "ADJUSTED"
                            [] paid = net /\ net # 0 -> "PAID"
                            [] paid < net /\ paid # 0 -> "PARTIALLY_PAID"
                            [] paid < net /\ paid = 0 -> "PAYABLE"]

-----------------------------------------------------------------------------
(* Sales and returns.                                                      *)

Sell(s) ==
    /\ sale[s].status = None
    /\ sale' = [sale EXCEPT ![s].status = "SOLD"]
    /\ ledger' = [ledger EXCEPT !.unreported = @ + Partner]
    /\ UNCHANGED <<back, report, payment>>

\* An invoice with a submitted return cannot be cancelled, nor one that is reported.
CancelSale(s) ==
    /\ sale[s].status \notin {None, "CANCELLED"}
    /\ sale[s].report = None /\ Audits(s) = {}
    /\ sale' = [sale EXCEPT ![s].status = "CANCELLED"]
    /\ ledger' = [ledger EXCEPT !.unreported = @ - Partner]
    /\ UNCHANGED <<back, report, payment>>

\* What an audit row notes as its report.
ReportOf(s) == sale[s].report

\* The status of a sale after a return or its cancellation.
SaleStatus(s, returned) ==
    CASE sale[s].report # None -> "REPORTED"
      [] sale[s].report = None /\ returned = 0 -> "SOLD"
      [] sale[s].report = None /\ returned = Units -> "RETURNED"
      [] OTHER -> "PARTIALLY_RETURNED"

\* create_return_settlement_adjustments, for a sale whose report is submitted.
Adjusts(s, amount) ==
    LET r == sale[s].report
    IN  /\ report[r].doc = 1 /\ amount > 0
        /\ report[r].adjusted + amount <= Total(r)

\* The audit, the reversal of the liability and, for a reported sale, the
\* adjustment, which brings the liability back and takes it off the payable.
PostReturn(t, s, q) ==
    LET r == ReportOf(s)
        amount == Delta(sale[s].returned, q)
        B == [back EXCEPT ![t] =
                [status |-> "posted", sale |-> s, qty |-> q, amount |-> amount, report |-> r,
                 applied |-> IF r = None THEN 0 ELSE Min({amount, report[r].outstanding})]]
    IN  /\ back[t].status = None
        /\ sale[s].status \in {"SOLD", "PARTIALLY_RETURNED", "REPORTED"}
        /\ sale[s].returned + q <= Units
        /\ sale[s].report # None => Adjusts(s, amount)
        /\ back' = B
        /\ sale' = [sale EXCEPT ![s].returned = @ + q, ![s].status = SaleStatus(s, sale[s].returned + q)]
        /\ IF r = None
           THEN /\ ledger' = [ledger EXCEPT !.unreported = @ - amount]
                /\ UNCHANGED report
           ELSE /\ ledger' = [ledger EXCEPT !.payable = @ - amount]
                /\ report' = [report EXCEPT ![r] = Refreshed(r, B, payment)]
        /\ UNCHANGED payment

\* The journals that were posted are cancelled; the sale may be reported since.
CancelReturn(t) ==
    LET s == back[t].sale
        r == back[t].report
        B == [back EXCEPT ![t].status = "cancelled"]
        returned == sale[s].returned - back[t].qty
    IN  /\ back[t].status = "posted" /\ returned >= 0
        /\ back' = B
        /\ sale' = [sale EXCEPT ![s].returned = returned, ![s].status = SaleStatus(s, returned)]
        /\ IF r = None
           THEN /\ ledger' = [ledger EXCEPT !.unreported = @ + back[t].amount]
                /\ UNCHANGED report
           ELSE /\ ledger' = [ledger EXCEPT !.payable = @ + back[t].amount]
                /\ report' = [report EXCEPT ![r] = Refreshed(r, B, payment)]
        /\ UNCHANGED payment

-----------------------------------------------------------------------------
(* Reports.                                                                *)

Quantity(s) == SumOver([t \in Returns |-> back[t].qty], Audits(s))

\* Mutant: what was returned before is reported too.
ReportableAll(s) == Partner
\* calculate_reportable_partner_balance.
Reportable(s) == Partner - SumOver(Amounts(back), Audits(s))

CreateReport(r, S) ==
    /\ report[r].doc = None /\ S # {}
    /\ \A s \in S : /\ sale[s].status \in {"SOLD", "PARTIALLY_RETURNED"} /\ sale[s].report = None
                    /\ Quantity(s) = sale[s].returned
                    /\ Reportable(s) > 0
    /\ LET rows == [s \in Sales |-> IF s \in S THEN Reportable(s) ELSE 0]
       IN  report' = [report EXCEPT ![r].doc = 0, ![r].status = "DRAFT", ![r].rows = rows,
                                    ![r].outstanding = SumOver(rows, S)]
    /\ sale' = [s \in Sales |-> IF s \in S THEN [sale[s] EXCEPT !.report = r] ELSE sale[s]]
    /\ UNCHANGED <<back, payment, ledger>>

\* post_settlement_debt.
SubmitReport(r) ==
    /\ report[r].doc = 0
    /\ report' = [report EXCEPT ![r].doc = 1, ![r].status = "PAYABLE"]
    /\ sale' = [s \in Sales |-> IF sale[s].report = r THEN [sale[s] EXCEPT !.status = "REPORTED"]
                                                      ELSE sale[s]]
    /\ ledger' = [unreported |-> ledger.unreported - Total(r), payable |-> ledger.payable + Total(r)]
    /\ UNCHANGED <<back, payment>>

\* release_report_allocations.
Released(r) ==
    [s \in Sales |-> IF sale[s].report # r THEN sale[s]
                     ELSE [sale[s] EXCEPT !.report = None,
                             !.status = IF sale[s].returned = 0 THEN "SOLD" ELSE "PARTIALLY_RETURNED"]]

DeleteReport(r) ==
    /\ report[r].doc = 0
    /\ report' = [report EXCEPT ![r].doc = 2, ![r].status = "CANCELLED"]
    /\ sale' = Released(r)
    /\ UNCHANGED <<back, payment, ledger>>

\* Not while it is paid or adjusted.
CancelReport(r) ==
    /\ report[r].doc = 1
    /\ report[r].paid = 0 /\ Adjustments(back, r) = {}
    /\ report' = [report EXCEPT ![r].doc = 2, ![r].status = "CANCELLED"]
    /\ sale' = Released(r)
    /\ ledger' = [unreported |-> ledger.unreported + Total(r), payable |-> ledger.payable - Total(r)]
    /\ UNCHANGED <<back, payment>>

-----------------------------------------------------------------------------
(* Payments.                                                               *)

CreatePayment(p, r, n) ==
    /\ payment[p].status = None
    /\ report[r].doc = 1 /\ report[r].status \in {"PAYABLE", "PARTIALLY_PAID"}
    /\ n <= report[r].outstanding
    /\ payment' = [payment EXCEPT ![p] = [status |-> "draft", report |-> r, amount |-> n]]
    /\ UNCHANGED <<sale, back, report, ledger>>

\* What ERPNext knows to be open of the debt journal: credits it was told of.
DebtLeft(r) == Total(r) - Paid(payment, r)
               - SumOver([t \in Returns |-> back[t].applied], Adjustments(back, r))

\* validate_settlement_payment does not look at the outstanding amount again;
\* ERPNext refuses to allocate more than is open.
SubmitPayment(p) ==
    LET r == payment[p].report
        P == [payment EXCEPT ![p].status = "submitted"]
    IN  /\ payment[p].status = "draft"
        /\ report[r].doc = 1 /\ report[r].status \in {"PAYABLE", "PARTIALLY_PAID", "PAID"}
        /\ payment[p].amount <= DebtLeft(r)
        /\ payment' = P
        /\ report' = [report EXCEPT ![r] = Refreshed(r, back, P)]
        /\ ledger' = [ledger EXCEPT !.payable = @ - payment[p].amount]
        /\ UNCHANGED <<sale, back>>

CancelPayment(p) ==
    LET r == payment[p].report
        P == [payment EXCEPT ![p].status = "cancelled"]
    IN  /\ payment[p].status = "submitted"
        /\ payment' = P
        /\ report' = [report EXCEPT ![r] = Refreshed(r, back, P)]
        /\ ledger' = [ledger EXCEPT !.payable = @ + payment[p].amount]
        /\ UNCHANGED <<sale, back>>

-----------------------------------------------------------------------------
Next ==
    \/ \E s \in Sales : Sell(s) \/ CancelSale(s)
    \/ \E t \in Returns : CancelReturn(t) \/ \E s \in Sales, q \in 1..Units : PostReturn(t, s, q)
    \/ \E r \in Reports : SubmitReport(r) \/ DeleteReport(r) \/ CancelReport(r)
                          \/ \E S \in SUBSET Sales : CreateReport(r, S)
    \/ \E p \in Payments : SubmitPayment(p) \/ CancelPayment(p)
                           \/ \E r \in Reports, n \in Parts : CreatePayment(p, r, n)

Spec == Init /\ [][Next]_vars

-----------------------------------------------------------------------------
(* What the reconciliation says.                                           *)

\* Findings of audit_financial_integrity about a sale and about a report.
SaleIssues ==
    {s \in Sales : \/ Quantity(s) # sale[s].returned
                   \/ sale[s].returned \notin 0..Units
                   \/ sale[s].status = "REPORTED" /\ sale[s].report = None}
ReportIssues ==
    {r \in Reports :
       /\ report[r].doc = 1
       /\ \/ SumOver(Amounts(back), Adjustments(back, r)) # report[r].adjusted
          \/ Paid(payment, r) # report[r].paid
          \/ report[r].paid + report[r].outstanding
               # Total(r) - report[r].adjusted + report[r].credit}

\* get_partner_balances: what it counts as unreported, and as owed after reports.
Unreported ==
    SumOver([s \in Sales |-> Reportable(s)],
            {s \in Sales : sale[s].status \in {"SOLD", "PARTIALLY_RETURNED"} /\ sale[s].report = None})
Owed == SumOver([r \in Reports |-> report[r].outstanding - report[r].credit],
                {r \in Reports : report[r].doc = 1})

-----------------------------------------------------------------------------
(* Properties.                                                             *)

\* Whatever the order of returns, reports, payments and cancellations, the audit
\* has nothing to report and what is owed is the balance of the payable.
AuditFindsNothing ==
    /\ SaleIssues = {} /\ ReportIssues = {}
    /\ Owed = ledger.payable

\* The partner is owed his share of a sale once: what live reports hold of a sale
\* and what was returned outside of them never come to more than the share, and
\* what returns take off a report is not more than it holds.
OwedOnce ==
    /\ \A s \in Sales :
         LET reported == SumOver([r \in Reports |-> report[r].rows[s]],
                                 {r \in Reports : report[r].doc \in {0, 1}})
         IN  reported > 0 =>
               reported + SumOver(Amounts(back), {t \in Audits(s) : back[t].report = None}) <= Partner
    /\ \A r \in Reports :
         report[r].doc = 1 => SumOver(Amounts(back), Adjustments(back, r)) <= Total(r)

\* "Move an unreported balance to the official Supplier payable" (accounting.py):
\* the liability account holds what is not reported yet, and nothing else.
LiabilityIsUnreported ==
    (\A r \in Reports : report[r].doc # 0) => ledger.unreported = Unreported

\* "Allocate rounding cumulatively so the final return exactly closes the sale."
FinalReturnCloses ==
    \A s \in Sales : sale[s].returned = Units =>
                       SumOver(Amounts(back), Audits(s)) = Partner
=============================================================================
