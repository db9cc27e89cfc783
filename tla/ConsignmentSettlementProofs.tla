---------------------- MODULE ConsignmentSettlementProofs ----------------------
(***************************************************************************)
(* What a shop owes its partner, for every number of units, share, sales,  *)
(* returns, reports and payments: the audit finds nothing, and a share is  *)
(* owed once.                                                              *)
(***************************************************************************)
EXTENDS ConsignmentSettlement, SumProofs, TLAPS

-----------------------------------------------------------------------------
(* The invariant.                                                          *)

SaleType == [status : {None, "SOLD", "PARTIALLY_RETURNED", "RETURNED", "REPORTED", "CANCELLED"},
             returned : Nat, report : Reports \cup {None}]
BackType == [status : {None, "posted", "cancelled"}, sale : Sales \cup {None}, qty : Nat,
             amount : Nat, report : Reports \cup {None}, applied : Int]
ReportStatus == {None, "DRAFT", "PAYABLE", "PARTIALLY_PAID", "PAID", "ADJUSTED",
                 "CREDIT_DUE", "CANCELLED"}
ReportType == [doc : {None, 0, 1, 2}, status : ReportStatus,
               rows : [Sales -> Nat], adjusted : Int, paid : Int, outstanding : Int, credit : Int]
PaymentType == [status : {None, "draft", "submitted", "cancelled"},
                report : Reports \cup {None}, amount : Nat]

Typed == /\ sale \in [Sales -> SaleType]
         /\ back \in [Returns -> BackType]
         /\ report \in [Reports -> ReportType]
         /\ payment \in [Payments -> PaymentType]
         /\ ledger \in [unreported : Int, payable : Int]

Live(x)        == x.doc \in {0, 1}
Holding(x)     == SumOver(x.rows, Sales)
Counts(b, s)   == b.status = "posted" /\ b.sale = s
Adjusted(B, r) == SumOver(Amounts(B), Adjustments(B, r))
Returned(B, s) == SumOver([t \in Returns |-> B[t].qty], {t \in Returns : Counts(B[t], s)})
Outside(B, s)  == SumOver(Amounts(B), {t \in Returns : Counts(B[t], s) /\ B[t].report = None})
Due(x)         == x.outstanding - x.credit
OwedIn(R)      == SumOver([r \in Reports |-> Due(R[r])], {r \in Reports : R[r].doc = 1})

\* A return that is posted is of a sale; one that adjusts a report is of a sale
\* that stays bound to that report, which is submitted.
Posted == \A t \in Returns : back[t].status = "posted" =>
    /\ back[t].sale \in Sales
    /\ back[t].report # None => /\ sale[back[t].sale].report = back[t].report
                                /\ report[back[t].report].doc = 1

\* A payment pays a report, and once submitted keeps it submitted.
Paying == \A p \in Payments :
    /\ payment[p].status \in {"draft", "submitted"} => /\ payment[p].report \in Reports
                                                       /\ payment[p].amount > 0
    /\ payment[p].status = "submitted" => report[payment[p].report].doc = 1

\* A sale counts what was returned of it.
Counted == \A s \in Sales :
    /\ sale[s].returned = Returned(back, s) /\ sale[s].returned =< Units
    /\ sale[s].status = "REPORTED" => sale[s].report # None

\* A live report holds what its sales were owed when it was made, and only of
\* sales that are bound to it.
Bound == \A s \in Sales :
    /\ \A r \in Reports : Live(report[r]) /\ report[r].rows[s] # 0 => sale[s].report = r
    /\ sale[s].report # None =>
         /\ Live(report[sale[s].report])
         /\ report[sale[s].report].rows[s] + Outside(back, s) =< Partner

\* What a report says, when its adjustments come to a and its payments to p.
Says(x, a, p) ==
    /\ x.doc = 1 => /\ x.adjusted = a /\ x.paid = p /\ Due(x) = Holding(x) - a - p
                    /\ a =< Holding(x)
    /\ x.doc = 0 => /\ x.adjusted = 0 /\ x.paid = 0
                    /\ x.outstanding = Holding(x) /\ x.credit = 0
    /\ x.doc = None => x.adjusted = 0 /\ x.paid = 0 /\ x.credit = 0
Agreed == \A r \in Reports : Says(report[r], Adjusted(back, r), Paid(payment, r))

Balanced == ledger.payable = OwedIn(report)

SettlementInv == /\ Typed /\ Posted /\ Paying /\ Counted /\ Bound /\ Agreed /\ Balanced

-----------------------------------------------------------------------------
(* Shares.                                                                 *)

\* Between what a whole division lies.
LEMMA DivFacts ==
    ASSUME NEW a \in Nat, NEW d \in Nat \ {0}
    PROVE  /\ a \div d \in Nat
           /\ d * (a \div d) =< a
           /\ a < d * (a \div d) + d
<1>1. a \div d \in Nat /\ a % d \in 0 .. (d - 1)
  OBVIOUS
<1>2. a = d * (a \div d) + (a % d)
  OBVIOUS
<1>3. d * (a \div d) \in Nat
  BY <1>1
<1> QED
  BY <1>1, <1>2, <1>3

\* A product grows with its factor.
LEMMA Times ==
    ASSUME NEW x \in Nat, NEW y \in Nat, NEW d \in Nat, x < y
    PROVE  d * x + d =< d * y
<1>1. PICK k \in Nat : y = x + 1 + k
  <2>1. y - x - 1 \in Nat /\ y = x + 1 + (y - x - 1)
    OBVIOUS
  <2> QED BY <2>1
<1>2. d * (x + 1 + k) = d * x + d + d * k
  OBVIOUS
<1>3. d * k \in Nat /\ d * x \in Nat
  OBVIOUS
<1> QED BY <1>1, <1>2, <1>3

\* A division grows with what is divided.
LEMMA DivMonotone ==
    ASSUME NEW a \in Nat, NEW b \in Nat, a =< b, NEW d \in Nat \ {0}
    PROVE  a \div d =< b \div d
<1> DEFINE x == b \div d  y == a \div d
<1>1. /\ x \in Nat /\ y \in Nat /\ d * y =< a /\ b < d * x + d
  BY DivFacts
<1>2. x < y => d * x + d =< d * y
  BY <1>1, Times
<1>3. d * x \in Nat /\ d * y \in Nat
  BY <1>1
<1> HIDE DEF x, y
<1>4. ~ (x < y)
  BY <1>1, <1>2, <1>3
<1> QED BY <1>1, <1>4 DEF x, y

\* A share of the units is no more than the share of the whole.
LEMMA ShareIs ==
    ASSUME NEW q \in 0 .. Units
    PROVE  Share(q) \in Nat /\ Share(q) =< Partner
<1>0. Units \in Nat \ {0} /\ Partner \in Nat \ {0}
  BY SettlementAssumption
<1>1. CASE q = Units
  BY <1>0, <1>1 DEF Share
<1>2. CASE q # Units
  <2> DEFINE a == 2 * (Partner * q) + Units  d == 2 * Units  x == a \div d
  <2>1. Share(q) = x
    BY <1>2 DEF Share, Round
  <2>2. Partner * q \in Nat /\ q < Units /\ q \in Nat
    BY <1>0, <1>2
  <2>3. Partner * q + Partner =< Partner * Units
    BY <1>0, <2>2, Times
  <2>4. Partner * Units \in Nat
    BY <1>0
  <2>5. a \in Nat /\ d \in Nat \ {0}
    BY <1>0, <2>2
  <2>6. a < 2 * (Partner * Units) + d
    BY <1>0, <2>2, <2>3, <2>4
  <2>7. /\ x \in Nat /\ d * x =< a
    BY <2>5, DivFacts
  <2>8. Partner < x => d * Partner + d =< d * x
    BY <1>0, <2>5, <2>7, Times
  <2>9. d * Partner = 2 * (Partner * Units) /\ d * x \in Nat
    BY <1>0, <2>7
  <2> HIDE DEF a, d, x
  <2>10. ~ (Partner < x)
    BY <2>4, <2>5, <2>6, <2>7, <2>8, <2>9
  <2> QED BY <1>0, <2>1, <2>7, <2>10
<1> QED BY <1>1, <1>2

\* More units are never a smaller share: no return has a negative delta.
LEMMA ShareMonotone ==
    ASSUME NEW q \in 0 .. Units, NEW p \in 0 .. q
    PROVE  Share(p) =< Share(q)
<1>0. Units \in Nat \ {0} /\ Partner \in Nat \ {0}
  BY SettlementAssumption
<1>1. p \in 0 .. Units /\ Share(p) \in Nat /\ Share(p) =< Partner /\ p \in Nat /\ q \in Nat
  BY <1>0, ShareIs
<1>2. CASE q = Units
  BY <1>0, <1>1, <1>2 DEF Share
<1>3. CASE q # Units
  <2>1. p # Units
    BY <1>0, <1>3
  <2>2. p < q => Partner * p + Partner =< Partner * q
    BY <1>0, <1>1, Times
  <2>3. Partner * p \in Nat /\ Partner * q \in Nat
    BY <1>0, <1>1
  <2>4. Partner * p =< Partner * q
    <3>1. CASE p = q
      BY <3>1, <2>3
    <3>2. CASE p < q
      BY <1>0, <3>2, <2>2, <2>3
    <3> QED BY <1>1, <3>1, <3>2
  <2>5. /\ 2 * (Partner * p) + Units \in Nat /\ 2 * (Partner * q) + Units \in Nat
        /\ 2 * (Partner * p) + Units =< 2 * (Partner * q) + Units /\ 2 * Units \in Nat \ {0}
    BY <1>0, <2>3, <2>4
  <2>6. (2 * (Partner * p) + Units) \div (2 * Units) =< (2 * (Partner * q) + Units) \div (2 * Units)
    BY <2>5, DivMonotone
  <2> QED BY <1>3, <2>1, <2>6 DEF Share, Round
<1> QED BY <1>2, <1>3

-----------------------------------------------------------------------------
(* What the sums are after one document changed.                           *)

\* Sales and returns are finitely many.
LEMMA Finite == /\ IsFiniteSet(Sales) /\ IsFiniteSet(Returns)
                /\ IsFiniteSet(Reports) /\ IsFiniteSet(Payments)
BY SettlementAssumption

\* Positive without the CHOOSE that a maximum is.
LEMMA PositiveIs == ASSUME NEW n \in Int PROVE Positive(n) = IF n > 0 THEN n ELSE 0
<1> DEFINE m == IF n > 0 THEN n ELSE 0
<1>1. m \in {0, n} /\ \A y \in {0, n} : m >= y
  OBVIOUS
<1>2. \A x \in {0, n} : (\A y \in {0, n} : x >= y) => x = m
  OBVIOUS
<1> HIDE DEF m
<1>3. (CHOOSE x \in {0, n} : \A y \in {0, n} : x >= y) = m
  BY <1>1, <1>2
<1> QED BY <1>3 DEF Positive, Max, m

\* The least of two integers is one of them.
LEMMA MinIn == ASSUME NEW a \in Int, NEW b \in Int PROVE Min({a, b}) \in {a, b}
<1> DEFINE m == IF a =< b THEN a ELSE b
<1>1. m \in {a, b} /\ \A y \in {a, b} : m =< y
  OBVIOUS
<1>2. Min({a, b}) \in {a, b}
  BY <1>1 DEF Min
<1> QED BY <1>2

Backs    == [Returns -> BackType]
Payings  == [Payments -> PaymentType]
Reported == [Reports -> ReportType]

\* What a return takes is a number.
LEMMA BackFacts ==
    ASSUME NEW B \in Backs
    PROVE  /\ Nats(Amounts(B), Returns) /\ Ints(Amounts(B), Returns)
           /\ Nats([t \in Returns |-> B[t].qty], Returns)
           /\ Ints([t \in Returns |-> B[t].qty], Returns)
           /\ \A t \in Returns : Amounts(B)[t] = B[t].amount
<1>1. \A t \in Returns : B[t].amount \in Nat /\ B[t].qty \in Nat
  BY DEF Backs, BackType
<1>2. Amounts(B) = [t \in Returns |-> B[t].amount]
  BY DEF Amounts, Backs
<1> QED BY <1>1, <1>2 DEF Nats, Ints

\* What adjusts a report is a number.
LEMMA AdjustedNat ==
    ASSUME NEW B \in Backs, NEW r
    PROVE  Adjusted(B, r) \in Nat
<1>1. /\ IsFiniteSet(Adjustments(B, r)) /\ Adjustments(B, r) \subseteq Returns
  BY Finite, FS_Subset DEF Adjustments
<1>2. Nats(Amounts(B), Adjustments(B, r))
  BY <1>1, BackFacts DEF Nats
<1> QED BY <1>1, <1>2, SumNat DEF Adjusted

\* What was returned of a sale, and what of it outside of reports, are numbers.
LEMMA ReturnedNat ==
    ASSUME NEW B \in Backs, NEW s
    PROVE  Returned(B, s) \in Nat /\ Outside(B, s) \in Nat
<1> DEFINE T == {t \in Returns : Counts(B[t], s)}
           U == {t \in Returns : Counts(B[t], s) /\ B[t].report = None}
           f == [t \in Returns |-> B[t].qty]
<1>1. IsFiniteSet(T) /\ IsFiniteSet(U) /\ T \subseteq Returns /\ U \subseteq Returns
  BY Finite, FS_Subset
<1> HIDE DEF T, U
<1>2. Nats(f, T) /\ Nats(Amounts(B), U)
  BY <1>1, BackFacts DEF Nats
<1> HIDE DEF f
<1>3. SumOver(f, T) \in Nat /\ SumOver(Amounts(B), U) \in Nat
  BY <1>1, <1>2, SumNat
<1> QED BY <1>3 DEF Returned, Outside, T, U, f

\* C is B after the return t changed.
Changed(B, C, t) == \A u \in Returns \ {t} : C[u] = B[u]

ToReport(b, r)  == IF b.status = "posted" /\ b.report = r THEN b.amount ELSE 0
OfSale(b, s)    == IF Counts(b, s) THEN b.qty ELSE 0
OutsideOf(b, s) == IF Counts(b, s) /\ b.report = None THEN b.amount ELSE 0

\* One return changes: what adjusts a report moves by its part.
LEMMA AdjustedShift ==
    ASSUME NEW B \in Backs, NEW C \in Backs, NEW t \in Returns, Changed(B, C, t), NEW r
    PROVE  Adjusted(C, r) = Adjusted(B, r) - ToReport(B[t], r) + ToReport(C[t], r)
<1> DEFINE T == Adjustments(B, r)  U == Adjustments(C, r)
<1>1. /\ T \in SUBSET Returns /\ U \in SUBSET Returns
      /\ t \in T <=> (B[t].status = "posted" /\ B[t].report = r)
      /\ t \in U <=> (C[t].status = "posted" /\ C[t].report = r)
  BY DEF Adjustments
<1>2. T \ {t} = U \ {t}
  BY DEF Adjustments, Changed
<1>3. \A y \in T \ {t} : Amounts(B)[y] = Amounts(C)[y]
  <2>1. \A y \in Returns : Amounts(B)[y] = B[y].amount /\ Amounts(C)[y] = C[y].amount
    BY BackFacts
  <2>2. \A y \in T \ {t} : y \in Returns /\ C[y] = B[y]
    BY <1>1 DEF Changed
  <2> HIDE DEF T
  <2> QED BY <2>1, <2>2
<1>0. Ints(Amounts(B), Returns) /\ Ints(Amounts(C), Returns)
  BY BackFacts
<1> HIDE DEF T, U
<1>4. SumOver(Amounts(C), U) = SumOver(Amounts(B), T)
         - (IF t \in T THEN Amounts(B)[t] ELSE 0) + (IF t \in U THEN Amounts(C)[t] ELSE 0)
  BY <1>0, <1>1, <1>2, <1>3, Finite, SumShift
<1>5. /\ (IF t \in T THEN Amounts(B)[t] ELSE 0) = ToReport(B[t], r)
      /\ (IF t \in U THEN Amounts(C)[t] ELSE 0) = ToReport(C[t], r)
  BY <1>1, BackFacts DEF ToReport
<1> QED BY <1>4, <1>5 DEF Adjusted, T, U

\* One return changes: what was returned of a sale moves by its part.
LEMMA ReturnedShift ==
    ASSUME NEW B \in Backs, NEW C \in Backs, NEW t \in Returns, Changed(B, C, t), NEW s
    PROVE  Returned(C, s) = Returned(B, s) - OfSale(B[t], s) + OfSale(C[t], s)
<1> DEFINE T == {u \in Returns : Counts(B[u], s)}  U == {u \in Returns : Counts(C[u], s)}
           f == [u \in Returns |-> B[u].qty]  g == [u \in Returns |-> C[u].qty]
<1>1. /\ T \in SUBSET Returns /\ U \in SUBSET Returns
      /\ t \in T <=> Counts(B[t], s)
      /\ t \in U <=> Counts(C[t], s)
  OBVIOUS
<1>2. T \ {t} = U \ {t}
  BY DEF Changed
<1>3. \A y \in T \ {t} : f[y] = g[y]
  BY DEF Changed
<1>4. f[t] = B[t].qty /\ g[t] = C[t].qty /\ Ints(f, Returns) /\ Ints(g, Returns)
  BY BackFacts
<1> HIDE DEF T, U, f, g
<1>5. SumOver(g, U) = SumOver(f, T) - (IF t \in T THEN f[t] ELSE 0) + (IF t \in U THEN g[t] ELSE 0)
  BY <1>1, <1>2, <1>3, <1>4, Finite, SumShift
<1>6. /\ (IF t \in T THEN f[t] ELSE 0) = OfSale(B[t], s)
      /\ (IF t \in U THEN g[t] ELSE 0) = OfSale(C[t], s)
  BY <1>1, <1>4 DEF OfSale
<1> QED BY <1>5, <1>6 DEF Returned, T, U, f, g

\* One return changes: what was returned outside of reports moves by its part.
LEMMA OutsideShift ==
    ASSUME NEW B \in Backs, NEW C \in Backs, NEW t \in Returns, Changed(B, C, t), NEW s
    PROVE  Outside(C, s) = Outside(B, s) - OutsideOf(B[t], s) + OutsideOf(C[t], s)
<1> DEFINE T == {u \in Returns : Counts(B[u], s) /\ B[u].report = None}
           U == {u \in Returns : Counts(C[u], s) /\ C[u].report = None}
<1>1. /\ T \in SUBSET Returns /\ U \in SUBSET Returns
      /\ t \in T <=> (Counts(B[t], s) /\ B[t].report = None)
      /\ t \in U <=> (Counts(C[t], s) /\ C[t].report = None)
  OBVIOUS
<1>2. T \ {t} = U \ {t}
  BY DEF Changed
<1>3. \A y \in T \ {t} : Amounts(B)[y] = Amounts(C)[y]
  <2>1. \A y \in T \ {t} : y \in Returns \ {t}
    OBVIOUS
  <2>2. \A y \in Returns : Amounts(B)[y] = B[y].amount /\ Amounts(C)[y] = C[y].amount
    BY BackFacts
  <2>3. \A y \in Returns \ {t} : B[y] = C[y]
    BY DEF Changed
  <2> HIDE DEF T
  <2> QED BY <2>1, <2>2, <2>3
<1>0. Ints(Amounts(B), Returns) /\ Ints(Amounts(C), Returns)
  BY BackFacts
<1> HIDE DEF T, U
<1>4. SumOver(Amounts(C), U) = SumOver(Amounts(B), T)
         - (IF t \in T THEN Amounts(B)[t] ELSE 0) + (IF t \in U THEN Amounts(C)[t] ELSE 0)
  BY <1>0, <1>1, <1>2, <1>3, Finite, SumShift
<1>5. /\ (IF t \in T THEN Amounts(B)[t] ELSE 0) = OutsideOf(B[t], s)
      /\ (IF t \in U THEN Amounts(C)[t] ELSE 0) = OutsideOf(C[t], s)
  BY <1>1, BackFacts DEF OutsideOf
<1> QED BY <1>4, <1>5 DEF Outside, T, U

PaidTo(p, r) == IF p.status = "submitted" /\ p.report = r THEN p.amount ELSE 0

\* What was paid of a report is a number.
LEMMA PayFacts ==
    ASSUME NEW P \in Payings
    PROVE  /\ Nats(Amounts(P), Payments) /\ Ints(Amounts(P), Payments)
           /\ \A p \in Payments : Amounts(P)[p] = P[p].amount
           /\ \A r : Paid(P, r) \in Nat
<1>1. \A p \in Payments : P[p].amount \in Nat
  BY DEF Payings, PaymentType
<1>2. Amounts(P) = [p \in Payments |-> P[p].amount]
  BY DEF Amounts, Payings
<1>3. Nats(Amounts(P), Payments)
  BY <1>1, <1>2 DEF Nats
<1>4. ASSUME NEW r PROVE Paid(P, r) \in Nat
  <2> DEFINE T == {p \in Payments : P[p].status = "submitted" /\ P[p].report = r}
  <2>1. IsFiniteSet(T) /\ Nats(Amounts(P), T)
    BY <1>3, Finite, FS_Subset DEF Nats
  <2> HIDE DEF T
  <2>2. SumOver(Amounts(P), T) \in Nat
    BY <2>1, SumNat
  <2> QED BY <2>2 DEF Paid, T
<1> QED BY <1>1, <1>2, <1>3, <1>4 DEF Nats, Ints

\* One payment changes: what was paid of a report moves by its part.
LEMMA PaidShift ==
    ASSUME NEW P \in Payings, NEW Q \in Payings, NEW p \in Payments,
           \A q \in Payments \ {p} : Q[q] = P[q], NEW r
    PROVE  Paid(Q, r) = Paid(P, r) - PaidTo(P[p], r) + PaidTo(Q[p], r)
<1> DEFINE T == {q \in Payments : P[q].status = "submitted" /\ P[q].report = r}
           U == {q \in Payments : Q[q].status = "submitted" /\ Q[q].report = r}
<1>1. /\ T \in SUBSET Payments /\ U \in SUBSET Payments
      /\ p \in T <=> (P[p].status = "submitted" /\ P[p].report = r)
      /\ p \in U <=> (Q[p].status = "submitted" /\ Q[p].report = r)
  OBVIOUS
<1>2. T \ {p} = U \ {p}
  OBVIOUS
<1>3. \A y \in T \ {p} : Amounts(P)[y] = Amounts(Q)[y]
  BY PayFacts
<1> HIDE DEF T, U
<1>4. SumOver(Amounts(Q), U) = SumOver(Amounts(P), T)
         - (IF p \in T THEN Amounts(P)[p] ELSE 0) + (IF p \in U THEN Amounts(Q)[p] ELSE 0)
  <2>1. /\ Ints(Amounts(P), Payments) /\ Ints(Amounts(Q), Payments)
    BY PayFacts
  <2> QED BY <1>1, <1>2, <1>3, <2>1, Finite, SumShift
<1>5. /\ (IF p \in T THEN Amounts(P)[p] ELSE 0) = PaidTo(P[p], r)
      /\ (IF p \in U THEN Amounts(Q)[p] ELSE 0) = PaidTo(Q[p], r)
  BY <1>1, PayFacts DEF PaidTo
<1> QED BY <1>4, <1>5 DEF Paid, T, U

OwedOf(x) == IF x.doc = 1 THEN Due(x) ELSE 0

\* One report changes: what is owed moves by its part.
LEMMA OwedShift ==
    ASSUME NEW R \in Reported, NEW Q \in Reported, NEW r \in Reports,
           \A q \in Reports \ {r} : Q[q] = R[q]
    PROVE  OwedIn(Q) = OwedIn(R) - OwedOf(R[r]) + OwedOf(Q[r])
<1> DEFINE T == {q \in Reports : R[q].doc = 1}  U == {q \in Reports : Q[q].doc = 1}
           f == [q \in Reports |-> Due(R[q])]  g == [q \in Reports |-> Due(Q[q])]
<1>1. /\ T \in SUBSET Reports /\ U \in SUBSET Reports
      /\ r \in T <=> R[r].doc = 1
      /\ r \in U <=> Q[r].doc = 1
  OBVIOUS
<1>2. T \ {r} = U \ {r} /\ \A y \in T \ {r} : f[y] = g[y]
  OBVIOUS
<1>3. Ints(f, Reports) /\ Ints(g, Reports)
  BY DEF Ints, Due, Reported, ReportType
<1>4. f[r] = Due(R[r]) /\ g[r] = Due(Q[r])
  OBVIOUS
<1> HIDE DEF T, U, f, g
<1>5. SumOver(g, U) = SumOver(f, T) - (IF r \in T THEN f[r] ELSE 0) + (IF r \in U THEN g[r] ELSE 0)
  BY <1>1, <1>2, <1>3, Finite, SumShift
<1>6. /\ (IF r \in T THEN f[r] ELSE 0) = OwedOf(R[r])
      /\ (IF r \in U THEN g[r] ELSE 0) = OwedOf(Q[r])
  BY <1>1, <1>4 DEF OwedOf
<1> QED BY <1>5, <1>6 DEF OwedIn, T, U, f, g

\* What reports owe is an integer.
LEMMA OwedInt ==
    ASSUME NEW R \in Reported
    PROVE  OwedIn(R) \in Int /\ \A r \in Reports : Due(R[r]) \in Int /\ OwedOf(R[r]) \in Int
<1> DEFINE T == {q \in Reports : R[q].doc = 1}  f == [q \in Reports |-> Due(R[q])]
<1>1. \A r \in Reports : Due(R[r]) \in Int
  BY DEF Due, Reported, ReportType
<1>2. IsFiniteSet(T) /\ Ints(f, T)
  BY <1>1, Finite, FS_Subset DEF Ints
<1> HIDE DEF T, f
<1>3. SumOver(f, T) \in Int
  BY <1>2, SumInt
<1> QED BY <1>1, <1>3 DEF OwedIn, T, f, OwedOf

\* What a report holds is a number.
LEMMA HoldingNat ==
    ASSUME NEW x \in ReportType
    PROVE  Holding(x) \in Nat
<1>1. Nats(x.rows, Sales)
  BY DEF ReportType, Nats
<1> QED BY <1>1, Finite, SumNat DEF Holding

-----------------------------------------------------------------------------
(* What the model's operators say in these terms.                          *)

\* The operators of ConsignmentSettlement in the terms of the invariant.
LEMMA Terms ==
    ASSUME Typed
    PROVE  /\ sale \in [Sales -> SaleType] /\ back \in Backs /\ report \in Reported
           /\ payment \in Payings
           /\ \A s \in Sales : Quantity(s) = Returned(back, s)
           /\ \A r \in Reports : Total(r) = Holding(report[r])
<1>1. \A s \in Sales : Quantity(s) = Returned(back, s)
  BY DEF Quantity, Returned, Audits, Counts
<1>2. \A r \in Reports : Total(r) = Holding(report[r])
  BY DEF Total, Holding
<1> QED BY <1>1, <1>2 DEF Typed, Backs, Reported, Payings

Rewritten(y, a, p, o, c, st) ==
    [y EXCEPT !.adjusted = a, !.paid = p, !.outstanding = o, !.credit = c, !.status = st]

\* A refreshed report keeps its rows and has what was written.
LEMMA RewrittenIs ==
    ASSUME NEW y \in ReportType, NEW a \in Int, NEW p \in Int, NEW o \in Int, NEW c \in Int,
           NEW st \in ReportStatus
    PROVE  LET x == Rewritten(y, a, p, o, c, st)
           IN  /\ x \in ReportType /\ x.doc = y.doc /\ x.rows = y.rows
               /\ x.adjusted = a /\ x.paid = p /\ x.outstanding = o /\ x.credit = c
<1> DEFINE x == Rewritten(y, a, p, o, c, st)
<1>1. x \in ReportType
  BY DEF ReportType, Rewritten
<1>2. x.doc = y.doc /\ x.rows = y.rows
  BY DEF ReportType, Rewritten
<1>3. x.adjusted = a /\ x.paid = p
  BY DEF ReportType, Rewritten
<1>4. x.outstanding = o /\ x.credit = c
  BY DEF ReportType, Rewritten
<1> QED BY <1>1, <1>2, <1>3, <1>4

\* A refreshed report says what its adjustments and payments come to.
LEMMA RefreshedSays ==
    ASSUME report \in Reported, NEW r \in Reports, report[r].doc = 1,
           NEW B \in Backs, NEW P \in Payings, Adjusted(B, r) =< Holding(report[r])
    PROVE  LET x == Refreshed(r, B, P) IN
           /\ x \in ReportType /\ x.doc = 1 /\ x.rows = report[r].rows
           /\ Says(x, Adjusted(B, r), Paid(P, r))
           /\ OwedOf(x) = Holding(report[r]) - Adjusted(B, r) - Paid(P, r)
<1> DEFINE a == SumOver(Amounts(B), Adjustments(B, r))
           p == Paid(P, r)
           h == Holding(report[r])
           t == Total(r)
           o == Positive(t - a - p)
           c == Positive(p - (t - a))
           st == CASE p > t - a -> "CREDIT_DUE"
                   [] p = t - a /\ t - a = 0 -> "ADJUSTED"
                   [] p = t - a /\ t - a # 0 -> "PAID"
                   [] p < t - a /\ p # 0 -> "PARTIALLY_PAID"
                   [] p < t - a /\ p = 0 -> "PAYABLE"
           y == report[r]
           x == Rewritten(y, a, p, o, c, st)
<1>1. Refreshed(r, B, P) = x
  BY DEF Refreshed, Rewritten
<1>2. a \in Nat /\ p \in Nat /\ h \in Nat /\ t = h /\ Adjusted(B, r) = a /\ y \in ReportType
  <2>1. y \in ReportType
    BY DEF Reported
  <2>2. Adjusted(B, r) \in Nat /\ Adjusted(B, r) = a
    BY AdjustedNat DEF Adjusted
  <2> QED BY <2>1, <2>2, PayFacts, HoldingNat DEF Total, Holding
<1>3. a =< h
  BY <1>2
<1> HIDE DEF a, p, h, y, t
<1>4. o \in Int /\ c \in Int /\ o - c = h - a - p
  <2>1. t - a - p \in Int /\ p - (t - a) \in Int
    BY <1>2
  <2>2. /\ o = IF t - a - p > 0 THEN t - a - p ELSE 0
        /\ c = IF p - (t - a) > 0 THEN p - (t - a) ELSE 0
    BY <2>1, PositiveIs
  <2> HIDE DEF o, c
  <2> QED BY <1>2, <2>2
<1>5. st \in {"CREDIT_DUE", "ADJUSTED", "PAID", "PARTIALLY_PAID", "PAYABLE"}
  <2>1. \/ p > t - a
        \/ p = t - a /\ t - a = 0
        \/ p = t - a /\ t - a # 0
        \/ p < t - a /\ p # 0
        \/ p < t - a /\ p = 0
    BY <1>2
  <2> QED BY <1>2, <2>1
<1> HIDE DEF o, c, st
<1>6. /\ x \in ReportType /\ x.doc = y.doc /\ x.rows = y.rows
      /\ x.adjusted = a /\ x.paid = p /\ x.outstanding = o /\ x.credit = c
  <2>1. /\ y \in ReportType /\ a \in Int /\ p \in Int /\ o \in Int /\ c \in Int
        /\ st \in ReportStatus
    BY <1>2, <1>4, <1>5 DEF ReportStatus
  <2> QED BY <2>1, RewrittenIs
<1>7. Holding(x) = h /\ x.doc = 1
  BY <1>6 DEF Holding, h, y
<1>8. Due(x) = h - a - p
  BY <1>4, <1>6 DEF Due
<1> HIDE DEF x
<1>9. Says(x, a, p) /\ OwedOf(x) = h - a - p
  BY <1>3, <1>6, <1>7, <1>8, SettlementAssumption DEF Says, OwedOf
<1> QED BY <1>1, <1>2, <1>6, <1>7, <1>9 DEF y, h, p

\* The reports keep their rows and where they are.
KeptReports == \A r \in Reports : /\ report'[r].doc = report[r].doc
                                  /\ report'[r].rows = report[r].rows

\* After a change in returns or payments one report is refreshed, and the payable
\* moves by what it says less.
LEMMA RefreshKeeps ==
    ASSUME SettlementInv, NEW r \in Reports, report[r].doc = 1,
           back' \in Backs, payment' \in Payings,
           report' = [report EXCEPT ![r] = Refreshed(r, back', payment')],
           \A q \in Reports \ {r} : /\ Adjusted(back', q) = Adjusted(back, q)
                                    /\ Paid(payment', q) = Paid(payment, q),
           Adjusted(back', r) =< Holding(report[r]),
           ledger'.payable = ledger.payable + Adjusted(back, r) - Adjusted(back', r)
                                            + Paid(payment, r) - Paid(payment', r)
    PROVE  report' \in Reported /\ KeptReports /\ Agreed' /\ Balanced'
<1>1. Typed /\ Agreed /\ Balanced /\ report \in Reported /\ back \in Backs /\ payment \in Payings
  BY Terms DEF SettlementInv
<1> DEFINE x == Refreshed(r, back', payment')
           h == Holding(report[r])
           a == Adjusted(back', r)
           p == Paid(payment', r)
<1>2. /\ x \in ReportType /\ x.doc = 1 /\ x.rows = report[r].rows
      /\ Says(x, a, p) /\ OwedOf(x) = h - a - p
  BY <1>1, RefreshedSays
<1>3. report'[r] = x /\ \A q \in Reports \ {r} : report'[q] = report[q]
  <2> HIDE DEF x
  <2>1. report' = [report EXCEPT ![r] = x]
    BY DEF x
  <2> QED BY <1>1, <2>1 DEF Reported
<1>t. report' = [q \in Reports |-> report'[q]]
  BY <1>1 DEF Reported
<1> HIDE DEF x
<1>4. report' \in Reported
  <2>1. \A q \in Reports : report'[q] \in ReportType
    BY <1>1, <1>2, <1>3 DEF Reported
  <2> QED BY <1>t, <2>1 DEF Reported
<1>5. KeptReports
  BY <1>2, <1>3 DEF KeptReports
<1>6. Agreed'
  <2> SUFFICES ASSUME NEW q \in Reports
               PROVE  Says(report'[q], Adjusted(back', q), Paid(payment', q))
    BY DEF Agreed
  <2>1. CASE q = r
    BY <2>1, <1>2, <1>3
  <2>2. CASE q # r
    <3>1. Says(report[q], Adjusted(back, q), Paid(payment, q))
      BY <1>1 DEF Agreed
    <3> QED BY <2>2, <3>1, <1>3
  <2> QED BY <2>1, <2>2
<1>7. Balanced'
  <2>1. OwedIn(report') = OwedIn(report) - OwedOf(report[r]) + OwedOf(report'[r])
    BY <1>1, <1>3, <1>4, OwedShift
  <2>2. OwedOf(report[r]) = h - Adjusted(back, r) - Paid(payment, r)
    <3>1. Says(report[r], Adjusted(back, r), Paid(payment, r))
      BY <1>1 DEF Agreed
    <3> QED BY <3>1 DEF Says, OwedOf
  <2>3. /\ h \in Nat /\ a \in Nat /\ p \in Nat /\ Adjusted(back, r) \in Nat /\ Paid(payment, r) \in Nat
        /\ OwedIn(report) \in Int
    BY <1>1, HoldingNat, AdjustedNat, PayFacts, OwedInt DEF Reported
  <2>4. ledger.payable = OwedIn(report)
    BY <1>1 DEF Balanced
  <2> HIDE DEF h, a, p
  <2>5. OwedIn(report') = OwedIn(report) - (h - Adjusted(back, r) - Paid(payment, r)) + (h - a - p)
    BY <1>2, <1>3, <2>1, <2>2
  <2>6. ledger'.payable = ledger.payable + Adjusted(back, r) - a + Paid(payment, r) - p
    BY DEF a, p
  <2>7. ledger'.payable = OwedIn(report')
    BY <2>3, <2>4, <2>5, <2>6
  <2> QED BY <2>7 DEF Balanced
<1> QED BY <1>4, <1>5, <1>6, <1>7

\* Nothing that a report speaks of has changed.
LEMMA NoReportMoves ==
    ASSUME SettlementInv, UNCHANGED report,
           \A q \in Reports : /\ Adjusted(back', q) = Adjusted(back, q)
                              /\ Paid(payment', q) = Paid(payment, q),
           ledger'.payable = ledger.payable
    PROVE  report' \in Reported /\ KeptReports /\ Agreed' /\ Balanced'
<1>1. Typed /\ Agreed /\ Balanced /\ report \in Reported
  BY Terms DEF SettlementInv
<1>2. Agreed'
  <2> SUFFICES ASSUME NEW q \in Reports
               PROVE  Says(report'[q], Adjusted(back', q), Paid(payment', q))
    BY DEF Agreed
  <2>1. Says(report[q], Adjusted(back, q), Paid(payment, q))
    BY <1>1 DEF Agreed
  <2> QED BY <2>1
<1>3. Balanced'
  BY <1>1 DEF Balanced
<1> QED BY <1>1, <1>2, <1>3 DEF KeptReports

\* A return changes, and its sale with it.
LEMMA ReturnMoves ==
    ASSUME SettlementInv, NEW t \in Returns, back' \in Backs, Changed(back, back', t),
           KeptReports, UNCHANGED payment,
           \A x \in Sales :
              /\ sale'[x].report = sale[x].report
              /\ sale'[x].returned = sale[x].returned - OfSale(back[t], x) + OfSale(back'[t], x)
              /\ sale'[x].returned =< Units
              /\ sale'[x].status = "REPORTED" => sale[x].report # None
              /\ sale[x].report # None => OutsideOf(back'[t], x) =< OutsideOf(back[t], x),
           back'[t].status = "posted" =>
              /\ back'[t].sale \in Sales
              /\ back'[t].report # None => /\ sale[back'[t].sale].report = back'[t].report
                                           /\ report[back'[t].report].doc = 1
    PROVE  Posted' /\ Paying' /\ Counted' /\ Bound'
<1>1. /\ Typed /\ Posted /\ Paying /\ Counted /\ Bound
      /\ sale \in [Sales -> SaleType] /\ back \in Backs /\ report \in Reported /\ payment \in Payings
  BY Terms DEF SettlementInv
<1>2. Posted'
  <2> SUFFICES ASSUME NEW u \in Returns, back'[u].status = "posted"
               PROVE  /\ back'[u].sale \in Sales
                      /\ back'[u].report # None => /\ sale'[back'[u].sale].report = back'[u].report
                                                   /\ report'[back'[u].report].doc = 1
    BY DEF Posted
  <2>1. /\ back'[u].sale \in Sales
        /\ back'[u].report # None => /\ sale[back'[u].sale].report = back'[u].report
                                     /\ report[back'[u].report].doc = 1
    <3>1. CASE u = t
      BY <3>1
    <3>2. CASE u # t
      <4>1. back'[u] = back[u]
        BY <3>2 DEF Changed
      <4> QED BY <4>1, <1>1 DEF Posted
    <3> QED BY <3>1, <3>2
  <2>2. back'[u].report \in Reports \cup {None}
    BY DEF Backs, BackType
  <2> QED BY <2>1, <2>2 DEF KeptReports
<1>3. Paying'
  <2> SUFFICES ASSUME NEW p \in Payments
               PROVE  /\ payment[p].status \in {"draft", "submitted"} =>
                           payment[p].report \in Reports /\ payment[p].amount > 0
                      /\ payment[p].status = "submitted" => report'[payment[p].report].doc = 1
    BY DEF Paying
  <2> QED BY <1>1 DEF Paying, KeptReports
<1>4. Counted'
  <2> SUFFICES ASSUME NEW x \in Sales
               PROVE  /\ sale'[x].returned = Returned(back', x) /\ sale'[x].returned =< Units
                      /\ sale'[x].status = "REPORTED" => sale'[x].report # None
    BY DEF Counted
  <2>1. Returned(back', x) = Returned(back, x) - OfSale(back[t], x) + OfSale(back'[t], x)
    BY <1>1, ReturnedShift
  <2>2. sale[x].returned = Returned(back, x)
    BY <1>1 DEF Counted
  <2> QED BY <2>1, <2>2
<1>5. Bound'
  <2> SUFFICES ASSUME NEW x \in Sales
               PROVE  /\ \A r \in Reports : Live(report'[r]) /\ report'[r].rows[x] # 0 => sale'[x].report = r
                      /\ sale'[x].report # None =>
                           /\ Live(report'[sale'[x].report])
                           /\ report'[sale'[x].report].rows[x] + Outside(back', x) =< Partner
    BY DEF Bound
  <2>1. \A r \in Reports : Live(report'[r]) /\ report'[r].rows[x] # 0 => sale'[x].report = r
    BY <1>1 DEF Bound, KeptReports, Live
  <2>2. ASSUME sale[x].report # None
        PROVE  /\ Live(report'[sale[x].report])
               /\ report'[sale[x].report].rows[x] + Outside(back', x) =< Partner
    <3>1. sale[x].report \in Reports /\ report[sale[x].report] \in ReportType
      BY <1>1, <2>2 DEF SaleType, Reported
    <3>2. /\ Live(report[sale[x].report])
          /\ report[sale[x].report].rows[x] + Outside(back, x) =< Partner
      BY <1>1, <2>2 DEF Bound
    <3>3. Outside(back', x) = Outside(back, x) - OutsideOf(back[t], x) + OutsideOf(back'[t], x)
      BY <1>1, OutsideShift
    <3>4. /\ OutsideOf(back[t], x) \in Nat /\ OutsideOf(back'[t], x) \in Nat
          /\ Outside(back, x) \in Nat /\ report[sale[x].report].rows[x] \in Nat /\ Partner \in Nat
      <4>1. back[t] \in BackType /\ back'[t] \in BackType
        BY <1>1 DEF Backs
      <4> QED BY <1>1, <3>1, <4>1, ReturnedNat, SettlementAssumption DEF OutsideOf, BackType, ReportType
    <3>5. OutsideOf(back'[t], x) =< OutsideOf(back[t], x)
      BY <2>2
    <3>6. report[sale[x].report].rows[x] + Outside(back', x) =< Partner
      BY <3>2, <3>3, <3>4, <3>5
    <3> QED BY <3>1, <3>2, <3>6 DEF KeptReports, Live
  <2> QED BY <2>1, <2>2
<1> QED BY <1>2, <1>3, <1>4, <1>5

\* Reportable is what the share is more than the returns, of a sale no report has.
LEMMA ReportableIs ==
    ASSUME SettlementInv, NEW s \in Sales, sale[s].report = None
    PROVE  Reportable(s) = Partner - Outside(back, s)
<1>1. Audits(s) = {t \in Returns : Counts(back[t], s) /\ back[t].report = None}
  BY DEF Audits, Counts, SettlementInv, Posted
<1> QED BY <1>1 DEF Reportable, Outside

-----------------------------------------------------------------------------
(* The steps.                                                              *)

\* Only the standing of sales changes, and what is unreported.
LEMMA SaleMoves ==
    ASSUME SettlementInv, UNCHANGED <<back, report, payment>>,
           sale' \in [Sales -> SaleType], ledger' \in [unreported : Int, payable : Int],
           ledger'.payable = ledger.payable,
           \A s \in Sales : /\ sale'[s].report = sale[s].report
                            /\ sale'[s].returned = sale[s].returned
                            /\ sale'[s].status = "REPORTED" => sale[s].report # None
    PROVE  SettlementInv'
<1>1. Typed /\ Posted /\ Paying /\ Counted /\ Bound /\ Agreed /\ Balanced
  BY DEF SettlementInv
<1>2. Typed'
  BY <1>1 DEF Typed
<1>3. Posted' /\ Paying'
  <2>1. Posted'
    BY <1>1 DEF Posted
  <2>2. Paying'
    BY <1>1 DEF Paying
  <2> QED BY <2>1, <2>2
<1>4. Counted'
  <2> SUFFICES ASSUME NEW s \in Sales
               PROVE  /\ sale'[s].returned = Returned(back, s) /\ sale'[s].returned =< Units
                      /\ sale'[s].status = "REPORTED" => sale'[s].report # None
    BY DEF Counted
  <2> QED BY <1>1 DEF Counted
<1>5. Bound'
  <2> SUFFICES ASSUME NEW s \in Sales
               PROVE  /\ \A r \in Reports : Live(report[r]) /\ report[r].rows[s] # 0 => sale'[s].report = r
                      /\ sale'[s].report # None =>
                           /\ Live(report[sale'[s].report])
                           /\ report[sale'[s].report].rows[s] + Outside(back, s) =< Partner
    BY DEF Bound
  <2> QED BY <1>1 DEF Bound
<1>6. Agreed' /\ Balanced'
  BY NoReportMoves
<1> QED BY <1>2, <1>3, <1>4, <1>5, <1>6 DEF SettlementInv

\* post_sale_allocations_and_recognition binds nothing to a report.
LEMMA SellKeeps ==
    ASSUME SettlementInv, NEW s \in Sales, Sell(s)
    PROVE  SettlementInv'
<1>1. Typed /\ Counted
  BY DEF SettlementInv
<1>2. /\ sale' \in [Sales -> SaleType]
      /\ \A x \in Sales : /\ sale'[x].report = sale[x].report
                          /\ sale'[x].returned = sale[x].returned
                          /\ sale'[x].status = "REPORTED" => sale[x].status = "REPORTED"
  BY <1>1 DEF Sell, Typed, SaleType
<1>3. ledger' \in [unreported : Int, payable : Int] /\ ledger'.payable = ledger.payable
  BY <1>1, SettlementAssumption DEF Sell, Typed
<1>4. UNCHANGED <<back, report, payment>>
  BY DEF Sell
<1>5. \A x \in Sales : sale'[x].status = "REPORTED" => sale[x].report # None
  BY <1>1, <1>2 DEF Counted
<1> QED BY <1>2, <1>3, <1>4, <1>5, SaleMoves

\* A sale is cancelled only when nothing of it is returned or reported.
LEMMA CancelSaleKeeps ==
    ASSUME SettlementInv, NEW s \in Sales, CancelSale(s)
    PROVE  SettlementInv'
<1>1. Typed /\ Counted
  BY DEF SettlementInv
<1>2. /\ sale' \in [Sales -> SaleType]
      /\ \A x \in Sales : /\ sale'[x].report = sale[x].report
                          /\ sale'[x].returned = sale[x].returned
                          /\ sale'[x].status = "REPORTED" => sale[x].status = "REPORTED"
  BY <1>1 DEF CancelSale, Typed, SaleType
<1>3. ledger' \in [unreported : Int, payable : Int] /\ ledger'.payable = ledger.payable
  BY <1>1, SettlementAssumption DEF CancelSale, Typed
<1>4. UNCHANGED <<back, report, payment>>
  BY DEF CancelSale
<1>5. \A x \in Sales : sale'[x].status = "REPORTED" => sale[x].report # None
  BY <1>1, <1>2 DEF Counted
<1> QED BY <1>2, <1>3, <1>4, <1>5, SaleMoves

\* What a return takes is not negative.
LEMMA DeltaNat ==
    ASSUME NEW n \in 0 .. Units, NEW q \in 1 .. Units, n + q =< Units
    PROVE  Delta(n, q) \in Nat
<1>1. n + q \in 0 .. Units /\ n \in 0 .. (n + q)
  BY SettlementAssumption
<1>2. Share(n + q) \in Nat /\ Share(n) \in Nat /\ Share(n) =< Share(n + q)
  BY <1>1, ShareIs, ShareMonotone
<1> QED BY <1>2 DEF Delta

\* The status that a count of returned units gives.
LEMMA SaleStatusIs ==
    ASSUME NEW s \in Sales, NEW n \in Nat
    PROVE  /\ SaleStatus(s, n) \in {"SOLD", "PARTIALLY_RETURNED", "RETURNED", "REPORTED"}
           /\ SaleStatus(s, n) = "REPORTED" => sale[s].report # None
<1>1. CASE sale[s].report # None
  <2>1. SaleStatus(s, n) = "REPORTED"
    BY <1>1 DEF SaleStatus
  <2> QED BY <1>1, <2>1
<1>2. CASE sale[s].report = None /\ n = 0
  <2>1. SaleStatus(s, n) \in {"SOLD", "RETURNED"}
    BY <1>2 DEF SaleStatus
  <2> QED BY <2>1
<1>3. CASE sale[s].report = None /\ n # 0
  <2>1. SaleStatus(s, n) \in {"RETURNED", "PARTIALLY_RETURNED"}
    BY <1>3 DEF SaleStatus
  <2> QED BY <2>1
<1> QED BY <1>1, <1>2, <1>3

\* The sale of a return counts n from then on.
Recounted(s, n) ==
    sale' = [sale EXCEPT ![s].returned = n, ![s].status = SaleStatus(s, n)]

\* A sale after its returned units were counted again.
LEMMA RecountedSale ==
    ASSUME Typed, Counted, NEW s \in Sales, NEW n \in Nat, Recounted(s, n)
    PROVE  /\ sale' \in [Sales -> SaleType]
           /\ sale'[s].returned = n
           /\ \A x \in Sales : /\ sale'[x].report = sale[x].report
                               /\ x # s => sale'[x].returned = sale[x].returned
                               /\ sale'[x].status = "REPORTED" => sale[x].report # None
<1> DEFINE st == SaleStatus(s, n)  r == sale[s]
           new == [r EXCEPT !.returned = n, !.status = st]
<1>1. st \in {"SOLD", "PARTIALLY_RETURNED", "RETURNED", "REPORTED"} /\ (st = "REPORTED" => r.report # None)
  BY SaleStatusIs
<1>2. r \in SaleType
  BY DEF Typed
<1>3. sale' = [sale EXCEPT ![s] = new]
  BY DEF Recounted, Typed
<1> HIDE DEF st, r
<1>4. new \in SaleType /\ new.report = r.report /\ new.returned = n /\ new.status = st
  BY <1>1, <1>2 DEF SaleType
<1> HIDE DEF new
<1>5. /\ sale' \in [Sales -> SaleType] /\ sale'[s] = new /\ \A x \in Sales : x # s => sale'[x] = sale[x]
  BY <1>3, <1>4 DEF Typed
<1> QED BY <1>1, <1>4, <1>5 DEF Counted, r

\* The types after a return.
LEMMA ReturnTyped ==
    ASSUME Typed, UNCHANGED payment, sale' \in [Sales -> SaleType], back' \in Backs,
           report' \in Reported, ledger' \in [unreported : Int, payable : Int]
    PROVE  Typed'
BY DEF Typed, Backs, Reported

\* A return takes the delta from the report of its sale, or stays outside of it.
LEMMA PostReturnKeeps ==
    ASSUME SettlementInv, NEW t \in Returns, NEW s \in Sales, NEW q \in 1 .. Units, PostReturn(t, s, q)
    PROVE  SettlementInv'
<1> DEFINE r == sale[s].report
           amount == Delta(sale[s].returned, q)
           ap == IF r = None THEN 0 ELSE Min({amount, report[r].outstanding})
           new == [status |-> "posted", sale |-> s, qty |-> q, amount |-> amount, report |-> r,
                   applied |-> ap]
           n == sale[s].returned + q
<1>1. /\ Typed /\ Posted /\ Paying /\ Counted /\ Bound /\ Agreed /\ Balanced
      /\ sale \in [Sales -> SaleType] /\ back \in Backs /\ report \in Reported /\ payment \in Payings
      /\ \A x \in Reports : Total(x) = Holding(report[x])
  BY Terms DEF SettlementInv
<1>2. /\ back[t].status = None /\ n =< Units /\ (r # None => Adjusts(s, amount))
      /\ back' = [back EXCEPT ![t] = new]
      /\ Recounted(s, n)
      /\ r = None => ledger' = [ledger EXCEPT !.unreported = @ - amount] /\ UNCHANGED report
      /\ r # None => /\ ledger' = [ledger EXCEPT !.payable = @ - amount]
                     /\ report' = [report EXCEPT ![r] = Refreshed(r, back', payment)]
      /\ UNCHANGED payment
  BY <1>1 DEF PostReturn, ReportOf, Recounted
<1>3. /\ q \in Nat /\ Units \in Nat /\ sale[s].returned \in Nat /\ n \in Nat
      /\ sale[s].returned \in 0 .. Units /\ r \in Reports \cup {None}
  <2>1. sale[s] \in SaleType /\ sale[s].returned =< Units
    BY <1>1 DEF Counted
  <2> QED BY <2>1, SettlementAssumption DEF SaleType
<1>4. amount \in Nat
  BY <1>2, <1>3, DeltaNat
<1>5. ap \in Int
  <2>1. CASE r = None
    BY <2>1
  <2>2. CASE r # None
    <3>1. report[r].outstanding \in Int
      BY <1>1, <1>3, <2>2 DEF Reported, ReportType
    <3>2. Min({amount, report[r].outstanding}) \in {amount, report[r].outstanding}
      BY <1>4, <3>1, MinIn
    <3> QED BY <1>4, <2>2, <3>1, <3>2
  <2> QED BY <2>1, <2>2
<1> HIDE DEF ap, amount
<1>6. new \in BackType /\ new.status = "posted" /\ new.sale = s /\ new.qty = q /\ new.amount = amount
      /\ new.report = r
  BY <1>3, <1>4, <1>5 DEF BackType
<1> HIDE DEF new
<1>7. back' \in Backs /\ back'[t] = new /\ Changed(back, back', t)
  BY <1>1, <1>2, <1>6 DEF Backs, Changed
<1>8. /\ sale' \in [Sales -> SaleType] /\ sale'[s].returned = n
      /\ \A x \in Sales : /\ sale'[x].report = sale[x].report
                          /\ x # s => sale'[x].returned = sale[x].returned
                          /\ sale'[x].status = "REPORTED" => sale[x].report # None
  BY <1>1, <1>2, <1>3, RecountedSale
<1>9. \A x : ToReport(back[t], x) = 0 /\ ToReport(back'[t], x) = IF r = x THEN amount ELSE 0
  BY <1>2, <1>6, <1>7, SettlementAssumption DEF ToReport
<1>10. \A x \in Sales : /\ OfSale(back[t], x) = 0 /\ OutsideOf(back[t], x) = 0
                        /\ OfSale(back'[t], x) = (IF x = s THEN q ELSE 0)
                        /\ OutsideOf(back'[t], x) = (IF x = s /\ r = None THEN amount ELSE 0)
  BY <1>2, <1>6, <1>7, SettlementAssumption DEF OfSale, OutsideOf, Counts
<1>11. /\ ledger' \in [unreported : Int, payable : Int]
       /\ r = None => ledger'.payable = ledger.payable
       /\ r # None => ledger'.payable = ledger.payable - amount
       /\ ledger.payable \in Int
  BY <1>1, <1>2, <1>4 DEF Typed
<1>12. \A x \in Reports : /\ Adjusted(back', x) = Adjusted(back, x) + (IF r = x THEN amount ELSE 0)
                          /\ Adjusted(back, x) \in Nat
  <2> SUFFICES ASSUME NEW x \in Reports
               PROVE  /\ Adjusted(back', x) = Adjusted(back, x) + (IF r = x THEN amount ELSE 0)
                      /\ Adjusted(back, x) \in Nat
    OBVIOUS
  <2>1. Adjusted(back', x) = Adjusted(back, x) - ToReport(back[t], x) + ToReport(back'[t], x)
    BY <1>1, <1>7, AdjustedShift
  <2>2. Adjusted(back, x) \in Nat
    BY <1>1, AdjustedNat
  <2> QED BY <1>4, <1>9, <2>1, <2>2
<1>13. r # None => r \in Reports /\ report[r].doc = 1 /\ Adjusted(back', r) =< Holding(report[r])
  <2> SUFFICES ASSUME r # None
               PROVE  r \in Reports /\ report[r].doc = 1 /\ Adjusted(back', r) =< Holding(report[r])
    OBVIOUS
  <2>1. r \in Reports
    BY <1>3
  <2>2. report[r].doc = 1 /\ report[r].adjusted + amount =< Total(r)
    BY <1>2 DEF Adjusts
  <2>3. report[r].adjusted = Adjusted(back, r)
    BY <1>1, <2>1, <2>2 DEF Agreed, Says
  <2> QED BY <1>1, <1>12, <2>1, <2>2, <2>3
<1>14. report' \in Reported /\ KeptReports /\ Agreed' /\ Balanced'
  <2>1. CASE r = None
    <3>1. \A x \in Reports : Adjusted(back', x) = Adjusted(back, x)
      BY <1>12, <2>1, SettlementAssumption
    <3> QED BY <1>2, <1>11, <2>1, <3>1, NoReportMoves
  <2>2. CASE r # None
    <3>1. \A x \in Reports \ {r} : Adjusted(back', x) = Adjusted(back, x)
      BY <1>12
    <3>2. payment' \in Payings /\ payment' = payment
      BY <1>1, <1>2
    <3>3. Paid(payment, r) \in Nat
      BY <1>1, PayFacts
    <3>4. ledger'.payable = ledger.payable + Adjusted(back, r) - Adjusted(back', r)
                                           + Paid(payment, r) - Paid(payment', r)
      BY <1>4, <1>11, <1>12, <1>13, <2>2, <3>2, <3>3
    <3>5. report' = [report EXCEPT ![r] = Refreshed(r, back', payment')]
      BY <1>2, <2>2, <3>2
    <3> HIDE DEF r
    <3> QED BY <1>7, <1>13, <2>2, <3>1, <3>2, <3>4, <3>5, RefreshKeeps
  <2> QED BY <2>1, <2>2
<1>15. Posted' /\ Paying' /\ Counted' /\ Bound'
  <2>1. \A x \in Sales :
              /\ sale'[x].report = sale[x].report
              /\ sale'[x].returned = sale[x].returned - OfSale(back[t], x) + OfSale(back'[t], x)
              /\ sale'[x].returned =< Units
              /\ sale'[x].status = "REPORTED" => sale[x].report # None
              /\ sale[x].report # None => OutsideOf(back'[t], x) =< OutsideOf(back[t], x)
    <3> SUFFICES ASSUME NEW x \in Sales
                 PROVE  /\ sale'[x].report = sale[x].report
                        /\ sale'[x].returned = sale[x].returned - OfSale(back[t], x) + OfSale(back'[t], x)
                        /\ sale'[x].returned =< Units
                        /\ sale'[x].status = "REPORTED" => sale[x].report # None
                        /\ sale[x].report # None => OutsideOf(back'[t], x) =< OutsideOf(back[t], x)
      OBVIOUS
    <3>1. sale[x].returned \in Nat /\ sale[x].returned =< Units
      BY <1>1 DEF SaleType, Counted
    <3>2. CASE x = s
      BY <1>2, <1>3, <1>8, <1>10, <3>1, <3>2
    <3>3. CASE x # s
      BY <1>8, <1>10, <3>1, <3>3
    <3> QED BY <3>2, <3>3
  <2>2. back'[t].status = "posted" =>
              /\ back'[t].sale \in Sales
              /\ back'[t].report # None => /\ sale[back'[t].sale].report = back'[t].report
                                           /\ report[back'[t].report].doc = 1
    BY <1>6, <1>7, <1>13
  <2>3. UNCHANGED payment
    BY <1>2
  <2> HIDE DEF r, n
  <2> QED BY <1>7, <1>14, <2>1, <2>2, <2>3, ReturnMoves
<1>16. Typed'
  BY <1>1, <1>2, <1>7, <1>8, <1>11, <1>14, ReturnTyped
<1> QED BY <1>14, <1>15, <1>16 DEF SettlementInv

\* A cancelled return gives back what it took, where it took it.
LEMMA CancelReturnKeeps ==
    ASSUME SettlementInv, NEW t \in Returns, CancelReturn(t)
    PROVE  SettlementInv'
<1> DEFINE s == back[t].sale
           r == back[t].report
           amount == back[t].amount
           n == sale[s].returned - back[t].qty
           new == [back[t] EXCEPT !.status = "cancelled"]
<1>1. /\ Typed /\ Posted /\ Paying /\ Counted /\ Bound /\ Agreed /\ Balanced
      /\ sale \in [Sales -> SaleType] /\ back \in Backs /\ report \in Reported /\ payment \in Payings
  BY Terms DEF SettlementInv
<1>2. /\ back[t].status = "posted" /\ n >= 0
      /\ back' = [back EXCEPT ![t] = new]
      /\ Recounted(s, n)
      /\ r = None => ledger' = [ledger EXCEPT !.unreported = @ + amount] /\ UNCHANGED report
      /\ r # None => /\ ledger' = [ledger EXCEPT !.payable = @ + amount]
                     /\ report' = [report EXCEPT ![r] = Refreshed(r, back', payment)]
      /\ UNCHANGED payment
  BY <1>1 DEF CancelReturn, Recounted
<1>3. back[t] \in BackType /\ s \in Sales /\ r \in Reports \cup {None} /\ amount \in Nat /\ back[t].qty \in Nat
  BY <1>1, <1>2 DEF Backs, BackType, Posted
<1>4. sale[s].returned \in Nat /\ sale[s].returned =< Units /\ n \in Nat /\ n =< Units /\ Units \in Nat
  <2>1. sale[s] \in SaleType /\ sale[s].returned =< Units
    BY <1>1, <1>3 DEF Counted
  <2> QED BY <1>2, <1>3, <2>1, SettlementAssumption DEF SaleType
<1>5. new \in BackType /\ new.status = "cancelled"
  BY <1>3 DEF BackType
<1> HIDE DEF new
<1>6. back' \in Backs /\ back'[t] = new /\ Changed(back, back', t)
  BY <1>1, <1>2, <1>5 DEF Backs, Changed
<1>7. /\ sale' \in [Sales -> SaleType] /\ sale'[s].returned = n
      /\ \A x \in Sales : /\ sale'[x].report = sale[x].report
                          /\ x # s => sale'[x].returned = sale[x].returned
                          /\ sale'[x].status = "REPORTED" => sale[x].report # None
  BY <1>1, <1>2, <1>3, <1>4, RecountedSale
<1>8. \A x : ToReport(back'[t], x) = 0 /\ ToReport(back[t], x) = IF r = x THEN amount ELSE 0
  BY <1>2, <1>5, <1>6, SettlementAssumption DEF ToReport
<1>9. \A x \in Sales : /\ OfSale(back'[t], x) = 0 /\ OutsideOf(back'[t], x) = 0
                       /\ OfSale(back[t], x) = (IF x = s THEN back[t].qty ELSE 0)
                       /\ OutsideOf(back[t], x) \in Nat
  BY <1>2, <1>3, <1>5, <1>6, SettlementAssumption DEF OfSale, OutsideOf, Counts
<1>10. /\ ledger' \in [unreported : Int, payable : Int]
       /\ r = None => ledger'.payable = ledger.payable
       /\ r # None => ledger'.payable = ledger.payable + amount
       /\ ledger.payable \in Int
  BY <1>1, <1>2, <1>3 DEF Typed
<1>11. \A x \in Reports : /\ Adjusted(back', x) = Adjusted(back, x) - (IF r = x THEN amount ELSE 0)
                          /\ Adjusted(back, x) \in Nat /\ Adjusted(back', x) \in Nat
  <2> SUFFICES ASSUME NEW x \in Reports
               PROVE  /\ Adjusted(back', x) = Adjusted(back, x) - (IF r = x THEN amount ELSE 0)
                      /\ Adjusted(back, x) \in Nat /\ Adjusted(back', x) \in Nat
    OBVIOUS
  <2>1. Adjusted(back', x) = Adjusted(back, x) - ToReport(back[t], x) + ToReport(back'[t], x)
    BY <1>1, <1>6, AdjustedShift
  <2>2. Adjusted(back, x) \in Nat /\ Adjusted(back', x) \in Nat
    BY <1>1, <1>6, AdjustedNat
  <2> QED BY <1>3, <1>8, <2>1, <2>2
<1>12. r # None => r \in Reports /\ report[r].doc = 1 /\ Adjusted(back', r) =< Holding(report[r])
  <2> SUFFICES ASSUME r # None
               PROVE  r \in Reports /\ report[r].doc = 1 /\ Adjusted(back', r) =< Holding(report[r])
    OBVIOUS
  <2>1. r \in Reports /\ report[r].doc = 1
    BY <1>1, <1>2, <1>3 DEF Posted
  <2>2. Adjusted(back, r) =< Holding(report[r])
    BY <1>1, <2>1 DEF Agreed, Says
  <2>3. Holding(report[r]) \in Nat
    BY <1>1, <2>1, HoldingNat DEF Reported
  <2> QED BY <1>3, <1>11, <2>1, <2>2, <2>3
<1>13. report' \in Reported /\ KeptReports /\ Agreed' /\ Balanced'
  <2>1. CASE r = None
    <3>1. \A x \in Reports : Adjusted(back', x) = Adjusted(back, x)
      BY <1>11, <2>1, SettlementAssumption
    <3> QED BY <1>2, <1>10, <2>1, <3>1, NoReportMoves
  <2>2. CASE r # None
    <3>1. \A x \in Reports \ {r} : Adjusted(back', x) = Adjusted(back, x)
      BY <1>11
    <3>2. payment' \in Payings /\ payment' = payment
      BY <1>1, <1>2
    <3>3. Paid(payment, r) \in Nat
      BY <1>1, PayFacts
    <3>4. ledger'.payable = ledger.payable + Adjusted(back, r) - Adjusted(back', r)
                                           + Paid(payment, r) - Paid(payment', r)
      BY <1>3, <1>10, <1>11, <1>12, <2>2, <3>2, <3>3
    <3>5. report' = [report EXCEPT ![r] = Refreshed(r, back', payment')]
      BY <1>2, <2>2, <3>2
    <3> HIDE DEF r
    <3> QED BY <1>6, <1>12, <2>2, <3>1, <3>2, <3>4, <3>5, RefreshKeeps
  <2> QED BY <2>1, <2>2
<1>14. Posted' /\ Paying' /\ Counted' /\ Bound'
  <2>1. \A x \in Sales :
              /\ sale'[x].report = sale[x].report
              /\ sale'[x].returned = sale[x].returned - OfSale(back[t], x) + OfSale(back'[t], x)
              /\ sale'[x].returned =< Units
              /\ sale'[x].status = "REPORTED" => sale[x].report # None
              /\ sale[x].report # None => OutsideOf(back'[t], x) =< OutsideOf(back[t], x)
    <3> SUFFICES ASSUME NEW x \in Sales
                 PROVE  /\ sale'[x].report = sale[x].report
                        /\ sale'[x].returned = sale[x].returned - OfSale(back[t], x) + OfSale(back'[t], x)
                        /\ sale'[x].returned =< Units
                        /\ sale'[x].status = "REPORTED" => sale[x].report # None
                        /\ sale[x].report # None => OutsideOf(back'[t], x) =< OutsideOf(back[t], x)
      OBVIOUS
    <3>1. sale[x].returned \in Nat /\ sale[x].returned =< Units
      BY <1>1 DEF SaleType, Counted
    <3>2. CASE x = s
      BY <1>3, <1>4, <1>7, <1>9, <3>1, <3>2
    <3>3. CASE x # s
      BY <1>7, <1>9, <3>1, <3>3
    <3> QED BY <3>2, <3>3
  <2>2. back'[t].status # "posted"
    BY <1>5, <1>6
  <2>3. UNCHANGED payment
    BY <1>2
  <2> HIDE DEF r, n, s
  <2> QED BY <1>6, <1>13, <2>1, <2>2, <2>3, ReturnMoves
<1>15. Typed'
  BY <1>1, <1>2, <1>6, <1>7, <1>10, <1>13, ReturnTyped
<1> QED BY <1>13, <1>14, <1>15 DEF SettlementInv

\* The sales and the returns stay as they are.
LEMMA KeptKeeps ==
    ASSUME SettlementInv, KeptReports, UNCHANGED <<sale, back>>
    PROVE  Posted' /\ Counted' /\ Bound'
<1>1. /\ Typed /\ Posted /\ Counted /\ Bound
      /\ sale \in [Sales -> SaleType] /\ back \in Backs
  BY Terms DEF SettlementInv
<1>2. Posted'
  <2> SUFFICES ASSUME NEW u \in Returns, back[u].status = "posted"
               PROVE  /\ back[u].sale \in Sales
                      /\ back[u].report # None => /\ sale[back[u].sale].report = back[u].report
                                                  /\ report'[back[u].report].doc = 1
    BY DEF Posted
  <2>1. back[u].report \in Reports \cup {None}
    BY <1>1 DEF Backs, BackType
  <2> QED BY <1>1, <2>1 DEF Posted, KeptReports
<1>3. Counted'
  BY <1>1 DEF Counted
<1>4. Bound'
  <2> SUFFICES ASSUME NEW x \in Sales
               PROVE  /\ \A r \in Reports : Live(report'[r]) /\ report'[r].rows[x] # 0 => sale[x].report = r
                      /\ sale[x].report # None =>
                           /\ Live(report'[sale[x].report])
                           /\ report'[sale[x].report].rows[x] + Outside(back, x) =< Partner
    BY DEF Bound
  <2>1. sale[x].report \in Reports \cup {None}
    BY <1>1 DEF SaleType
  <2> QED BY <1>1, <2>1 DEF Bound, KeptReports, Live
<1> QED BY <1>2, <1>3, <1>4

\* A payment changes, of a report that is submitted or to no effect.
LEMMA PaymentMoves ==
    ASSUME SettlementInv, KeptReports, NEW p \in Payments,
           \A q \in Payments \ {p} : payment'[q] = payment[q],
           payment'[p].status \in {"draft", "submitted"} =>
              payment'[p].report \in Reports /\ payment'[p].amount > 0,
           payment'[p].status = "submitted" => report[payment'[p].report].doc = 1
    PROVE  Paying'
<1>1. Paying
  BY DEF SettlementInv
<1> SUFFICES ASSUME NEW q \in Payments
             PROVE  /\ payment'[q].status \in {"draft", "submitted"} =>
                          payment'[q].report \in Reports /\ payment'[q].amount > 0
                    /\ payment'[q].status = "submitted" => report'[payment'[q].report].doc = 1
  BY DEF Paying
<1>2. /\ payment'[q].status \in {"draft", "submitted"} =>
            payment'[q].report \in Reports /\ payment'[q].amount > 0
      /\ payment'[q].status = "submitted" => report[payment'[q].report].doc = 1
  <2>1. CASE q = p
    BY <2>1
  <2>2. CASE q # p
    BY <2>2, <1>1 DEF Paying
  <2> QED BY <2>1, <2>2
<1> QED BY <1>2 DEF KeptReports

\* The types after a payment.
LEMMA PaymentTyped ==
    ASSUME Typed, UNCHANGED <<sale, back>>, payment' \in Payings, report' \in Reported,
           ledger' \in [unreported : Int, payable : Int]
    PROVE  Typed'
BY DEF Typed, Payings, Reported

\* A draft pays nothing yet.
LEMMA CreatePaymentKeeps ==
    ASSUME SettlementInv, NEW p \in Payments, NEW r \in Reports, NEW n \in Parts, CreatePayment(p, r, n)
    PROVE  SettlementInv'
<1>1. /\ Typed /\ Posted /\ Paying /\ Counted /\ Bound /\ Agreed /\ Balanced
      /\ report \in Reported /\ payment \in Payings
  BY Terms DEF SettlementInv
<1>2. n \in Nat /\ n > 0
  BY SettlementAssumption
<1>3. /\ payment[p].status = None /\ UNCHANGED <<sale, back, report, ledger>>
      /\ payment' = [payment EXCEPT ![p] = [status |-> "draft", report |-> r, amount |-> n]]
  BY DEF CreatePayment
<1>4. /\ payment' \in Payings
      /\ payment'[p] = [status |-> "draft", report |-> r, amount |-> n]
      /\ \A q \in Payments \ {p} : payment'[q] = payment[q]
  BY <1>1, <1>2, <1>3 DEF Payings, PaymentType
<1>5. \A x \in Reports : Paid(payment', x) = Paid(payment, x)
  <2> SUFFICES ASSUME NEW x \in Reports PROVE Paid(payment', x) = Paid(payment, x)
    OBVIOUS
  <2>1. Paid(payment', x) = Paid(payment, x) - PaidTo(payment[p], x) + PaidTo(payment'[p], x)
    BY <1>1, <1>4, PaidShift
  <2>2. PaidTo(payment[p], x) = 0 /\ PaidTo(payment'[p], x) = 0
    BY <1>3, <1>4, SettlementAssumption DEF PaidTo
  <2>3. Paid(payment, x) \in Nat
    BY <1>1, PayFacts
  <2> QED BY <2>1, <2>2, <2>3
<1>6. report' \in Reported /\ KeptReports /\ Agreed' /\ Balanced'
  BY <1>3, <1>5, NoReportMoves
<1>7. Posted' /\ Counted' /\ Bound'
  BY <1>3, <1>6, KeptKeeps
<1>8. Paying'
  BY <1>2, <1>4, <1>6, PaymentMoves
<1>9. Typed'
  BY <1>1, <1>3, <1>4, <1>6, PaymentTyped DEF Typed
<1> QED BY <1>6, <1>7, <1>8, <1>9 DEF SettlementInv

\* A payment pays its report, and the payable falls by as much.
LEMMA SubmitPaymentKeeps ==
    ASSUME SettlementInv, NEW p \in Payments, SubmitPayment(p)
    PROVE  SettlementInv'
<1> DEFINE r == payment[p].report
           n == payment[p].amount
           new == [payment[p] EXCEPT !.status = "submitted"]
<1>1. /\ Typed /\ Posted /\ Paying /\ Counted /\ Bound /\ Agreed /\ Balanced
      /\ back \in Backs /\ report \in Reported /\ payment \in Payings
  BY Terms DEF SettlementInv
<1>2. /\ payment[p].status = "draft" /\ report[r].doc = 1 /\ UNCHANGED <<sale, back>>
      /\ payment' = [payment EXCEPT ![p] = new]
      /\ report' = [report EXCEPT ![r] = Refreshed(r, back, payment')]
      /\ ledger' = [ledger EXCEPT !.payable = @ - n]
  BY <1>1 DEF SubmitPayment, Payings
<1>3. payment[p] \in PaymentType /\ r \in Reports /\ n \in Nat /\ n > 0
  BY <1>1, <1>2 DEF Payings, PaymentType, Paying
<1>4. /\ new \in PaymentType /\ new.status = "submitted" /\ new.report = r /\ new.amount = n
  BY <1>3 DEF PaymentType
<1> HIDE DEF new
<1>5. /\ payment' \in Payings /\ payment'[p] = new
      /\ \A q \in Payments \ {p} : payment'[q] = payment[q]
  BY <1>1, <1>2, <1>4 DEF Payings
<1>6. \A x \in Reports : /\ Paid(payment', x) = Paid(payment, x) + (IF x = r THEN n ELSE 0)
                         /\ Paid(payment, x) \in Nat
  <2> SUFFICES ASSUME NEW x \in Reports
               PROVE  /\ Paid(payment', x) = Paid(payment, x) + (IF x = r THEN n ELSE 0)
                      /\ Paid(payment, x) \in Nat
    OBVIOUS
  <2>1. Paid(payment', x) = Paid(payment, x) - PaidTo(payment[p], x) + PaidTo(payment'[p], x)
    BY <1>1, <1>5, PaidShift
  <2>2. PaidTo(payment[p], x) = 0 /\ PaidTo(payment'[p], x) = IF x = r THEN n ELSE 0
    BY <1>2, <1>4, <1>5, SettlementAssumption DEF PaidTo
  <2>3. Paid(payment, x) \in Nat
    BY <1>1, PayFacts
  <2> QED BY <1>3, <2>1, <2>2, <2>3
<1>7. ledger' \in [unreported : Int, payable : Int] /\ ledger'.payable = ledger.payable - n
      /\ ledger.payable \in Int
  BY <1>1, <1>2, <1>3 DEF Typed
<1>8. Adjusted(back, r) =< Holding(report[r]) /\ Adjusted(back, r) \in Nat
  BY <1>1, <1>2, <1>3, AdjustedNat DEF Agreed, Says
<1>9. report' \in Reported /\ KeptReports /\ Agreed' /\ Balanced'
  <2>1. back' \in Backs /\ back' = back
    BY <1>1, <1>2
  <2>2. \A x \in Reports \ {r} : /\ Adjusted(back', x) = Adjusted(back, x)
                                 /\ Paid(payment', x) = Paid(payment, x)
    BY <1>6, <2>1
  <2>3. Adjusted(back', r) = Adjusted(back, r)
    BY <2>1
  <2>4. ledger'.payable = ledger.payable + Adjusted(back, r) - Adjusted(back', r)
                                         + Paid(payment, r) - Paid(payment', r)
    BY <1>3, <1>6, <1>7, <1>8, <2>3
  <2>5. report' = [report EXCEPT ![r] = Refreshed(r, back', payment')]
    BY <1>2, <2>1
  <2>6. report[r].doc = 1 /\ Adjusted(back', r) =< Holding(report[r])
    BY <1>2, <1>8, <2>3
  <2> HIDE DEF r
  <2> QED BY <1>3, <1>5, <2>1, <2>2, <2>4, <2>5, <2>6, RefreshKeeps
<1>10. Posted' /\ Counted' /\ Bound'
  BY <1>2, <1>9, KeptKeeps
<1>11. Paying'
  BY <1>2, <1>3, <1>4, <1>5, <1>9, PaymentMoves
<1>12. Typed'
  BY <1>1, <1>2, <1>5, <1>7, <1>9, PaymentTyped
<1> QED BY <1>9, <1>10, <1>11, <1>12 DEF SettlementInv

\* A cancelled payment is owed again.
LEMMA CancelPaymentKeeps ==
    ASSUME SettlementInv, NEW p \in Payments, CancelPayment(p)
    PROVE  SettlementInv'
<1> DEFINE r == payment[p].report
           n == payment[p].amount
           new == [payment[p] EXCEPT !.status = "cancelled"]
<1>1. /\ Typed /\ Posted /\ Paying /\ Counted /\ Bound /\ Agreed /\ Balanced
      /\ back \in Backs /\ report \in Reported /\ payment \in Payings
  BY Terms DEF SettlementInv
<1>2. /\ payment[p].status = "submitted" /\ UNCHANGED <<sale, back>>
      /\ payment' = [payment EXCEPT ![p] = new]
      /\ report' = [report EXCEPT ![r] = Refreshed(r, back, payment')]
      /\ ledger' = [ledger EXCEPT !.payable = @ + n]
  BY <1>1 DEF CancelPayment, Payings
<1>3. payment[p] \in PaymentType /\ r \in Reports /\ n \in Nat /\ n > 0 /\ report[r].doc = 1
  BY <1>1, <1>2 DEF Payings, PaymentType, Paying
<1>4. new \in PaymentType /\ new.status = "cancelled"
  BY <1>3 DEF PaymentType
<1> HIDE DEF new
<1>5. /\ payment' \in Payings /\ payment'[p] = new
      /\ \A q \in Payments \ {p} : payment'[q] = payment[q]
  BY <1>1, <1>2, <1>4 DEF Payings
<1>6. \A x \in Reports : /\ Paid(payment', x) = Paid(payment, x) - (IF x = r THEN n ELSE 0)
                         /\ Paid(payment, x) \in Nat
  <2> SUFFICES ASSUME NEW x \in Reports
               PROVE  /\ Paid(payment', x) = Paid(payment, x) - (IF x = r THEN n ELSE 0)
                      /\ Paid(payment, x) \in Nat
    OBVIOUS
  <2>1. Paid(payment', x) = Paid(payment, x) - PaidTo(payment[p], x) + PaidTo(payment'[p], x)
    BY <1>1, <1>5, PaidShift
  <2>2. PaidTo(payment'[p], x) = 0 /\ PaidTo(payment[p], x) = IF x = r THEN n ELSE 0
    BY <1>2, <1>4, <1>5, SettlementAssumption DEF PaidTo
  <2>3. Paid(payment, x) \in Nat
    BY <1>1, PayFacts
  <2> QED BY <1>3, <2>1, <2>2, <2>3
<1>7. ledger' \in [unreported : Int, payable : Int] /\ ledger'.payable = ledger.payable + n
      /\ ledger.payable \in Int
  BY <1>1, <1>2, <1>3 DEF Typed
<1>8. Adjusted(back, r) =< Holding(report[r]) /\ Adjusted(back, r) \in Nat
  BY <1>1, <1>3, AdjustedNat DEF Agreed, Says
<1>9. report' \in Reported /\ KeptReports /\ Agreed' /\ Balanced'
  <2>1. back' \in Backs /\ back' = back
    BY <1>1, <1>2
  <2>2. \A x \in Reports \ {r} : /\ Adjusted(back', x) = Adjusted(back, x)
                                 /\ Paid(payment', x) = Paid(payment, x)
    BY <1>6, <2>1
  <2>3. Adjusted(back', r) = Adjusted(back, r)
    BY <2>1
  <2>4. ledger'.payable = ledger.payable + Adjusted(back, r) - Adjusted(back', r)
                                         + Paid(payment, r) - Paid(payment', r)
    BY <1>3, <1>6, <1>7, <1>8, <2>3
  <2>5. report' = [report EXCEPT ![r] = Refreshed(r, back', payment')]
    BY <1>2, <2>1
  <2>6. report[r].doc = 1 /\ Adjusted(back', r) =< Holding(report[r])
    BY <1>3, <1>8, <2>3
  <2> HIDE DEF r
  <2> QED BY <1>3, <1>5, <2>1, <2>2, <2>4, <2>5, <2>6, RefreshKeeps
<1>10. Posted' /\ Counted' /\ Bound'
  BY <1>2, <1>9, KeptKeeps
<1>11. Paying'
  BY <1>4, <1>5, <1>9, PaymentMoves
<1>12. Typed'
  BY <1>1, <1>2, <1>5, <1>7, <1>9, PaymentTyped
<1> QED BY <1>9, <1>10, <1>11, <1>12 DEF SettlementInv

-----------------------------------------------------------------------------
(* Reports come and go.                                                    *)

\* Nothing adjusts or pays a report that is not submitted.
LEMMA NothingOnDraft ==
    ASSUME SettlementInv, NEW r \in Reports, report[r].doc # 1
    PROVE  /\ Adjusted(back, r) = 0 /\ Paid(payment, r) = 0
           /\ \A t \in Returns : back[t].status = "posted" => back[t].report # r
           /\ \A p \in Payments : payment[p].status = "submitted" => payment[p].report # r
<1>1. Posted /\ Paying
  BY DEF SettlementInv
<1>2. \A t \in Returns : back[t].status = "posted" => back[t].report # r
  BY <1>1, SettlementAssumption DEF Posted
<1>3. \A p \in Payments : payment[p].status = "submitted" => payment[p].report # r
  BY <1>1 DEF Paying
<1>4. Adjustments(back, r) = {} /\ {p \in Payments : payment[p].status = "submitted" /\ payment[p].report = r} = {}
  BY <1>2, <1>3 DEF Adjustments
<1> QED BY <1>2, <1>3, <1>4, SumEmpty DEF Adjusted, Paid

\* What a report that none adjusts or pays has none of.
LEMMA NothingOnReport ==
    ASSUME SettlementInv, NEW r \in Reports, report[r].doc = 1, report[r].paid = 0,
           Adjustments(back, r) = {}
    PROVE  /\ Adjusted(back, r) = 0 /\ Paid(payment, r) = 0
           /\ \A t \in Returns : back[t].status = "posted" => back[t].report # r
           /\ \A p \in Payments : payment[p].status = "submitted" => payment[p].report # r
<1>1. Agreed /\ Paying /\ payment \in Payings
  BY Terms DEF SettlementInv
<1>2. Paid(payment, r) = 0 /\ Adjusted(back, r) = 0
  BY <1>1, SumEmpty DEF Agreed, Says, Adjusted
<1>3. \A t \in Returns : back[t].status = "posted" => back[t].report # r
  BY DEF Adjustments
<1>4. ASSUME NEW p \in Payments, payment[p].status = "submitted", payment[p].report = r
      PROVE  FALSE
  <2> DEFINE T == {q \in Payments : payment[q].status = "submitted" /\ payment[q].report = r}
  <2>1. p \in T /\ IsFiniteSet(T) /\ T \subseteq Payments
    BY <1>4, Finite, FS_Subset
  <2> HIDE DEF T
  <2>2. Nats(Amounts(payment), T)
    BY <1>1, <2>1, PayFacts DEF Nats
  <2>3. Amounts(payment)[p] =< SumOver(Amounts(payment), T)
    BY <2>1, <2>2, SumMember
  <2>4. SumOver(Amounts(payment), T) = 0
    BY <1>2 DEF Paid, T
  <2>5. Amounts(payment)[p] = payment[p].amount /\ payment[p].amount \in Nat
    BY <1>1, PayFacts DEF Payings, PaymentType
  <2>6. payment[p].amount > 0
    BY <1>1, <1>4 DEF Paying
  <2> QED BY <2>3, <2>4, <2>5, <2>6
<1> QED BY <1>2, <1>3, <1>4

\* A report is given up: its sales are free again.
LEMMA ReportGone ==
    ASSUME SettlementInv, NEW r \in Reports, UNCHANGED <<back, payment>>,
           report' = [report EXCEPT ![r].doc = 2, ![r].status = "CANCELLED"],
           sale' = Released(r),
           \A t \in Returns : back[t].status = "posted" => back[t].report # r,
           \A p \in Payments : payment[p].status = "submitted" => payment[p].report # r,
           ledger' \in [unreported : Int, payable : Int],
           ledger'.payable = ledger.payable - OwedOf(report[r])
    PROVE  SettlementInv'
<1> DEFINE new == [report[r] EXCEPT !.doc = 2, !.status = "CANCELLED"]
<1>1. /\ Typed /\ Posted /\ Paying /\ Counted /\ Bound /\ Agreed /\ Balanced
      /\ sale \in [Sales -> SaleType] /\ report \in Reported
  BY Terms DEF SettlementInv
<1>2. report[r] \in ReportType
  BY <1>1 DEF Reported
<1>3. new \in ReportType /\ new.doc = 2
  BY <1>2 DEF ReportType, ReportStatus
<1>4. report' = [report EXCEPT ![r] = new]
  BY <1>1 DEF Reported
<1> HIDE DEF new
<1>5. report' \in Reported /\ report'[r].doc = 2 /\ \A q \in Reports \ {r} : report'[q] = report[q]
  <2>1. report'[r] = new /\ \A q \in Reports \ {r} : report'[q] = report[q]
    BY <1>1, <1>4 DEF Reported
  <2>2. report' \in Reported
    BY <1>1, <1>3, <1>4 DEF Reported
  <2> QED BY <1>3, <2>1, <2>2
<1>6. \A s \in Sales : /\ sale'[s] \in SaleType /\ sale'[s].returned = sale[s].returned
                       /\ sale[s].report # r => sale'[s] = sale[s]
                       /\ sale[s].report = r => sale'[s].report = None /\ sale'[s].status # "REPORTED"
  <2> SUFFICES ASSUME NEW s \in Sales
               PROVE  /\ sale'[s] \in SaleType /\ sale'[s].returned = sale[s].returned
                      /\ sale[s].report # r => sale'[s] = sale[s]
                      /\ sale[s].report = r => sale'[s].report = None /\ sale'[s].status # "REPORTED"
    OBVIOUS
  <2> DEFINE st == IF sale[s].returned = 0 THEN "SOLD" ELSE "PARTIALLY_RETURNED"
             x == [sale[s] EXCEPT !.report = None, !.status = st]
  <2>1. sale[s] \in SaleType /\ st \in {"SOLD", "PARTIALLY_RETURNED"}
    BY <1>1
  <2>2. sale'[s] = IF sale[s].report # r THEN sale[s] ELSE x
    BY DEF Released
  <2> HIDE DEF st
  <2>3. x \in SaleType /\ x.report = None /\ x.status = st /\ x.returned = sale[s].returned
    BY <2>1 DEF SaleType
  <2> HIDE DEF x
  <2> QED BY <2>1, <2>2, <2>3
<1>7. Typed'
  <2>1. sale' = [s \in Sales |-> sale'[s]]
    BY DEF Released
  <2>2. sale' \in [Sales -> SaleType]
    BY <1>6, <2>1
  <2> QED BY <1>1, <1>5, <2>2 DEF Typed, Reported
<1>8. Posted'
  <2> SUFFICES ASSUME NEW u \in Returns, back[u].status = "posted"
               PROVE  /\ back[u].sale \in Sales
                      /\ back[u].report # None => /\ sale'[back[u].sale].report = back[u].report
                                                  /\ report'[back[u].report].doc = 1
    BY DEF Posted
  <2>1. back[u].report \in Reports \cup {None} /\ back[u].report # r
    BY <1>1 DEF Typed, BackType
  <2>2. /\ back[u].sale \in Sales
        /\ back[u].report # None => /\ sale[back[u].sale].report = back[u].report
                                    /\ report[back[u].report].doc = 1
    BY <1>1 DEF Posted
  <2>3. CASE back[u].report = None
    BY <2>2, <2>3
  <2>4. CASE back[u].report # None
    <3>1. sale[back[u].sale].report # r
      BY <2>1, <2>2, <2>4
    <3>2. sale'[back[u].sale] = sale[back[u].sale]
      BY <1>6, <2>2, <3>1
    <3>3. report'[back[u].report] = report[back[u].report]
      BY <1>5, <2>1, <2>4
    <3> QED BY <2>2, <3>2, <3>3
  <2> QED BY <2>3, <2>4
<1>9. Paying'
  <2> SUFFICES ASSUME NEW p \in Payments
               PROVE  /\ payment[p].status \in {"draft", "submitted"} =>
                           payment[p].report \in Reports /\ payment[p].amount > 0
                      /\ payment[p].status = "submitted" => report'[payment[p].report].doc = 1
    BY DEF Paying
  <2>1. payment[p].status = "submitted" => payment[p].report \in Reports \ {r}
    BY <1>1 DEF Paying
  <2> QED BY <1>1, <1>5, <2>1 DEF Paying
<1>10. Counted'
  <2> SUFFICES ASSUME NEW s \in Sales
               PROVE  /\ sale'[s].returned = Returned(back, s) /\ sale'[s].returned =< Units
                      /\ sale'[s].status = "REPORTED" => sale'[s].report # None
    BY DEF Counted
  <2> QED BY <1>1, <1>6 DEF Counted
<1>11. Bound'
  <2> SUFFICES ASSUME NEW x \in Sales
               PROVE  /\ \A q \in Reports : Live(report'[q]) /\ report'[q].rows[x] # 0 => sale'[x].report = q
                      /\ sale'[x].report # None =>
                           /\ Live(report'[sale'[x].report])
                           /\ report'[sale'[x].report].rows[x] + Outside(back, x) =< Partner
    BY DEF Bound
  <2>1. \A q \in Reports : Live(report'[q]) /\ report'[q].rows[x] # 0 => sale'[x].report = q
    <3> SUFFICES ASSUME NEW q \in Reports, Live(report'[q]), report'[q].rows[x] # 0
                 PROVE  sale'[x].report = q
      OBVIOUS
    <3>1. q # r
      <4> SUFFICES ASSUME q = r PROVE FALSE
        OBVIOUS
      <4>1. report'[r].doc \in {0, 1}
        BY DEF Live
      <4> QED BY <1>5, <4>1
    <3>2. sale[x].report = q
      BY <1>1, <1>5, <3>1 DEF Bound
    <3> QED BY <1>6, <3>1, <3>2
  <2>2. ASSUME sale'[x].report # None
        PROVE  /\ Live(report'[sale'[x].report])
               /\ report'[sale'[x].report].rows[x] + Outside(back, x) =< Partner
    <3>1. sale[x].report # r /\ sale'[x] = sale[x]
      BY <1>6, <2>2
    <3>2. sale[x].report \in Reports
      BY <1>1, <2>2, <3>1 DEF SaleType
    <3>3. report'[sale[x].report] = report[sale[x].report]
      BY <1>5, <3>1, <3>2
    <3>4. /\ Live(report[sale[x].report])
          /\ report[sale[x].report].rows[x] + Outside(back, x) =< Partner
      BY <1>1, <2>2, <3>1 DEF Bound
    <3> QED BY <3>1, <3>3, <3>4
  <2> QED BY <2>1, <2>2
<1>12. Agreed'
  <2> SUFFICES ASSUME NEW q \in Reports
               PROVE  Says(report'[q], Adjusted(back, q), Paid(payment, q))
    BY DEF Agreed
  <2>1. CASE q = r
    BY <1>5, <2>1, SettlementAssumption DEF Says
  <2>2. CASE q # r
    BY <1>1, <1>5, <2>2 DEF Agreed
  <2> QED BY <2>1, <2>2
<1>13. Balanced'
  <2>1. OwedIn(report') = OwedIn(report) - OwedOf(report[r]) + OwedOf(report'[r])
    BY <1>1, <1>5, OwedShift
  <2>2. OwedOf(report'[r]) = 0
    BY <1>5 DEF OwedOf
  <2>3. OwedIn(report) \in Int /\ OwedOf(report[r]) \in Int
    BY <1>1, OwedInt
  <2>4. ledger.payable = OwedIn(report)
    BY <1>1 DEF Balanced
  <2> QED BY <2>1, <2>2, <2>3, <2>4 DEF Balanced
<1> QED BY <1>7, <1>8, <1>9, <1>10, <1>11, <1>12, <1>13 DEF SettlementInv

\* on_trash frees the sales of a draft.
LEMMA DeleteReportKeeps ==
    ASSUME SettlementInv, NEW r \in Reports, DeleteReport(r)
    PROVE  SettlementInv'
<1>1. Typed
  BY DEF SettlementInv
<1>2. /\ report[r].doc = 0 /\ UNCHANGED <<back, payment, ledger>> /\ sale' = Released(r)
      /\ report' = [report EXCEPT ![r].doc = 2, ![r].status = "CANCELLED"]
  BY DEF DeleteReport
<1>3. OwedOf(report[r]) = 0 /\ ledger' = ledger /\ ledger.payable \in Int
  BY <1>1, <1>2 DEF OwedOf, Typed
<1>4. ledger' \in [unreported : Int, payable : Int] /\ ledger'.payable = ledger.payable - OwedOf(report[r])
  BY <1>1, <1>3 DEF Typed
<1>5. /\ \A t \in Returns : back[t].status = "posted" => back[t].report # r
      /\ \A p \in Payments : payment[p].status = "submitted" => payment[p].report # r
  BY <1>2, NothingOnDraft
<1> QED BY <1>2, <1>4, <1>5, ReportGone

\* A submitted report is cancelled only when nothing adjusts or pays it.
LEMMA CancelReportKeeps ==
    ASSUME SettlementInv, NEW r \in Reports, CancelReport(r)
    PROVE  SettlementInv'
<1>1. Typed /\ Agreed /\ report \in Reported /\ Total(r) = Holding(report[r])
  BY Terms DEF SettlementInv
<1>2. /\ report[r].doc = 1 /\ report[r].paid = 0 /\ Adjustments(back, r) = {}
      /\ UNCHANGED <<back, payment>> /\ sale' = Released(r)
      /\ report' = [report EXCEPT ![r].doc = 2, ![r].status = "CANCELLED"]
      /\ ledger' = [unreported |-> ledger.unreported + Total(r), payable |-> ledger.payable - Total(r)]
  BY DEF CancelReport
<1>3. /\ Adjusted(back, r) = 0 /\ Paid(payment, r) = 0
      /\ \A t \in Returns : back[t].status = "posted" => back[t].report # r
      /\ \A p \in Payments : payment[p].status = "submitted" => payment[p].report # r
  BY <1>2, NothingOnReport
<1>4. Holding(report[r]) \in Nat
  BY <1>1, HoldingNat DEF Reported
<1>5. OwedOf(report[r]) = Holding(report[r])
  <2>1. Due(report[r]) = Holding(report[r]) - 0 - 0
    BY <1>1, <1>2, <1>3 DEF Agreed, Says
  <2> QED BY <1>2, <1>4, <2>1 DEF OwedOf
<1>6. ledger' \in [unreported : Int, payable : Int] /\ ledger'.payable = ledger.payable - OwedOf(report[r])
  BY <1>1, <1>2, <1>4, <1>5 DEF Typed
<1> QED BY <1>2, <1>3, <1>6, ReportGone

\* post_settlement_debt makes the payable what the report holds.
LEMMA SubmitReportKeeps ==
    ASSUME SettlementInv, NEW r \in Reports, SubmitReport(r)
    PROVE  SettlementInv'
<1> DEFINE new == [report[r] EXCEPT !.doc = 1, !.status = "PAYABLE"]
           h == Holding(report[r])
<1>1. /\ Typed /\ Posted /\ Paying /\ Counted /\ Bound /\ Agreed /\ Balanced
      /\ sale \in [Sales -> SaleType] /\ report \in Reported /\ Total(r) = h
  BY Terms DEF SettlementInv
<1>2. /\ report[r].doc = 0 /\ UNCHANGED <<back, payment>>
      /\ report' = [report EXCEPT ![r].doc = 1, ![r].status = "PAYABLE"]
      /\ sale' = [s \in Sales |-> IF sale[s].report = r THEN [sale[s] EXCEPT !.status = "REPORTED"]
                                                        ELSE sale[s]]
      /\ ledger' = [unreported |-> ledger.unreported - Total(r), payable |-> ledger.payable + Total(r)]
  BY DEF SubmitReport
<1>3. report[r] \in ReportType /\ h \in Nat
  BY <1>1, HoldingNat DEF Reported
<1>4. /\ new \in ReportType /\ new.doc = 1 /\ new.rows = report[r].rows /\ new.adjusted = report[r].adjusted
      /\ new.paid = report[r].paid /\ new.outstanding = report[r].outstanding
      /\ new.credit = report[r].credit
  BY <1>3 DEF ReportType, ReportStatus
<1>5. report' = [report EXCEPT ![r] = new]
  BY <1>1, <1>2 DEF Reported
<1> HIDE DEF new
<1>6. report' \in Reported /\ report'[r] = new /\ \A q \in Reports \ {r} : report'[q] = report[q]
  BY <1>1, <1>4, <1>5 DEF Reported
<1>7. \A s \in Sales : /\ sale'[s] \in SaleType /\ sale'[s].returned = sale[s].returned
                       /\ sale'[s].report = sale[s].report
                       /\ sale'[s].status = "REPORTED" => sale[s].status = "REPORTED" \/ sale[s].report = r
  BY <1>1, <1>2 DEF SaleType
<1>8. Typed'
  <2>1. sale' = [s \in Sales |-> sale'[s]]
    BY <1>2
  <2>2. sale' \in [Sales -> SaleType]
    BY <1>7, <2>1
  <2>3. ledger' \in [unreported : Int, payable : Int]
    BY <1>1, <1>2, <1>3 DEF Typed
  <2> QED BY <1>1, <1>2, <1>6, <2>2, <2>3 DEF Typed, Reported
<1>9. \A q \in Reports : /\ report[q].doc = 1 => report'[q].doc = 1
                         /\ report'[q].rows = report[q].rows
                         /\ Live(report'[q]) <=> Live(report[q])
  BY <1>2, <1>4, <1>6 DEF Live
<1>10. Posted'
  <2> SUFFICES ASSUME NEW u \in Returns, back[u].status = "posted"
               PROVE  /\ back[u].sale \in Sales
                      /\ back[u].report # None => /\ sale'[back[u].sale].report = back[u].report
                                                  /\ report'[back[u].report].doc = 1
    BY <1>2 DEF Posted
  <2>1. back[u].report \in Reports \cup {None}
    BY <1>1 DEF Typed, BackType
  <2> QED BY <1>1, <1>7, <1>9, <2>1 DEF Posted
<1>11. Paying'
  <2> SUFFICES ASSUME NEW p \in Payments
               PROVE  /\ payment[p].status \in {"draft", "submitted"} =>
                           payment[p].report \in Reports /\ payment[p].amount > 0
                      /\ payment[p].status = "submitted" => report'[payment[p].report].doc = 1
    BY <1>2 DEF Paying
  <2> QED BY <1>1, <1>9 DEF Paying
<1>12. Counted'
  <2> SUFFICES ASSUME NEW s \in Sales
               PROVE  /\ sale'[s].returned = Returned(back, s) /\ sale'[s].returned =< Units
                      /\ sale'[s].status = "REPORTED" => sale'[s].report # None
    BY <1>2 DEF Counted
  <2> QED BY <1>1, <1>7, SettlementAssumption DEF Counted
<1>13. Bound'
  <2> SUFFICES ASSUME NEW x \in Sales
               PROVE  /\ \A q \in Reports : Live(report'[q]) /\ report'[q].rows[x] # 0 => sale'[x].report = q
                      /\ sale'[x].report # None =>
                           /\ Live(report'[sale'[x].report])
                           /\ report'[sale'[x].report].rows[x] + Outside(back, x) =< Partner
    BY <1>2 DEF Bound
  <2>1. sale[x].report \in Reports \cup {None}
    BY <1>1 DEF SaleType
  <2> QED BY <1>1, <1>7, <1>9, <2>1 DEF Bound
<1>14. Says(report[r], Adjusted(back, r), Paid(payment, r))
  BY <1>1 DEF Agreed
<1>15. Adjusted(back, r) = 0 /\ Paid(payment, r) = 0
  BY <1>2, NothingOnDraft
<1>16. Holding(new) = h /\ Due(new) = h
  BY <1>2, <1>3, <1>4, <1>14 DEF Says, Due, Holding
<1>17. Agreed'
  <2> SUFFICES ASSUME NEW q \in Reports
               PROVE  Says(report'[q], Adjusted(back, q), Paid(payment, q))
    BY <1>2 DEF Agreed
  <2>1. CASE q = r
    <3>1. Says(new, 0, 0)
      BY <1>2, <1>3, <1>4, <1>14, <1>16, SettlementAssumption DEF Says
    <3> QED BY <1>6, <1>15, <2>1, <3>1
  <2>2. CASE q # r
    BY <1>1, <1>6, <2>2 DEF Agreed
  <2> QED BY <2>1, <2>2
<1>18. Balanced'
  <2>1. OwedIn(report') = OwedIn(report) - OwedOf(report[r]) + OwedOf(report'[r])
    BY <1>1, <1>6, OwedShift
  <2>2. OwedOf(report[r]) = 0 /\ OwedOf(report'[r]) = h
    BY <1>2, <1>4, <1>6, <1>16 DEF OwedOf
  <2>3. OwedIn(report) \in Int /\ ledger.payable = OwedIn(report)
    BY <1>1, OwedInt DEF Balanced
  <2>4. ledger'.payable = ledger.payable + h
    BY <1>1, <1>2
  <2> HIDE DEF h
  <2> QED BY <1>3, <2>1, <2>2, <2>3, <2>4 DEF Balanced
<1> QED BY <1>8, <1>10, <1>11, <1>12, <1>13, <1>17, <1>18 DEF SettlementInv

\* A report at the save of its draft.
Drafted(y, rows, o) ==
    [y EXCEPT !.doc = 0, !.status = "DRAFT", !.rows = rows, !.outstanding = o]

\* A drafted report keeps what adjusts and pays it.
LEMMA DraftedIs ==
    ASSUME NEW y \in ReportType, NEW rows \in [Sales -> Nat], NEW o \in Int
    PROVE  LET x == Drafted(y, rows, o)
           IN  /\ x \in ReportType /\ x.doc = 0 /\ x.rows = rows /\ x.outstanding = o
               /\ x.adjusted = y.adjusted /\ x.paid = y.paid /\ x.credit = y.credit
<1> DEFINE x == Drafted(y, rows, o)
<1>1. x \in ReportType
  BY DEF ReportType, ReportStatus, Drafted
<1>2. x.doc = 0 /\ x.rows = rows
  BY DEF ReportType, Drafted
<1>3. x.outstanding = o /\ x.adjusted = y.adjusted
  BY DEF ReportType, Drafted
<1>4. x.paid = y.paid /\ x.credit = y.credit
  BY DEF ReportType, Drafted
<1> QED BY <1>1, <1>2, <1>3, <1>4

\* A report takes only sales that no report has, at what is left of their share.
LEMMA CreateReportKeeps ==
    ASSUME SettlementInv, NEW r \in Reports, NEW S \in SUBSET Sales, CreateReport(r, S)
    PROVE  SettlementInv'
<1> DEFINE rows == [s \in Sales |-> IF s \in S THEN Reportable(s) ELSE 0]
           o == SumOver(rows, S)
           new == Drafted(report[r], rows, o)
<1>1. /\ Typed /\ Posted /\ Paying /\ Counted /\ Bound /\ Agreed /\ Balanced
      /\ sale \in [Sales -> SaleType] /\ report \in Reported /\ back \in Backs
  BY Terms DEF SettlementInv
<1>2. /\ report[r].doc = None /\ UNCHANGED <<back, payment, ledger>>
      /\ \A s \in S : sale[s].report = None /\ Reportable(s) > 0
      /\ report' = [report EXCEPT ![r].doc = 0, ![r].status = "DRAFT", ![r].rows = rows,
                                  ![r].outstanding = o]
      /\ sale' = [s \in Sales |-> IF s \in S THEN [sale[s] EXCEPT !.report = r] ELSE sale[s]]
  BY DEF CreateReport
<1>3. report[r] \in ReportType
  BY <1>1 DEF Reported
<1>4. \A s \in S : /\ rows[s] = Partner - Outside(back, s) /\ rows[s] \in Nat
  <2> SUFFICES ASSUME NEW s \in S
               PROVE  rows[s] = Partner - Outside(back, s) /\ rows[s] \in Nat
    OBVIOUS
  <2>1. s \in Sales /\ Reportable(s) = Partner - Outside(back, s)
    BY <1>2, ReportableIs
  <2>2. Outside(back, s) \in Nat /\ Partner \in Nat
    BY <1>1, ReturnedNat, SettlementAssumption
  <2>3. Reportable(s) > 0
    BY <1>2
  <2>4. rows[s] = Reportable(s)
    BY <2>1
  <2> QED BY <2>1, <2>2, <2>3, <2>4
<1>5. rows \in [Sales -> Nat] /\ \A s \in Sales \ S : rows[s] = 0
  <2>1. \A s \in Sales : rows[s] \in Nat
    BY <1>4
  <2> QED BY <2>1
<1> HIDE DEF rows
<1>6. o = SumOver(rows, Sales) /\ o \in Nat
  <2>1. IsFiniteSet(S) /\ IsFiniteSet(Sales \ S) /\ S \cup (Sales \ S) = Sales
    BY Finite, FS_Subset
  <2>2. Nats(rows, Sales) /\ Ints(rows, Sales) /\ Ints(rows, S) /\ Nats(rows, S)
    BY <1>5 DEF Nats, Ints
  <2>3. SumOver(rows, Sales) = SumOver(rows, S) + SumOver(rows, Sales \ S)
    BY <2>1, <2>2, SumUnion
  <2>4. SumOver(rows, Sales \ S) = 0
    BY <1>5, <2>1, SumZero
  <2>5. SumOver(rows, S) \in Nat
    BY <2>1, <2>2, SumNat
  <2> QED BY <2>3, <2>4, <2>5
<1> HIDE DEF o
<1>7. /\ new \in ReportType /\ new.doc = 0 /\ new.rows = rows /\ new.adjusted = report[r].adjusted
      /\ new.paid = report[r].paid /\ new.outstanding = o /\ new.credit = report[r].credit
  BY <1>3, <1>5, <1>6, DraftedIs
<1>8. report' = [report EXCEPT ![r] = new]
  BY <1>1, <1>2 DEF Reported, Drafted
<1> HIDE DEF new
<1>9. report' \in Reported /\ report'[r] = new /\ \A q \in Reports \ {r} : report'[q] = report[q]
  BY <1>1, <1>7, <1>8 DEF Reported
<1>10. \A s \in Sales : /\ sale'[s] \in SaleType /\ sale'[s].returned = sale[s].returned
                        /\ sale'[s].status = sale[s].status
                        /\ s \in S => sale'[s].report = r
                        /\ s \notin S => sale'[s] = sale[s]
  BY <1>1, <1>2 DEF SaleType
<1>11. Typed'
  <2>1. sale' = [s \in Sales |-> sale'[s]]
    BY <1>2
  <2>2. sale' \in [Sales -> SaleType]
    BY <1>10, <2>1
  <2> QED BY <1>1, <1>2, <1>9, <2>2 DEF Typed, Reported
<1>12. Posted'
  <2> SUFFICES ASSUME NEW u \in Returns, back[u].status = "posted"
               PROVE  /\ back[u].sale \in Sales
                      /\ back[u].report # None => /\ sale'[back[u].sale].report = back[u].report
                                                  /\ report'[back[u].report].doc = 1
    BY <1>2 DEF Posted
  <2>1. back[u].report \in Reports \cup {None}
    BY <1>1 DEF Typed, BackType
  <2>2. /\ back[u].sale \in Sales
        /\ back[u].report # None => /\ sale[back[u].sale].report = back[u].report
                                    /\ report[back[u].report].doc = 1
    BY <1>1 DEF Posted
  <2>3. CASE back[u].report = None
    BY <2>2, <2>3
  <2>4. CASE back[u].report # None
    <3>1. back[u].sale \notin S
      BY <1>2, <2>2, <2>4
    <3>2. back[u].report \in Reports \ {r}
      BY <1>2, <2>1, <2>2, <2>4, SettlementAssumption
    <3> QED BY <1>9, <1>10, <2>2, <3>1, <3>2
  <2> QED BY <2>3, <2>4
<1>13. Paying'
  <2> SUFFICES ASSUME NEW p \in Payments
               PROVE  /\ payment[p].status \in {"draft", "submitted"} =>
                           payment[p].report \in Reports /\ payment[p].amount > 0
                      /\ payment[p].status = "submitted" => report'[payment[p].report].doc = 1
    BY <1>2 DEF Paying
  <2>1. payment[p].status = "submitted" => payment[p].report # r
    BY <1>2, NothingOnDraft, SettlementAssumption
  <2> QED BY <1>1, <1>9, <2>1 DEF Paying
<1>14. Counted'
  <2> SUFFICES ASSUME NEW s \in Sales
               PROVE  /\ sale'[s].returned = Returned(back, s) /\ sale'[s].returned =< Units
                      /\ sale'[s].status = "REPORTED" => sale'[s].report # None
    BY <1>2 DEF Counted
  <2>1. s \in S => sale'[s].report # None
    BY <1>10, SettlementAssumption
  <2> QED BY <1>1, <1>10, <2>1 DEF Counted
<1>15. Bound'
  <2> SUFFICES ASSUME NEW x \in Sales
               PROVE  /\ \A q \in Reports : Live(report'[q]) /\ report'[q].rows[x] # 0 => sale'[x].report = q
                      /\ sale'[x].report # None =>
                           /\ Live(report'[sale'[x].report])
                           /\ report'[sale'[x].report].rows[x] + Outside(back, x) =< Partner
    BY <1>2 DEF Bound
  <2>1. \A q \in Reports : Live(report'[q]) /\ report'[q].rows[x] # 0 => sale'[x].report = q
    <3> SUFFICES ASSUME NEW q \in Reports, Live(report'[q]), report'[q].rows[x] # 0
                 PROVE  sale'[x].report = q
      OBVIOUS
    <3>1. CASE q = r
      <4>1. rows[x] # 0
        BY <1>7, <1>9, <3>1
      <4>2. x \in S
        BY <1>5, <4>1
      <4> QED BY <1>10, <3>1, <4>2
    <3>2. CASE q # r
      <4>1. sale[x].report = q
        BY <1>1, <1>9, <3>2 DEF Bound
      <4>2. x \notin S
        BY <1>2, <4>1, SettlementAssumption
      <4> QED BY <1>10, <4>1, <4>2
    <3> QED BY <3>1, <3>2
  <2>2. ASSUME sale'[x].report # None
        PROVE  /\ Live(report'[sale'[x].report])
               /\ report'[sale'[x].report].rows[x] + Outside(back, x) =< Partner
    <3>1. CASE x \in S
      <4>1. sale'[x].report = r /\ report'[r].rows[x] = rows[x] /\ report'[r].doc = 0
        BY <1>7, <1>9, <1>10, <3>1
      <4>2. rows[x] + Outside(back, x) =< Partner
        <5>1. Outside(back, x) \in Nat /\ Partner \in Nat /\ rows[x] = Partner - Outside(back, x)
          BY <1>1, <1>4, <3>1, ReturnedNat, SettlementAssumption
        <5> QED BY <5>1
      <4> QED BY <4>1, <4>2 DEF Live
    <3>2. CASE x \notin S
      <4>1. sale'[x] = sale[x]
        BY <1>10, <3>2
      <4>2. sale[x].report \in Reports
        BY <1>1, <2>2, <4>1 DEF SaleType
      <4>3. /\ Live(report[sale[x].report])
            /\ report[sale[x].report].rows[x] + Outside(back, x) =< Partner
        BY <1>1, <2>2, <4>1 DEF Bound
      <4>4. sale[x].report # r
        <5> SUFFICES ASSUME sale[x].report = r PROVE FALSE
          OBVIOUS
        <5>1. report[r].doc \in {0, 1}
          BY <4>3 DEF Live
        <5> QED BY <1>2, <5>1, SettlementAssumption
      <4>5. report'[sale[x].report] = report[sale[x].report]
        BY <1>9, <4>2, <4>4
      <4> QED BY <4>1, <4>3, <4>5
    <3> QED BY <3>1, <3>2
  <2> QED BY <2>1, <2>2
<1>16. Agreed'
  <2> SUFFICES ASSUME NEW q \in Reports
               PROVE  Says(report'[q], Adjusted(back, q), Paid(payment, q))
    BY <1>2 DEF Agreed
  <2>1. CASE q = r
    <3>1. report[r].adjusted = 0 /\ report[r].paid = 0 /\ report[r].credit = 0
      BY <1>1, <1>2 DEF Agreed, Says
    <3>2. Holding(new) = o
      BY <1>6, <1>7 DEF Holding
    <3>3. Says(new, Adjusted(back, q), Paid(payment, q))
      BY <1>7, <3>1, <3>2, SettlementAssumption DEF Says
    <3> QED BY <1>9, <2>1, <3>3
  <2>2. CASE q # r
    BY <1>1, <1>9, <2>2 DEF Agreed
  <2> QED BY <2>1, <2>2
<1>17. Balanced'
  <2>1. OwedIn(report') = OwedIn(report) - OwedOf(report[r]) + OwedOf(report'[r])
    BY <1>1, <1>9, OwedShift
  <2>2. OwedOf(report[r]) = 0 /\ OwedOf(report'[r]) = 0
    BY <1>2, <1>7, <1>9, SettlementAssumption DEF OwedOf
  <2>3. OwedIn(report) \in Int /\ ledger.payable = OwedIn(report)
    BY <1>1, OwedInt DEF Balanced
  <2> QED BY <1>2, <2>1, <2>2, <2>3 DEF Balanced
<1> QED BY <1>11, <1>12, <1>13, <1>14, <1>15, <1>16, <1>17 DEF SettlementInv

-----------------------------------------------------------------------------
(* The theorems.                                                           *)

\* Before the first document everything is nothing.
LEMMA InitInv == Init => SettlementInv
<1> SUFFICES ASSUME Init PROVE SettlementInv
  OBVIOUS
<1>1. sale = [s \in Sales |-> [status |-> None, returned |-> 0, report |-> None]]
  BY DEF Init
<1>2. back = [t \in Returns |-> [status |-> None, sale |-> None, qty |-> 0, amount |-> 0,
                                 report |-> None, applied |-> 0]]
  BY DEF Init
<1>3. report = [r \in Reports |-> [doc |-> None, status |-> None, rows |-> [s \in Sales |-> 0],
                                   adjusted |-> 0, paid |-> 0, outstanding |-> 0, credit |-> 0]]
  BY DEF Init
<1>4. payment = [p \in Payments |-> [status |-> None, report |-> None, amount |-> 0]]
  BY DEF Init
<1>5. ledger = [unreported |-> 0, payable |-> 0]
  BY DEF Init
<1>6. Typed
  <2>1. sale \in [Sales -> SaleType]
    BY <1>1 DEF SaleType
  <2>2. back \in [Returns -> BackType]
    BY <1>2 DEF BackType
  <2>3. report \in [Reports -> ReportType]
    BY <1>3 DEF ReportType, ReportStatus
  <2>4. payment \in [Payments -> PaymentType]
    BY <1>4 DEF PaymentType
  <2> QED BY <1>5, <2>1, <2>2, <2>3, <2>4 DEF Typed
<1>7. Posted /\ Paying
  <2>1. Posted
    BY <1>2, SettlementAssumption DEF Posted
  <2>2. Paying
    BY <1>4, SettlementAssumption DEF Paying
  <2> QED BY <2>1, <2>2
<1>8. Counted
  <2> SUFFICES ASSUME NEW s \in Sales
               PROVE  /\ sale[s].returned = Returned(back, s) /\ sale[s].returned =< Units
                      /\ sale[s].status = "REPORTED" => sale[s].report # None
    BY DEF Counted
  <2>1. {t \in Returns : Counts(back[t], s)} = {}
    BY <1>2, SettlementAssumption DEF Counts
  <2>2. Returned(back, s) = 0
    BY <2>1, SumEmpty DEF Returned
  <2>3. sale[s].returned = 0 /\ sale[s].status = None
    BY <1>1
  <2> QED BY <2>2, <2>3, SettlementAssumption
<1>9. Bound
  BY <1>1, <1>3 DEF Bound
<1>10. Agreed
  <2> SUFFICES ASSUME NEW r \in Reports
               PROVE  Says(report[r], Adjusted(back, r), Paid(payment, r))
    BY DEF Agreed
  <2>1. report[r].doc = None /\ report[r].adjusted = 0 /\ report[r].paid = 0 /\ report[r].credit = 0
    BY <1>3
  <2> QED BY <2>1, SettlementAssumption DEF Says
<1>11. Balanced
  <2>1. {r \in Reports : report[r].doc = 1} = {}
    BY <1>3, SettlementAssumption
  <2>2. OwedIn(report) = 0
    BY <2>1, SumEmpty DEF OwedIn
  <2> QED BY <1>5, <2>2 DEF Balanced
<1> QED BY <1>6, <1>7, <1>8, <1>9, <1>10, <1>11 DEF SettlementInv

\* Every transaction keeps the invariant.
LEMMA StepInv == SettlementInv /\ [Next]_vars => SettlementInv'
<1> SUFFICES ASSUME SettlementInv, [Next]_vars PROVE SettlementInv'
  OBVIOUS
<1>1. ASSUME NEW s \in Sales, Sell(s) \/ CancelSale(s) PROVE SettlementInv'
  BY <1>1, SellKeeps, CancelSaleKeeps
<1>2. ASSUME NEW t \in Returns, CancelReturn(t) PROVE SettlementInv'
  BY <1>2, CancelReturnKeeps
<1>3. ASSUME NEW t \in Returns, NEW s \in Sales, NEW q \in 1 .. Units, PostReturn(t, s, q)
      PROVE  SettlementInv'
  BY <1>3, PostReturnKeeps
<1>4. ASSUME NEW r \in Reports, SubmitReport(r) \/ DeleteReport(r) \/ CancelReport(r)
      PROVE  SettlementInv'
  BY <1>4, SubmitReportKeeps, DeleteReportKeeps, CancelReportKeeps
<1>5. ASSUME NEW r \in Reports, NEW S \in SUBSET Sales, CreateReport(r, S) PROVE SettlementInv'
  BY <1>5, CreateReportKeeps
<1>6. ASSUME NEW p \in Payments, SubmitPayment(p) \/ CancelPayment(p) PROVE SettlementInv'
  BY <1>6, SubmitPaymentKeeps, CancelPaymentKeeps
<1>7. ASSUME NEW p \in Payments, NEW r \in Reports, NEW n \in Parts, CreatePayment(p, r, n)
      PROVE  SettlementInv'
  BY <1>7, CreatePaymentKeeps
<1>8. ASSUME UNCHANGED vars PROVE SettlementInv'
  <2>1. UNCHANGED <<back, report, payment, sale, ledger>>
    BY <1>8 DEF vars
  <2>2. Typed /\ Counted
    BY DEF SettlementInv
  <2> QED BY <2>1, <2>2, SaleMoves DEF Typed, Counted
<1>9. CASE Next
  BY <1>1, <1>2, <1>3, <1>4, <1>5, <1>6, <1>7, <1>9 DEF Next
<1> QED BY <1>8, <1>9

\* The invariant of the settlement: sales, returns, reports, payments and the
\* account of the partner count the same money.
THEOREM SettlementInvariance == Spec => []SettlementInv
<1>1. Init => SettlementInv
  BY InitInv
<1>2. SettlementInv /\ [Next]_vars => SettlementInv'
  BY StepInv
<1> QED BY <1>1, <1>2, PTL DEF Spec

\* What the audit looks for cannot be found.
LEMMA NoFindings == SettlementInv => AuditFindsNothing
<1> SUFFICES ASSUME SettlementInv PROVE AuditFindsNothing
  OBVIOUS
<1>1. /\ Typed /\ Counted /\ Agreed /\ Balanced /\ back \in Backs /\ report \in Reported
      /\ payment \in Payings /\ sale \in [Sales -> SaleType]
      /\ \A s \in Sales : Quantity(s) = Returned(back, s)
      /\ \A r \in Reports : Total(r) = Holding(report[r])
  BY Terms DEF SettlementInv
<1>2. SaleIssues = {}
  <2> SUFFICES ASSUME NEW s \in Sales
               PROVE  /\ Quantity(s) = sale[s].returned /\ sale[s].returned \in 0 .. Units
                      /\ ~ (sale[s].status = "REPORTED" /\ sale[s].report = None)
    BY DEF SaleIssues
  <2>1. sale[s].returned \in Nat /\ Units \in Nat
    BY <1>1, SettlementAssumption DEF SaleType
  <2> QED BY <1>1, <2>1 DEF Counted
<1>3. ReportIssues = {}
  <2> SUFFICES ASSUME NEW r \in Reports, report[r].doc = 1
               PROVE  /\ SumOver(Amounts(back), Adjustments(back, r)) = report[r].adjusted
                      /\ Paid(payment, r) = report[r].paid
                      /\ report[r].paid + report[r].outstanding
                           = Total(r) - report[r].adjusted + report[r].credit
    BY DEF ReportIssues
  <2>1. /\ report[r].adjusted = Adjusted(back, r) /\ report[r].paid = Paid(payment, r)
        /\ report[r].outstanding - report[r].credit
             = Holding(report[r]) - Adjusted(back, r) - Paid(payment, r)
    BY <1>1 DEF Agreed, Says, Due
  <2>2. /\ Adjusted(back, r) \in Nat /\ Paid(payment, r) \in Nat /\ Holding(report[r]) \in Nat
        /\ report[r].outstanding \in Int /\ report[r].credit \in Int
    BY <1>1, AdjustedNat, PayFacts, HoldingNat DEF Reported, ReportType
  <2>3. Total(r) = Holding(report[r])
    BY <1>1
  <2>4. report[r].paid + report[r].outstanding = Total(r) - report[r].adjusted + report[r].credit
    BY <2>1, <2>2, <2>3
  <2> QED BY <2>1, <2>4 DEF Adjusted
<1>4. Owed = ledger.payable
  BY <1>1 DEF Owed, Balanced, OwedIn, Due
<1> QED BY <1>2, <1>3, <1>4 DEF AuditFindsNothing

\* At most one live report holds something of a sale.
LEMMA OneShare == SettlementInv => OwedOnce
<1> SUFFICES ASSUME SettlementInv PROVE OwedOnce
  OBVIOUS
<1>1. /\ Typed /\ Bound /\ Agreed /\ back \in Backs /\ report \in Reported
      /\ sale \in [Sales -> SaleType]
      /\ \A r \in Reports : Total(r) = Holding(report[r])
  BY Terms DEF SettlementInv
<1>2. \A r \in Reports : report[r].doc = 1 => SumOver(Amounts(back), Adjustments(back, r)) =< Total(r)
  BY <1>1 DEF Agreed, Says, Adjusted
<1>3. ASSUME NEW s \in Sales,
             SumOver([r \in Reports |-> report[r].rows[s]], {r \in Reports : report[r].doc \in {0, 1}}) > 0
      PROVE  SumOver([r \in Reports |-> report[r].rows[s]], {r \in Reports : report[r].doc \in {0, 1}})
               + SumOver(Amounts(back), {t \in Audits(s) : back[t].report = None}) =< Partner
  <2> DEFINE L == {r \in Reports : report[r].doc \in {0, 1}}
             f == [r \in Reports |-> report[r].rows[s]]
             q == sale[s].report
  <2>1. /\ IsFiniteSet(L) /\ L \subseteq Reports /\ \A r \in L : r \in Reports /\ Live(report[r])
    BY Finite, FS_Subset DEF Live
  <2>2. Nats(f, Reports) /\ Ints(f, Reports)
    BY <1>1 DEF Reported, ReportType, Nats, Ints
  <2>3. \A r \in L : f[r] # 0 => r = q
    BY <1>1, <2>1 DEF Bound
  <2>4. SumOver(Amounts(back), {t \in Audits(s) : back[t].report = None}) = Outside(back, s)
    <3>1. {t \in Audits(s) : back[t].report = None}
            = {t \in Returns : Counts(back[t], s) /\ back[t].report = None}
      BY DEF Audits, Counts
    <3> QED BY <3>1 DEF Outside
  <2>5. SumOver(f, L) > 0
    BY <1>3
  <2>6. f = [r \in Reports |-> report[r].rows[s]]
    OBVIOUS
  <2>7. q # None => Live(report[q]) /\ report[q].rows[s] + Outside(back, s) =< Partner
    BY <1>1 DEF Bound
  <2>8. q \in Reports \cup {None}
    BY <1>1 DEF SaleType
  <2> HIDE DEF L, f, q
  <2>9. q \in L
    <3> SUFFICES ASSUME q \notin L PROVE FALSE
      OBVIOUS
    <3>1. \A r \in L : f[r] = 0
      BY <2>3
    <3>2. SumOver(f, L) = 0
      BY <2>1, <3>1, SumZero
    <3> QED BY <2>5, <3>2
  <2>10. SumOver(f, L) = f[q]
    <3>1. IsFiniteSet(L \ {q}) /\ \A r \in L \ {q} : f[r] = 0
      BY <2>1, <2>3, FS_Subset
    <3>2. SumOver(f, L \ {q}) = 0
      BY <3>1, SumZero
    <3>3. Ints(f, L) /\ f[q] \in Int
      BY <2>1, <2>2, <2>9 DEF Ints
    <3>4. SumOver(f, L) = f[q] + SumOver(f, L \ {q})
      BY <2>1, <2>9, <3>3, SumRemove
    <3> QED BY <3>2, <3>3, <3>4
  <2>11. q # None /\ f[q] = report[q].rows[s]
    BY <2>1, <2>6, <2>9, SettlementAssumption
  <2>12. SumOver(f, L) + Outside(back, s) =< Partner
    BY <2>7, <2>10, <2>11
  <2> QED BY <2>4, <2>12 DEF L, f
<1> QED BY <1>2, <1>3 DEF OwedOnce

\* Whatever sales, returns, reports, payments and cancellations follow each other,
\* audit_financial_integrity finds nothing, and what the reports say is owed is
\* the balance of the payable (refresh_settlement_lifecycle).
THEOREM AuditIsClean == Spec => []AuditFindsNothing
<1>1. Spec => []SettlementInv
  BY SettlementInvariance
<1>2. SettlementInv => AuditFindsNothing
  BY NoFindings
<1> QED BY <1>1, <1>2, PTL

\* A partner's share of a sale is owed once, for any number of units and any
\* share: what live reports hold of it and what was returned before they were made
\* is never more (calculate_reportable_partner_balance), and returns take no more
\* off a report than it holds (create_return_settlement_adjustments).
THEOREM ShareIsOwedOnce == Spec => []OwedOnce
<1>1. Spec => []SettlementInv
  BY SettlementInvariance
<1>2. SettlementInv => OwedOnce
  BY OneShare
<1> QED BY <1>1, <1>2, PTL
=============================================================================
