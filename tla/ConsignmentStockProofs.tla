------------------------ MODULE ConsignmentStockProofs ------------------------
(***************************************************************************)
(* What the stock of partners promises, for every set of lots,             *)
(* allocations and issues: lots count what their allocations hold,         *)
(* compensation is whole, and a reservation can be invoiced until it is    *)
(* due.                                                                    *)
(***************************************************************************)
EXTENDS ConsignmentStock, SumProofs, TLAPS

-----------------------------------------------------------------------------
(* The invariant.                                                          *)

LotType   == [status : {None, "OPEN", "EXHAUSTED", "CANCELLED"}, bal : Nat, res : Nat]
AllocType == [status : {None, "RESERVED", "RELEASED", "EXPIRED", "CONSUMED"},
              slices : [Lots -> Nat], due : BOOLEAN]
CheckoutType == [status : {None, "PLANNED", "IN_PROGRESS", "COMPLETED", "COMPENSATED",
                           "MANUAL_REVIEW"},
                 pay : {"NONE", "CAPTURED", "UNKNOWN", "REFUNDED"}]
RouteType == {None, "PLANNED", "PRINT_PENDING", "COMPLETED", "FAILED", "COMPENSATED"}
JobType   == [status : {None, "PENDING", "PROCESSING", "SUCCEEDED", "FAILED", "CANCELLED"},
              attempts : Nat]
IssueType == [status : {None, "draft", "submitted", "cancelled"}, lot : Lots \cup {None},
              to : OwnLots \cup {None}, qty : Nat, prev : {None, "OPEN", "EXHAUSTED"}]

LotTyped   == lot \in [Lots -> LotType]
AllocTyped == alloc \in [Allocs -> AllocType]
SaleTyped  ==
    /\ invoice \in [Allocs -> {None, "submitted", "cancelled"}]
    /\ checkout \in CheckoutType
    /\ route \in [Allocs -> RouteType]
    /\ job \in [Allocs -> JobType]
    /\ worker # None => worker.job \in Allocs /\ worker.attempts \in Nat
IssueTyped == /\ issue \in [Issues -> IssueType]
              /\ seen \in [Issues -> Nat \cup {None}]
Typed == LotTyped /\ AllocTyped /\ SaleTyped /\ IssueTyped

\* Stock can only be taken from a lot that is open or was.
Stocked(x)  == x.status \in {"OPEN", "EXHAUSTED"}

\* What a lot counts as reserved, its open allocations hold; a lot that was not
\* received holds nothing.
Counted == \A l \in Lots :
    /\ Stocked(lot[l]) => lot[l].res = Slices(Reserving)[l]
    /\ lot[l].status = None => \A a \in Allocs : alloc[a].slices[l] = 0

\* A document that takes stock out of a lot names one lot, and a conversion
\* another, of its own, which is not there before.
IssueNames(i) ==
    /\ issue[i].status \in {"draft", "submitted"} =>
          /\ issue[i].lot \in Lots /\ issue[i].lot \notin OwnLots
          /\ issue[i].prev \in {"OPEN", "EXHAUSTED"}
    /\ issue[i].status = "draft" /\ issue[i].to # None => lot[issue[i].to].status = None
    /\ issue[i].status = "submitted" => Stocked(lot[issue[i].lot])
    /\ issue[i].status = None => issue[i].to = None
    /\ \A j \in Issues : issue[i].to # None /\ issue[j].to = issue[i].to => i = j
\* A lot of the company's own is there because a document converts to it.
Converts(l) == \E i \in Issues : issue[i].to = l
Made == \A l \in OwnLots : lot[l].status # None => Converts(l)
Named == Made /\ \A i \in Issues : IssueNames(i)

\* A route stands for an allocation that was made, a print for a route, and an
\* invoice for an allocation that is consumed.
Follows(a) ==
    /\ route[a] # None => alloc[a].status # None
    /\ job[a].status # None => route[a] # None
    /\ invoice[a] # None => alloc[a].status = "CONSUMED"
Followed == /\ \A a \in Allocs : Follows(a)
            /\ worker # None => route[worker.job] # None
            /\ checkout.status = None => \A a \in Allocs : route[a] = None

\* What a lot has reserved is there, if no issue took it on an older balance.
ReservedIsOnHand == \A l \in Lots \ overdrawn : Stocked(lot[l]) => lot[l].res =< lot[l].bal

StockInv == Typed /\ Counted /\ Named /\ Followed /\ CompensatedIsUndone
PromiseInv == StockInv /\ ReservedIsOnHand

-----------------------------------------------------------------------------
(* What allocations hold of a lot.                                         *)

Part(al, l)   == [a \in Allocs |-> al[a].slices[l]]
HeldOn(al, l) == SumOver(Part(al, l), {a \in Allocs : al[a].status = "RESERVED"})

LEMMA SlicesIs == \A A : \A l \in Lots : Slices(A)[l] = SumOver(Part(alloc, l), A)
BY DEF Slices, Part

LEMMA ReservingIs == \A l \in Lots : Slices(Reserving)[l] = HeldOn(alloc, l)
BY DEF Slices, Reserving, HeldOn, Part

LEMMA ReservingIsNext == \A l \in Lots : (Slices(Reserving)[l])' = HeldOn(alloc', l)
BY DEF Slices, Reserving, HeldOn, Part

LEMMA PartFacts ==
    ASSUME NEW al \in [Allocs -> AllocType], NEW l \in Lots
    PROVE  /\ \A a \in Allocs : Part(al, l)[a] = al[a].slices[l] /\ al[a].slices[l] \in Nat
           /\ \A A \in SUBSET Allocs : /\ IsFiniteSet(A)
                                       /\ Nats(Part(al, l), A) /\ Ints(Part(al, l), A)
<1>1. ASSUME NEW a \in Allocs
      PROVE  Part(al, l)[a] = al[a].slices[l] /\ al[a].slices[l] \in Nat
  <2>1. al[a] \in AllocType
    OBVIOUS
  <2> QED
    BY <2>1 DEF Part, AllocType
<1>2. ASSUME NEW A \in SUBSET Allocs
      PROVE  IsFiniteSet(A) /\ Nats(Part(al, l), A) /\ Ints(Part(al, l), A)
  BY <1>1, StockAssumption, FS_Subset DEF Nats, Ints
<1> QED
  BY <1>1, <1>2

LEMMA SliceFacts ==
    ASSUME AllocTyped, NEW l \in Lots, NEW A \in SUBSET Allocs
    PROVE  /\ Slices(A)[l] \in Nat
           /\ \A a \in A : alloc[a].slices[l] =< Slices(A)[l]
<1>1. /\ IsFiniteSet(A) /\ Nats(Part(alloc, l), A)
      /\ \A a \in Allocs : Part(alloc, l)[a] = alloc[a].slices[l]
  BY PartFacts DEF AllocTyped
<1>2. SumOver(Part(alloc, l), A) \in Nat
  BY <1>1, SumNat
<1>3. \A a \in A : Part(alloc, l)[a] =< SumOver(Part(alloc, l), A)
  BY <1>1, SumMember
<1> QED
  BY <1>1, <1>2, <1>3, SlicesIs

LEMMA SliceOfOne ==
    ASSUME AllocTyped, NEW l \in Lots, NEW a \in Allocs
    PROVE  Slices({a})[l] = alloc[a].slices[l]
<1>1. /\ IsFiniteSet({a}) /\ Ints(Part(alloc, l), {a})
      /\ Part(alloc, l)[a] = alloc[a].slices[l] /\ alloc[a].slices[l] \in Nat
  BY PartFacts DEF AllocTyped
<1>2. SumOver(Part(alloc, l), {a}) = Part(alloc, l)[a] + SumOver(Part(alloc, l), {a} \ {a})
  BY <1>1, SumRemove
<1>3. {a} \ {a} = {}
  OBVIOUS
<1> QED
  BY <1>1, <1>2, <1>3, SumEmpty, SlicesIs

\* What leaves the open allocations, A, leaves the sum; the slices stay.
LEMMA HeldOnLess ==
    ASSUME AllocTyped, alloc' \in [Allocs -> AllocType], NEW A \in SUBSET Reserving, NEW l \in Lots,
           \A a \in Allocs : /\ alloc'[a].slices = alloc[a].slices
                             /\ alloc'[a].status = "RESERVED" <=> a \in Reserving \ A
    PROVE  HeldOn(alloc', l) = HeldOn(alloc, l) - Slices(A)[l]
<1> DEFINE B == Reserving \ A
           f == Part(alloc, l)
<1>1. /\ A \in SUBSET Allocs /\ B \in SUBSET Allocs /\ A \cap B = {}
      /\ A \cup B = {a \in Allocs : alloc[a].status = "RESERVED"}
      /\ B = {a \in Allocs : alloc'[a].status = "RESERVED"}
  BY DEF Reserving
<1>2. IsFiniteSet(A) /\ IsFiniteSet(B) /\ Ints(f, A \cup B) /\ Ints(f, A) /\ Ints(f, B)
  BY <1>1, PartFacts DEF AllocTyped
<1>3. Part(alloc', l) = f
  BY DEF Part
<1>4. HeldOn(alloc, l) = SumOver(f, A \cup B) /\ HeldOn(alloc', l) = SumOver(f, B)
  BY <1>1, <1>3 DEF HeldOn
<1>5. SumOver(f, A \cup B) = SumOver(f, A) + SumOver(f, B)
  BY <1>1, <1>2, SumUnion
<1>6. SumOver(f, A) \in Int /\ SumOver(f, B) \in Int
  BY <1>2, SumInt
<1> QED
  BY <1>4, <1>5, <1>6, SlicesIs

\* A new allocation adds what it took.
LEMMA HeldOnMore ==
    ASSUME AllocTyped, NEW al \in [Allocs -> AllocType], NEW a \in Allocs, NEW l \in Lots,
           alloc[a].status # "RESERVED", al[a].status = "RESERVED",
           \A b \in Allocs \ {a} : al[b] = alloc[b]
    PROVE  HeldOn(al, l) = HeldOn(alloc, l) + al[a].slices[l]
<1> DEFINE A == {b \in Allocs : alloc[b].status = "RESERVED"}
           f == Part(alloc, l)
           g == Part(al, l)
<1>1. A \cup {a} = {b \in Allocs : al[b].status = "RESERVED"} /\ a \notin A
  OBVIOUS
<1>2. /\ A \in SUBSET Allocs /\ A \cup {a} \in SUBSET Allocs
      /\ IsFiniteSet(A) /\ Ints(g, A \cup {a}) /\ Ints(g, A) /\ g[a] = al[a].slices[l]
      /\ g[a] \in Nat
  BY PartFacts
<1>3. \A b \in A : g[b] = f[b]
  BY <1>1 DEF Part
<1>4. SumOver(g, A \cup {a}) = g[a] + SumOver(g, A)
  BY <1>1, <1>2, SumAdd
<1>5. SumOver(g, A) = SumOver(f, A)
  BY <1>2, <1>3, SumAgree
<1>6. SumOver(g, A) \in Int
  BY <1>2, SumInt
<1> HIDE DEF f, g, A
<1>7. HeldOn(al, l) = SumOver(g, A \cup {a}) /\ HeldOn(alloc, l) = SumOver(f, A)
  BY <1>1 DEF HeldOn, f, g, A
<1> QED
  BY <1>2, <1>4, <1>5, <1>6, <1>7

\* Nobody holds anything of a lot that was not received.
LEMMA HeldOnNone ==
    ASSUME AllocTyped, NEW l \in Lots, \A a \in Allocs : alloc[a].slices[l] = 0
    PROVE  HeldOn(alloc, l) = 0
<1> DEFINE A == {a \in Allocs : alloc[a].status = "RESERVED"}
<1>1. A \in SUBSET Allocs /\ IsFiniteSet(A) /\ \A a \in A : Part(alloc, l)[a] = 0
  BY PartFacts DEF AllocTyped
<1>2. SumOver(Part(alloc, l), A) = 0
  BY <1>1, SumZero
<1> QED
  BY <1>2 DEF HeldOn

-----------------------------------------------------------------------------
(* What the steps do to lots and allocations.                              *)

CountedOn(x, al, l) ==
    /\ Stocked(x) => x.res = HeldOn(al, l)
    /\ x.status = None => \A a \in Allocs : al[a].slices[l] = 0

LEMMA CountedIs == Counted <=> \A l \in Lots : CountedOn(lot[l], alloc, l)
BY ReservingIs DEF Counted, CountedOn

LEMMA CountedIsNext == Counted' <=> \A l \in Lots : CountedOn(lot'[l], alloc', l)
BY ReservingIsNext DEF Counted, CountedOn, Stocked

LEMMA NotStocked == \A x : x.status \in {None, "CANCELLED"} => ~Stocked(x)
BY StockAssumption DEF Stocked

\* A lot keeps what it counts as reserved, is received, or is cancelled.
MovesLot(l) ==
    \/ /\ lot'[l].res = lot[l].res
       /\ \/ Stocked(lot[l]) /\ Stocked(lot'[l])
          \/ lot'[l].status = lot[l].status
    \/ lot[l].status = None /\ lot'[l].res = 0 /\ lot'[l].status = "OPEN"
    \/ lot'[l].status = "CANCELLED"

LEMMA MovedLotsCount ==
    ASSUME StockInv, alloc' = alloc, \A l \in Lots : MovesLot(l)
    PROVE  Counted'
<1> SUFFICES ASSUME NEW l \in Lots
             PROVE  CountedOn(lot'[l], alloc, l)
  BY CountedIsNext
<1>1. CountedOn(lot[l], alloc, l) /\ AllocTyped
  BY CountedIs DEF StockInv, Typed
<1>2. CASE lot[l].status = None /\ lot'[l].res = 0 /\ lot'[l].status = "OPEN"
  <2>1. HeldOn(alloc, l) = 0
    BY <1>1, <1>2, HeldOnNone DEF CountedOn
  <2> QED
    BY <1>2, <2>1, StockAssumption DEF CountedOn
<1>3. CASE lot'[l].status = "CANCELLED"
  BY <1>3, NotStocked, StockAssumption DEF CountedOn
<1>4. CASE lot'[l].res = lot[l].res /\ Stocked(lot[l]) /\ Stocked(lot'[l])
  BY <1>1, <1>4, NotStocked DEF CountedOn
<1>5. CASE lot'[l].res = lot[l].res /\ lot'[l].status = lot[l].status
  BY <1>1, <1>5 DEF CountedOn, Stocked
<1> QED
  BY <1>2, <1>3, <1>4, <1>5 DEF MovesLot

\* The allocations of A end as to, and the lots stop counting them.
Ends(A, to) ==
    /\ alloc' = [a \in Allocs |-> IF a \in A THEN [alloc[a] EXCEPT !.status = to, !.due = FALSE]
                                             ELSE alloc[a]]
    /\ \A l \in Lots : /\ lot'[l].status = lot[l].status
                       /\ lot'[l].res = lot[l].res - Slices(A)[l]

LEMMA EndsFacts ==
    ASSUME StockInv, NEW A \in SUBSET Reserving, NEW to \in {"RELEASED", "EXPIRED", "CONSUMED"},
           Ends(A, to)
    PROVE  /\ AllocTyped' /\ Counted'
           /\ \A a \in Allocs : alloc'[a].status = IF a \in A THEN to ELSE alloc[a].status
<1>1. AllocTyped
  BY DEF StockInv, Typed
<1>2. ASSUME NEW a \in Allocs
      PROVE  /\ alloc'[a] \in AllocType /\ alloc'[a].slices = alloc[a].slices
             /\ alloc'[a].status = IF a \in A THEN to ELSE alloc[a].status
  <2>1. alloc[a] \in AllocType
    BY <1>1 DEF AllocTyped
  <2>2. CASE a \in A
    <3>1. alloc'[a] = [alloc[a] EXCEPT !.status = to, !.due = FALSE]
      BY <2>2 DEF Ends
    <3> QED
      BY <2>1, <2>2, <3>1 DEF AllocType
  <2>3. CASE a \notin A
    BY <2>1, <2>3 DEF Ends
  <2> QED
    BY <2>2, <2>3
<1>3. AllocTyped'
  <2>1. alloc' = [a \in Allocs |-> alloc'[a]]
    BY DEF Ends
  <2> QED
    BY <1>2, <2>1 DEF AllocTyped
<1>4. \A a \in Allocs : alloc'[a].status = "RESERVED" <=> a \in Reserving \ A
  BY <1>2 DEF Reserving
<1>5. Counted'
  <2> SUFFICES ASSUME NEW l \in Lots
               PROVE  CountedOn(lot'[l], alloc', l)
    BY CountedIsNext
  <2>1. HeldOn(alloc', l) = HeldOn(alloc, l) - Slices(A)[l]
    BY <1>1, <1>2, <1>3, <1>4, HeldOnLess DEF AllocTyped
  <2>2. CountedOn(lot[l], alloc, l)
    BY CountedIs DEF StockInv
  <2>3. lot'[l].status = lot[l].status /\ lot'[l].res = lot[l].res - Slices(A)[l]
    BY DEF Ends
  <2> QED
    BY <1>2, <2>1, <2>2, <2>3 DEF CountedOn, Stocked
<1> QED
  BY <1>2, <1>3, <1>5

LEMMA LotFacts == ASSUME StockInv, NEW l \in Lots
                  PROVE  lot[l] \in LotType /\ lot[l].bal \in Nat /\ lot[l].res \in Nat
BY DEF StockInv, Typed, LotTyped, LotType

\* _finish_allocation is such an end.
LEMMA FinishedFacts ==
    ASSUME StockInv, NEW A \in SUBSET Allocs, NEW to \in {"RELEASED", "EXPIRED", "CONSUMED"},
           CanFinish(A), Finished(A, to),
           to = "CONSUMED" => \A l \in Lots : Slices(A)[l] =< lot[l].bal
    PROVE  /\ LotTyped' /\ AllocTyped' /\ Counted'
           /\ \A l \in Lots :
                /\ lot'[l].status = lot[l].status /\ Slices(A)[l] \in Nat
                /\ lot'[l].res = lot[l].res - Slices(A)[l]
                /\ lot'[l].bal = lot[l].bal - (IF to = "CONSUMED" THEN Slices(A)[l] ELSE 0)
           /\ \A a \in Allocs : alloc'[a].status = IF a \in A THEN to ELSE alloc[a].status
<1>1. A \in SUBSET Reserving
  BY DEF CanFinish, Reserving
<1>2. ASSUME NEW l \in Lots
      PROVE  /\ lot'[l] \in LotType
             /\ lot'[l].status = lot[l].status /\ Slices(A)[l] \in Nat
             /\ lot'[l].res = lot[l].res - Slices(A)[l]
             /\ lot'[l].bal = lot[l].bal - (IF to = "CONSUMED" THEN Slices(A)[l] ELSE 0)
  <2> DEFINE n == Slices(A)[l]
             m == IF to = "CONSUMED" THEN Slices(A)[l] ELSE 0
  <2>1. n \in Nat /\ n =< lot[l].res /\ m \in Nat /\ m =< lot[l].bal
    BY SliceFacts, LotFacts DEF StockInv, Typed, CanFinish
  <2>2. lot'[l] = [lot[l] EXCEPT !.res = @ - n, !.bal = @ - m]
    BY DEF Finished
  <2> HIDE DEF n, m
  <2>3. /\ lot'[l].status = lot[l].status
        /\ lot'[l].res = lot[l].res - n /\ lot'[l].bal = lot[l].bal - m
    BY <2>2, LotFacts DEF LotType
  <2>4. lot[l].res - n \in Nat /\ lot[l].bal - m \in Nat
    BY <2>1, LotFacts
  <2>5. lot'[l] \in LotType
    BY <2>2, <2>4, LotFacts DEF LotType
  <2> QED
    BY <2>1, <2>3, <2>5 DEF n, m
<1>3. LotTyped'
  <2>1. lot' = [l \in Lots |-> lot'[l]]
    BY DEF Finished
  <2> QED
    BY <1>2, <2>1 DEF LotTyped
<1>4. Ends(A, to)
  BY <1>2 DEF Finished, Ends
<1> QED
  BY <1>1, <1>2, <1>3, <1>4, EndsFacts

-----------------------------------------------------------------------------
(* What stays true of documents, and of the sale, when the stock moves.    *)

LEMMA NamesStay ==
    ASSUME StockInv, issue' = issue,
           \A l \in Lots : lot[l].status = None => lot'[l].status = None \/ l \notin OwnLots,
           \A l \in Lots : Stocked(lot[l]) =>
               Stocked(lot'[l]) \/ \A i \in Issues : ~(issue[i].status = "submitted" /\ issue[i].lot = l)
    PROVE  Named'
<1>2. OwnLots \subseteq Lots
  BY StockAssumption
<1>5. Made'
  BY <1>2 DEF StockInv, Named, Made, Converts
<1> SUFFICES ASSUME NEW i \in Issues
             PROVE  IssueNames(i)'
  BY <1>5 DEF Named
<1>1. issue[i] \in IssueType /\ IssueNames(i)
  BY DEF StockInv, Typed, IssueTyped, Named
<1>3. issue[i].status = "draft" /\ issue[i].to # None => lot'[issue[i].to].status = None
  BY <1>1, <1>2 DEF IssueNames, IssueType
<1>4. issue[i].status = "submitted" => Stocked(lot'[issue[i].lot])
  BY <1>1 DEF IssueNames
<1> QED
  BY <1>1, <1>3, <1>4 DEF IssueNames, Stocked

\* An allocation does not come back, and what is consumed stays so.
Later(a) ==
    /\ alloc[a].status # None => alloc'[a].status # None
    /\ alloc[a].status = "CONSUMED" => alloc'[a].status = "CONSUMED"
    /\ alloc'[a].status = "RESERVED" => alloc[a].status \in {None, "RESERVED"}

LEMMA SaleStays ==
    ASSUME StockInv, UNCHANGED sale, \A a \in Allocs : Later(a)
    PROVE  SaleTyped' /\ Followed' /\ CompensatedIsUndone'
<1>1. /\ invoice' = invoice /\ checkout' = checkout /\ route' = route /\ job' = job
      /\ worker' = worker
  BY DEF sale
<1>2. SaleTyped'
  BY <1>1 DEF StockInv, Typed, SaleTyped
<1>3. Followed'
  BY <1>1 DEF StockInv, Followed, Follows, Later
<1>4. CompensatedIsUndone'
  BY <1>1 DEF StockInv, CompensatedIsUndone, Routes, Followed, Follows, Later
<1> QED
  BY <1>2, <1>3, <1>4

OnHandOn(x) == Stocked(x) => x.res =< x.bal
Keeps == StockInv' /\ (ReservedIsOnHand => ReservedIsOnHand')

\* The lots move, and nothing else does.
LEMMA LotsMove ==
    ASSUME StockInv, LotTyped', alloc' = alloc, UNCHANGED sale, IssueTyped', Named',
           \A l \in Lots : MovesLot(l),
           ReservedIsOnHand => ReservedIsOnHand'
    PROVE  Keeps
<1>1. SaleTyped' /\ Followed' /\ CompensatedIsUndone'
  BY SaleStays DEF Later
<1>2. Counted'
  BY MovedLotsCount
<1>3. AllocTyped'
  BY DEF StockInv, Typed, AllocTyped
<1> QED
  BY <1>1, <1>2, <1>3 DEF Keeps, StockInv, Typed

-----------------------------------------------------------------------------
(* Every step keeps the invariant: receipts and reservations.              *)

LEMMA InitKeeps == ASSUME Init PROVE StockInv /\ ReservedIsOnHand
<1>1. lot \in [Lots -> LotType] /\ \A l \in Lots : lot[l].status = None
  BY DEF Init, LotType
<1>2. /\ alloc \in [Allocs -> AllocType]
      /\ \A a \in Allocs : alloc[a].status = None /\ \A l \in Lots : alloc[a].slices[l] = 0
  BY DEF Init, AllocType, Nothing
<1>3. /\ SaleTyped /\ checkout.status = None /\ worker = None
      /\ \A a \in Allocs : route[a] = None /\ job[a].status = None /\ invoice[a] = None
  BY DEF Init, SaleTyped, CheckoutType, RouteType, JobType
<1>4. IssueTyped /\ \A i \in Issues : issue[i].status = None /\ issue[i].to = None
  BY DEF Init, IssueTyped, IssueType
<1>5. Counted
  BY <1>1, <1>2, NotStocked DEF Counted
<1>6. Named
  BY <1>1, <1>4, StockAssumption DEF Named, IssueNames, Made
<1>7. Followed
  BY <1>3 DEF Followed, Follows
<1>8. CompensatedIsUndone
  BY <1>3, StockAssumption DEF CompensatedIsUndone
<1>9. ReservedIsOnHand
  BY <1>1, NotStocked DEF ReservedIsOnHand
<1> QED
  BY <1>1, <1>2, <1>3, <1>4, <1>5, <1>6, <1>7, <1>8, <1>9
     DEF StockInv, Typed, LotTyped, AllocTyped

LEMMA ReceiptKeeps ==
    ASSUME StockInv, NEW l \in Lots, ReceiveLot(l) \/ CancelReceipt(l)
    PROVE  Keeps
<1>1. /\ alloc' = alloc /\ UNCHANGED sale /\ issue' = issue /\ seen' = seen /\ l \notin OwnLots
      /\ overdrawn' = overdrawn
      /\ \A k \in Lots : k # l => lot'[k] = lot[k]
  BY DEF ReceiveLot, CancelReceipt, StockInv, Typed, LotTyped
<1>2. Received \in Nat
  BY StockAssumption
<1>3. CASE ReceiveLot(l)
  <2>1. /\ lot[l].status = None
        /\ lot' = [lot EXCEPT ![l] = [status |-> "OPEN", bal |-> Received, res |-> 0]]
    BY <1>3 DEF ReceiveLot
  <2>2. LotTyped' /\ lot'[l] = [status |-> "OPEN", bal |-> Received, res |-> 0]
    BY <1>2, <2>1 DEF StockInv, Typed, LotTyped, LotType
  <2>3. \A k \in Lots : MovesLot(k)
    BY <1>1, <2>1, <2>2 DEF MovesLot
  <2>4. Named'
    BY <1>1, <2>1, <2>2, NamesStay, NotStocked
  <2>5. IssueTyped'
    BY <1>1 DEF StockInv, Typed, IssueTyped
  <2>6. ReservedIsOnHand => ReservedIsOnHand'
    BY <1>1, <1>2, <2>2 DEF ReservedIsOnHand, Stocked
  <2> QED
    BY <1>1, <2>2, <2>3, <2>4, <2>5, <2>6, LotsMove
<1>4. CASE CancelReceipt(l)
  <2>1. /\ lot' = [lot EXCEPT ![l] = [status |-> "CANCELLED", bal |-> 0, res |-> 0]]
        /\ lot[l].status \in {"OPEN", "EXHAUSTED"}
        /\ \A i \in Issues : ~(issue[i].status = "submitted" /\ issue[i].lot = l)
    BY <1>4 DEF CancelReceipt
  <2>2. LotTyped' /\ lot'[l] = [status |-> "CANCELLED", bal |-> 0, res |-> 0]
    BY <2>1 DEF StockInv, Typed, LotTyped, LotType
  <2>3. \A k \in Lots : MovesLot(k)
    BY <1>1, <2>2 DEF MovesLot
  <2>4. Named'
    BY <1>1, <2>1, <2>2, NamesStay
  <2>5. IssueTyped'
    BY <1>1 DEF StockInv, Typed, IssueTyped
  <2>6. ReservedIsOnHand => ReservedIsOnHand'
    BY <1>1, <2>2 DEF ReservedIsOnHand, Stocked
  <2> QED
    BY <1>1, <2>2, <2>3, <2>4, <2>5, <2>6, LotsMove
<1> QED
  BY <1>3, <1>4

LEMMA MinOfTwo == ASSUME NEW x \in Int, NEW y \in Int PROVE Min({x, y}) = IF x =< y THEN x ELSE y
BY DEF Min

LEMMA MaxOfTwo == ASSUME NEW x \in Int, NEW y \in Int PROVE Max({x, y}) = IF x >= y THEN x ELSE y
BY DEF Max

\* First in, first out takes from a lot no more than it has free, and nothing
\* from one that is not open.
LEMMA FifoFacts ==
    ASSUME StockInv, Trustworthy, NEW q \in Nat
    PROVE  /\ Fifo(q) \in [Lots -> Nat]
           /\ \A l \in Lots : /\ lot[l].status = "OPEN" => Fifo(q)[l] =< lot[l].bal - lot[l].res
                              /\ lot[l].status # "OPEN" => Fifo(q)[l] = 0
<1> DEFINE f == [l \in Lots |-> Free(l)]
<1>1. \A l \in Lots : /\ f[l] = Free(l) /\ Free(l) \in Nat
                      /\ lot[l].status = "OPEN" => Free(l) = lot[l].bal - lot[l].res
                      /\ lot[l].status # "OPEN" => Free(l) = 0
  BY LotFacts DEF Free, Trustworthy
<1>2. ASSUME NEW S \in SUBSET Lots
      PROVE  FreeIn(S) \in Int
  <2>1. IsFiniteSet(S)
    BY StockAssumption, FS_Subset
  <2>2. \A l \in S : f[l] \in Int
    BY <1>1
  <2> HIDE DEF f
  <2>3. SumOver(f, S) \in Int
    BY <2>1, <2>2, SumInt DEF Ints
  <2> QED
    BY <2>3 DEF FreeIn, f
<1>3. ASSUME NEW l \in Lots
      PROVE  Fifo(q)[l] \in Nat /\ Fifo(q)[l] =< Free(l)
  <2> DEFINE m == q - FreeIn({k \in Lots : k < l})
  <2>1. m \in Int
    BY <1>2
  <2>2. Positive(m) \in Nat
    BY <2>1, MaxOfTwo DEF Positive
  <2>3. Fifo(q)[l] = Min({Free(l), Positive(m)})
    BY DEF Fifo
  <2> HIDE DEF m
  <2> QED
    BY <1>1, <2>2, <2>3, MinOfTwo
<1>4. Fifo(q) \in [Lots -> Nat]
  <2>1. Fifo(q) = [l \in Lots |-> Fifo(q)[l]]
    BY DEF Fifo
  <2> QED
    BY <1>3, <2>1
<1> HIDE DEF f
<1> QED
  BY <1>1, <1>3, <1>4

LEMMA ReserveKeeps ==
    ASSUME StockInv, NEW a \in Allocs, NEW q \in Quantities, Reserve(a, q)
    PROVE  Keeps
<1> DEFINE n == [status |-> "RESERVED", slices |-> Fifo(q), due |-> FALSE]
<1>1. /\ alloc[a].status = None /\ Trustworthy
      /\ alloc' = [alloc EXCEPT ![a] = n]
      /\ lot' = [l \in Lots |-> [lot[l] EXCEPT !.res = @ + Fifo(q)[l]]]
      /\ UNCHANGED sale /\ issue' = issue /\ seen' = seen
      /\ overdrawn' = {l \in overdrawn : lot[l].status # "OPEN"}
  BY DEF Reserve
<1>2. q \in Nat
  BY StockAssumption
<1>3. /\ Fifo(q) \in [Lots -> Nat]
      /\ \A l \in Lots : /\ lot[l].status = "OPEN" => Fifo(q)[l] =< lot[l].bal - lot[l].res
                         /\ lot[l].status # "OPEN" => Fifo(q)[l] = 0
  BY <1>1, <1>2, FifoFacts
<1>4. n \in AllocType /\ n.status = "RESERVED" /\ n.slices = Fifo(q)
  BY <1>3 DEF AllocType
<1> HIDE DEF n
<1>5. /\ alloc' \in [Allocs -> AllocType] /\ alloc'[a] = n
      /\ \A b \in Allocs \ {a} : alloc'[b] = alloc[b]
  BY <1>1, <1>4 DEF StockInv, Typed, AllocTyped
<1>6. ASSUME NEW l \in Lots
      PROVE  /\ lot'[l] \in LotType /\ lot'[l].status = lot[l].status
             /\ lot'[l].bal = lot[l].bal /\ lot'[l].res = lot[l].res + Fifo(q)[l]
  <2>1. Fifo(q)[l] \in Nat
    BY <1>3
  <2>2. lot'[l] = [lot[l] EXCEPT !.res = @ + Fifo(q)[l]]
    BY <1>1
  <2> QED
    BY <2>1, <2>2, LotFacts DEF LotType
<1>7. LotTyped'
  <2>1. lot' = [l \in Lots |-> lot'[l]]
    BY <1>1
  <2> QED
    BY <1>6, <2>1 DEF LotTyped
<1>8. Counted'
  <2> SUFFICES ASSUME NEW l \in Lots
               PROVE  CountedOn(lot'[l], alloc', l)
    BY CountedIsNext
  <2>1. CountedOn(lot[l], alloc, l)
    BY CountedIs DEF StockInv
  <2>2. HeldOn(alloc', l) = HeldOn(alloc, l) + Fifo(q)[l]
    <3>1. alloc[a].status # "RESERVED"
      BY <1>1, StockAssumption
    <3>2. AllocTyped
      BY DEF StockInv, Typed
    <3>3. HeldOn(alloc', l) = HeldOn(alloc, l) + alloc'[a].slices[l]
      BY <1>4, <1>5, <3>1, <3>2, HeldOnMore
    <3> QED
      BY <1>4, <1>5, <3>3
  <2>3. Stocked(lot'[l]) => lot'[l].res = HeldOn(alloc', l)
    BY <1>6, <2>1, <2>2 DEF CountedOn, Stocked
  <2>4. lot'[l].status = None => \A b \in Allocs : alloc'[b].slices[l] = 0
    <3> SUFFICES ASSUME lot'[l].status = None, NEW b \in Allocs
                 PROVE  alloc'[b].slices[l] = 0
      OBVIOUS
    <3>1. lot[l].status = None /\ lot[l].status # "OPEN"
      BY <1>6, StockAssumption
    <3>2. CASE b = a
      BY <1>3, <1>4, <1>5, <3>1, <3>2
    <3>3. CASE b # a
      BY <1>5, <2>1, <3>1, <3>3 DEF CountedOn
    <3> QED
      BY <3>2, <3>3
  <2> QED
    BY <2>3, <2>4 DEF CountedOn
<1>9. Named'
  BY <1>1, <1>6, NamesStay DEF Stocked
<1>10. \A b \in Allocs : Later(b)
  BY <1>1, <1>4, <1>5, StockAssumption DEF Later
<1>11. SaleTyped' /\ Followed' /\ CompensatedIsUndone'
  BY <1>1, <1>10, SaleStays
<1>12. ReservedIsOnHand => ReservedIsOnHand'
  <2> SUFFICES ASSUME ReservedIsOnHand, NEW l \in Lots \ overdrawn', Stocked(lot'[l])
               PROVE  lot'[l].res =< lot'[l].bal
    BY DEF ReservedIsOnHand, Stocked
  <2>1. Fifo(q)[l] \in Nat /\ lot[l].res \in Nat /\ lot[l].bal \in Nat
    BY <1>3, LotFacts
  <2>2. CASE lot[l].status = "OPEN"
    BY <1>3, <1>6, <2>1, <2>2
  <2>3. CASE lot[l].status # "OPEN"
    <3>1. Stocked(lot[l]) /\ l \notin overdrawn
      BY <1>1, <1>6, <2>3 DEF Stocked
    <3>2. lot[l].res =< lot[l].bal
      BY <3>1 DEF ReservedIsOnHand
    <3> QED
      BY <1>3, <1>6, <2>1, <2>3, <3>2
  <2> QED
    BY <2>2, <2>3
<1>13. IssueTyped'
  BY <1>1 DEF StockInv, Typed, IssueTyped
<1> QED
  BY <1>5, <1>7, <1>8, <1>9, <1>11, <1>12, <1>13 DEF Keeps, StockInv, Typed, AllocTyped

LEMMA TimePassesKeeps ==
    ASSUME StockInv, NEW a \in Allocs, TimePasses(a)
    PROVE  Keeps
<1>1. /\ alloc' = [alloc EXCEPT ![a].due = TRUE] /\ lot' = lot /\ UNCHANGED sale
      /\ issue' = issue /\ seen' = seen /\ overdrawn' = overdrawn
  BY DEF TimePasses
<1>2. /\ AllocTyped'
      /\ \A b \in Allocs : /\ alloc'[b].status = alloc[b].status
                           /\ alloc'[b].slices = alloc[b].slices
  BY <1>1 DEF StockInv, Typed, AllocTyped, AllocType
<1>3. Counted'
  <2> SUFFICES ASSUME NEW l \in Lots
               PROVE  CountedOn(lot[l], alloc', l)
    BY <1>1, CountedIsNext
  <2>1. CountedOn(lot[l], alloc, l)
    BY CountedIs DEF StockInv
  <2>2. Part(alloc', l) = Part(alloc, l)
    BY <1>2 DEF Part
  <2>3. HeldOn(alloc', l) = HeldOn(alloc, l)
    BY <1>2, <2>2 DEF HeldOn
  <2> QED
    BY <1>2, <2>1, <2>3 DEF CountedOn
<1>4. Named'
  BY <1>1, NamesStay DEF Stocked
<1>5. SaleTyped' /\ Followed' /\ CompensatedIsUndone'
  BY <1>1, <1>2, SaleStays DEF Later
<1>6. LotTyped' /\ IssueTyped' /\ (ReservedIsOnHand => ReservedIsOnHand')
  BY <1>1 DEF StockInv, Typed, LotTyped, IssueTyped, ReservedIsOnHand
<1> QED
  BY <1>2, <1>3, <1>4, <1>5, <1>6 DEF Keeps, StockInv, Typed

\* An allocation is released or expires.
LEMMA ReleaseKeeps ==
    ASSUME StockInv, NEW a \in Allocs, Release(a) \/ ExpireDue(a)
    PROVE  Keeps
<1>1. PICK to \in {"RELEASED", "EXPIRED"} :
        /\ CanFinish({a}) /\ Finished({a}, to)
        /\ UNCHANGED sale /\ issue' = issue /\ seen' = seen /\ overdrawn' = overdrawn
  BY DEF Release, ExpireDue
<1>2. /\ LotTyped' /\ AllocTyped' /\ Counted'
      /\ \A l \in Lots :
           /\ lot'[l].status = lot[l].status /\ Slices({a})[l] \in Nat
           /\ lot'[l].res = lot[l].res - Slices({a})[l]
           /\ lot'[l].bal = lot[l].bal - (IF to = "CONSUMED" THEN Slices({a})[l] ELSE 0)
      /\ \A b \in Allocs : alloc'[b].status = IF b \in {a} THEN to ELSE alloc[b].status
  BY <1>1, FinishedFacts
<1>3. Named'
  BY <1>1, <1>2, NamesStay DEF Stocked
<1>4. \A b \in Allocs : Later(b)
  <2>1. alloc[a].status = "RESERVED"
    BY <1>1 DEF CanFinish
  <2> QED
    BY <1>2, <2>1, StockAssumption DEF Later
<1>5. SaleTyped' /\ Followed' /\ CompensatedIsUndone'
  BY <1>1, <1>4, SaleStays
<1>6. ReservedIsOnHand => ReservedIsOnHand'
  <2> SUFFICES ASSUME ReservedIsOnHand, NEW l \in Lots \ overdrawn, Stocked(lot'[l])
               PROVE  lot'[l].res =< lot'[l].bal
    BY <1>1 DEF ReservedIsOnHand, Stocked
  <2>1. Stocked(lot[l]) /\ lot[l].res =< lot[l].bal
    BY <1>2 DEF ReservedIsOnHand, Stocked
  <2> DEFINE n == Slices({a})[l]
  <2>2. /\ lot'[l].bal = lot[l].bal - (IF to = "CONSUMED" THEN n ELSE 0)
        /\ lot'[l].res = lot[l].res - n /\ n \in Nat
    BY <1>2
  <2> HIDE DEF n
  <2>3. to # "CONSUMED" /\ lot[l].bal \in Nat /\ lot[l].res \in Nat
    BY LotFacts
  <2> QED
    BY <2>1, <2>2, <2>3
<1>7. IssueTyped'
  BY <1>1 DEF StockInv, Typed, IssueTyped
<1> QED
  BY <1>2, <1>3, <1>5, <1>6, <1>7 DEF Keeps, StockInv, Typed

-----------------------------------------------------------------------------
(* The checkout.                                                           *)

\* The stock does not move.
LEMMA StockStays ==
    ASSUME StockInv, lot' = lot, alloc' = alloc, issue' = issue, seen' = seen,
           overdrawn' = overdrawn, SaleTyped', Followed', CompensatedIsUndone'
    PROVE  Keeps
<1>1. LotTyped' /\ AllocTyped' /\ IssueTyped' /\ (ReservedIsOnHand => ReservedIsOnHand')
  BY DEF StockInv, Typed, LotTyped, AllocTyped, IssueTyped, ReservedIsOnHand
<1>2. Counted'
  BY MovedLotsCount DEF MovesLot
<1>3. Named'
  BY NamesStay
<1> QED
  BY <1>1, <1>2, <1>3 DEF Keeps, StockInv, Typed

LEMMA PrepareCheckoutKeeps ==
    ASSUME StockInv, NEW A \in SUBSET Allocs, PrepareCheckout(A)
    PROVE  Keeps
<1>1. /\ checkout.status = None /\ \A a \in A : alloc[a].status = "RESERVED"
      /\ checkout' = [checkout EXCEPT !.status = "PLANNED"]
      /\ route' = [a \in Allocs |-> IF a \in A THEN "PLANNED" ELSE None]
      /\ lot' = lot /\ alloc' = alloc /\ invoice' = invoice /\ job' = job /\ worker' = worker
      /\ issue' = issue /\ seen' = seen /\ overdrawn' = overdrawn
  BY DEF PrepareCheckout
<1>2. checkout' \in CheckoutType /\ checkout'.status = "PLANNED"
  BY <1>1 DEF StockInv, Typed, SaleTyped, CheckoutType
<1>3. route' \in [Allocs -> RouteType]
  BY <1>1 DEF RouteType
<1>4. SaleTyped'
  BY <1>1, <1>2, <1>3 DEF StockInv, Typed, SaleTyped
<1>5. CompensatedIsUndone'
  BY <1>2 DEF CompensatedIsUndone
<1>6. Followed'
  <2>1. \A a \in Allocs : route[a] = None /\ job[a].status = None
    BY <1>1 DEF StockInv, Followed, Follows
  <2>2. worker = None
    BY <1>1, <2>1 DEF StockInv, Typed, SaleTyped, Followed
  <2>3. \A a \in Allocs : route'[a] # None => alloc[a].status # None
    BY <1>1, StockAssumption
  <2>4. checkout'.status # None
    BY <1>2, StockAssumption
  <2> QED
    BY <1>1, <2>1, <2>2, <2>3, <2>4 DEF StockInv, Followed, Follows
<1> QED
  BY <1>1, <1>4, <1>5, <1>6, StockStays

LEMMA AdvanceKeeps ==
    ASSUME StockInv, NEW a \in Allocs, Advance(a)
    PROVE  Keeps
<1>1. /\ route[a] = "PLANNED" /\ ~alloc[a].due /\ CanFinish({a}) /\ Finished({a}, "CONSUMED")
      /\ \A l \in Lots : alloc[a].slices[l] =< lot[l].bal
      /\ invoice' = [invoice EXCEPT ![a] = "submitted"]
      /\ job' = [job EXCEPT ![a].status = "PENDING"]
      /\ route' = [route EXCEPT ![a] = "PRINT_PENDING"]
      /\ checkout' = [checkout EXCEPT !.status = "IN_PROGRESS"]
      /\ worker' = worker /\ issue' = issue /\ seen' = seen /\ overdrawn' = overdrawn
  BY DEF Advance, CanSell, Sold
<1>2. \A l \in Lots : Slices({a})[l] =< lot[l].bal
  BY <1>1, SliceOfOne DEF StockInv, Typed
<1>3. /\ LotTyped' /\ AllocTyped' /\ Counted'
      /\ \A l \in Lots :
           /\ lot'[l].status = lot[l].status /\ Slices({a})[l] \in Nat
           /\ lot'[l].res = lot[l].res - Slices({a})[l]
           /\ lot'[l].bal = lot[l].bal - (IF "CONSUMED" = "CONSUMED" THEN Slices({a})[l] ELSE 0)
      /\ \A b \in Allocs : alloc'[b].status = IF b \in {a} THEN "CONSUMED" ELSE alloc[b].status
  BY <1>1, <1>2, FinishedFacts
<1>4. Named'
  BY <1>1, <1>3, NamesStay DEF Stocked
<1>5. checkout' \in CheckoutType /\ checkout'.status = "IN_PROGRESS"
  BY <1>1 DEF StockInv, Typed, SaleTyped, CheckoutType
<1>6. SaleTyped'
  <2>1. job' \in [Allocs -> JobType] /\ route' \in [Allocs -> RouteType]
        /\ invoice' \in [Allocs -> {None, "submitted", "cancelled"}]
    BY <1>1 DEF StockInv, Typed, SaleTyped, JobType, RouteType
  <2> QED
    BY <1>1, <1>5, <2>1 DEF StockInv, Typed, SaleTyped
<1>7. CompensatedIsUndone'
  BY <1>5 DEF CompensatedIsUndone
<1>8. Followed'
  <2>1. /\ route'[a] = "PRINT_PENDING" /\ route[a] # None
        /\ \A b \in Allocs : b # a => /\ route'[b] = route[b] /\ job'[b] = job[b]
                                     /\ invoice'[b] = invoice[b]
    BY <1>1, StockAssumption DEF StockInv, Typed, SaleTyped
  <2>2. \A b \in Allocs : Follows(b)'
    <3>1. Follows(a)'
      BY <1>3, <2>1, StockAssumption DEF Follows
    <3>2. ASSUME NEW b \in Allocs, b # a
          PROVE  Follows(b)'
      BY <1>3, <2>1, <3>2 DEF StockInv, Followed, Follows
    <3> QED
      BY <3>1, <3>2
  <2>3. worker # None => route'[worker.job] # None
    <3>1. worker # None => worker.job \in Allocs /\ route[worker.job] # None
      BY DEF StockInv, Typed, SaleTyped, Followed
    <3> QED
      BY <2>1, <3>1, StockAssumption
  <2>4. checkout'.status # None
    BY <1>5, StockAssumption
  <2> QED
    BY <1>1, <2>2, <2>3, <2>4 DEF Followed
<1>9. ReservedIsOnHand => ReservedIsOnHand'
  <2> SUFFICES ASSUME ReservedIsOnHand, NEW l \in Lots \ overdrawn, Stocked(lot'[l])
               PROVE  lot'[l].res =< lot'[l].bal
    BY <1>1 DEF ReservedIsOnHand, Stocked
  <2> DEFINE n == Slices({a})[l]
  <2>1. Stocked(lot[l]) /\ lot[l].res =< lot[l].bal
    BY <1>3 DEF ReservedIsOnHand, Stocked
  <2>2. lot'[l].bal = lot[l].bal - n /\ lot'[l].res = lot[l].res - n /\ n \in Nat
    BY <1>3
  <2> HIDE DEF n
  <2> QED
    BY <2>1, <2>2, LotFacts
<1>10. IssueTyped'
  BY <1>1 DEF StockInv, Typed, IssueTyped
<1> QED
  BY <1>3, <1>4, <1>6, <1>7, <1>8, <1>9, <1>10 DEF Keeps, StockInv, Typed

\* A print of a route is reported: by an operator, or by the worker.
LEMMA ReportKeeps ==
    ASSUME StockInv, NEW a \in Allocs, route[a] # None, NEW n \in Nat,
           NEW routes, NEW s \in {"SUCCEEDED", "FAILED"},
           \/ s = "SUCCEEDED" /\ Succeeded(a, n, routes)
           \/ s = "FAILED" /\ Failed(a, n),
           worker' \in {None, worker},
           UNCHANGED <<lot, alloc, invoice, issue, seen, overdrawn>>
    PROVE  Keeps
<1>1. PICK r \in {"COMPLETED", "FAILED"} :
        /\ route' = [route EXCEPT ![a] = r]
        /\ job' = [job EXCEPT ![a] = [status |-> s, attempts |-> n + 1]]
        /\ \/ checkout' = checkout
           \/ \E c \in {"COMPLETED", "IN_PROGRESS"} : checkout' = [checkout EXCEPT !.status = c]
  BY DEF Succeeded, Failed, Completion
<1>2. /\ checkout' \in CheckoutType
      /\ checkout' = checkout \/ checkout'.status \in {"COMPLETED", "IN_PROGRESS"}
  BY <1>1 DEF StockInv, Typed, SaleTyped, CheckoutType
<1>3. /\ route' \in [Allocs -> RouteType] /\ route'[a] = r
      /\ \A b \in Allocs : b # a => route'[b] = route[b]
  BY <1>1 DEF StockInv, Typed, SaleTyped, RouteType
<1>4. /\ job' \in [Allocs -> JobType]
      /\ \A b \in Allocs : b # a => job'[b] = job[b]
  <2>1. [status |-> s, attempts |-> n + 1] \in JobType
    BY DEF JobType
  <2> QED
    BY <1>1, <2>1 DEF StockInv, Typed, SaleTyped
<1>5. SaleTyped'
  BY <1>2, <1>3, <1>4 DEF StockInv, Typed, SaleTyped
<1>6. ASSUME NEW b \in Allocs
      PROVE  /\ (route'[b] # None) => (route[b] # None)
             /\ (route[b] # None) => (route'[b] # None)
             /\ (route'[b] \in {"PLANNED", "PRINT_PENDING"}) => (route'[b] = route[b])
  <2>1. CASE b = a
    BY <1>3, <2>1, StockAssumption
  <2>2. CASE b # a
    BY <1>3, <2>2
  <2> QED
    BY <2>1, <2>2
<1>7. Followed'
  <2>1. ASSUME NEW b \in Allocs
        PROVE  Follows(b)'
    <3>1. Follows(b)
      BY DEF StockInv, Followed
    <3>2. job'[b].status # None => route[b] # None
      BY <1>4, <3>1 DEF Follows
    <3> QED
      BY <1>6, <3>1, <3>2 DEF Follows
  <2>2. worker' # None => route'[worker'.job] # None
    <3>1. worker # None => worker.job \in Allocs /\ route[worker.job] # None
      BY DEF StockInv, Typed, SaleTyped, Followed
    <3>2. worker # None => route'[worker.job] # None
      BY <1>6, <3>1
    <3>3. CASE worker' = worker
      BY <3>2, <3>3
    <3>4. CASE worker' = None
      BY <3>4
    <3> QED
      BY <3>3, <3>4
  <2>3. checkout'.status # None
    <3>1. checkout.status # None
      BY DEF StockInv, Followed
    <3> QED
      BY <1>2, <3>1, StockAssumption
  <2> QED
    BY <2>1, <2>2, <2>3 DEF Followed
<1>8. CompensatedIsUndone'
  <2>1. CASE checkout' = checkout
    <3> SUFFICES ASSUME checkout.status = "COMPENSATED", NEW b \in Routes'
                 PROVE  /\ route'[b] \notin {"PLANNED", "PRINT_PENDING"}
                        /\ invoice'[b] # "submitted" /\ alloc'[b].status # "RESERVED"
      BY <2>1 DEF CompensatedIsUndone
    <3>1. b \in Allocs /\ route'[b] # None
      BY DEF Routes
    <3>2. b \in Routes
      BY <1>6, <3>1 DEF Routes
    <3>3. /\ route[b] \notin {"PLANNED", "PRINT_PENDING"}
          /\ invoice[b] # "submitted" /\ alloc[b].status # "RESERVED"
      BY <3>2 DEF StockInv, CompensatedIsUndone
    <3> QED
      BY <1>6, <3>1, <3>3
  <2>2. CASE checkout'.status \in {"COMPLETED", "IN_PROGRESS"}
    BY <2>2 DEF CompensatedIsUndone
  <2> QED
    BY <1>2, <2>1, <2>2
<1> QED
  BY <1>5, <1>7, <1>8, StockStays

LEMMA PrintKeeps ==
    ASSUME StockInv, (\E a \in Allocs : MarkPrinted(a) \/ PrintStarts(a)) \/ PrintEnds
    PROVE  Keeps
<1>1. ASSUME NEW a \in Allocs, MarkPrinted(a)
      PROVE  Keeps
  <2>1. /\ route[a] # None /\ job[a].attempts \in Nat
        /\ UNCHANGED <<lot, alloc, invoice, worker, issue, seen, overdrawn>>
    BY <1>1 DEF MarkPrinted, StockInv, Followed, Follows, Typed, SaleTyped, JobType
  <2>2. Succeeded(a, job[a].attempts, route) \/ Failed(a, job[a].attempts)
    BY <1>1 DEF MarkPrinted
  <2>3. CASE Succeeded(a, job[a].attempts, route)
    BY <2>1, <2>3, ReportKeeps
  <2>4. CASE Failed(a, job[a].attempts)
    BY <2>1, <2>4, ReportKeeps
  <2> QED
    BY <2>2, <2>3, <2>4
<1>2. ASSUME NEW a \in Allocs, PrintStarts(a)
      PROVE  Keeps
  <2>1. /\ job[a].status \in {"PENDING", "FAILED"}
        /\ job' = [job EXCEPT ![a].status = "PROCESSING"]
        /\ worker' = [job |-> a, attempts |-> job[a].attempts, routes |-> route]
        /\ UNCHANGED <<lot, alloc, invoice, checkout, route, issue, seen, overdrawn>>
    BY <1>2 DEF PrintStarts
  <2>2. route[a] # None
    BY <2>1, StockAssumption DEF StockInv, Followed, Follows
  <2>3. /\ job' \in [Allocs -> JobType] /\ job[a].attempts \in Nat
        /\ \A b \in Allocs : b # a => job'[b] = job[b]
    BY <2>1 DEF StockInv, Typed, SaleTyped, JobType
  <2>4. SaleTyped'
    BY <2>1, <2>3 DEF StockInv, Typed, SaleTyped
  <2>5. Followed'
    BY <2>1, <2>2, <2>3 DEF StockInv, Followed, Follows
  <2>6. CompensatedIsUndone'
    BY <2>1 DEF StockInv, CompensatedIsUndone, Routes
  <2> QED
    BY <2>1, <2>4, <2>5, <2>6, StockStays
<1>3. ASSUME PrintEnds
      PROVE  Keeps
  <2>1. /\ worker # None /\ worker' = None
        /\ UNCHANGED <<lot, alloc, invoice, issue, seen, overdrawn>>
        /\ \/ Succeeded(worker.job, worker.attempts, worker.routes)
           \/ Failed(worker.job, worker.attempts)
           \/ UNCHANGED <<job, route, checkout>>
    BY <1>3 DEF PrintEnds
  <2>2. worker.job \in Allocs /\ worker.attempts \in Nat /\ route[worker.job] # None
    BY <2>1 DEF StockInv, Typed, SaleTyped, Followed
  <2>3. CASE Succeeded(worker.job, worker.attempts, worker.routes)
    BY <2>1, <2>2, <2>3, ReportKeeps
  <2>4. CASE Failed(worker.job, worker.attempts)
    BY <2>1, <2>2, <2>4, ReportKeeps
  <2>5. CASE UNCHANGED <<job, route, checkout>>
    <3>1. SaleTyped' /\ Followed'
      BY <2>1, <2>5 DEF StockInv, Typed, SaleTyped, Followed, Follows
    <3>2. CompensatedIsUndone'
      BY <2>1, <2>5 DEF StockInv, CompensatedIsUndone, Routes
    <3> QED
      BY <2>1, <3>1, <3>2, StockStays
  <2> QED
    BY <2>1, <2>3, <2>4, <2>5
<1> QED
  BY <1>1, <1>2, <1>3

\* Compensation undoes what the routes have, or nothing and asks for a review.
LEMMA CompensateKeeps ==
    ASSUME StockInv, Compensate
    PROVE  Keeps
<1>1. /\ checkout.status \notin {None, "COMPENSATED"}
      /\ worker' = worker /\ issue' = issue /\ seen' = seen /\ overdrawn' = overdrawn
  BY DEF Compensate
<1>2. CASE /\ checkout' = [checkout EXCEPT !.status = "MANUAL_REVIEW"]
           /\ UNCHANGED <<lot, alloc, invoice, route, job>>
  <2>1. checkout' \in CheckoutType /\ checkout'.status = "MANUAL_REVIEW"
    BY <1>2 DEF StockInv, Typed, SaleTyped, CheckoutType
  <2>2. SaleTyped'
    BY <1>1, <1>2, <2>1 DEF StockInv, Typed, SaleTyped
  <2>3. Followed'
    BY <1>1, <1>2, <2>1, StockAssumption DEF StockInv, Followed, Follows
  <2>4. CompensatedIsUndone'
    BY <2>1 DEF CompensatedIsUndone
  <2> QED
    BY <1>1, <1>2, <2>2, <2>3, <2>4, StockStays
<1>3. CASE /\ Undone
           /\ job' = [a \in Allocs |-> IF job[a].status = None THEN job[a]
                                       ELSE [job[a] EXCEPT !.status = "CANCELLED"]]
           /\ route' = [a \in Allocs |-> IF a \in Routes THEN "COMPENSATED" ELSE None]
           /\ checkout' = [checkout EXCEPT !.status = "COMPENSATED"]
  <2>1. /\ CanFinish(Held) /\ Held \in SUBSET Allocs /\ Held \in SUBSET Reserving
        /\ Invoiced \in SUBSET Allocs
    BY <1>3 DEF Undone, Held, Invoiced, Routes, Reserving
  <2>2. ASSUME NEW l \in Lots
        PROVE  /\ lot'[l] \in LotType /\ lot'[l].status = lot[l].status
               /\ lot'[l].res = lot[l].res - Slices(Held)[l]
               /\ lot'[l].res =< lot[l].res /\ lot'[l].bal >= lot[l].bal
    <3> DEFINE n == Slices(Invoiced)[l]
               m == Slices(Held)[l]
    <3>1. n \in Nat /\ m \in Nat
      BY <2>1, SliceFacts DEF StockInv, Typed
    <3>2. m =< lot[l].res
      BY <2>1 DEF CanFinish
    <3>3. lot'[l] = [lot[l] EXCEPT !.bal = @ + n, !.res = @ - m]
      BY <1>3 DEF Undone
    <3> HIDE DEF n, m
    <3>4. lot[l].bal + n \in Nat /\ lot[l].res - m \in Nat
      BY <3>1, <3>2, LotFacts
    <3>5. lot'[l] \in LotType /\ lot'[l].status = lot[l].status
          /\ lot'[l].bal = lot[l].bal + n /\ lot'[l].res = lot[l].res - m
      BY <3>3, <3>4, LotFacts DEF LotType
    <3> QED
      BY <3>1, <3>5, LotFacts DEF m
  <2>3. LotTyped'
    <3>1. lot' = [l \in Lots |-> lot'[l]]
      BY <1>3 DEF Undone
    <3> QED
      BY <2>2, <3>1 DEF LotTyped
  <2>4. Ends(Held, "RELEASED")
    BY <1>3, <2>2 DEF Undone, Ends
  <2>5. /\ AllocTyped' /\ Counted'
        /\ \A a \in Allocs : alloc'[a].status = IF a \in Held THEN "RELEASED" ELSE alloc[a].status
    BY <2>1, <2>4, EndsFacts
  <2>6. Named'
    BY <1>1, <2>2, NamesStay DEF Stocked
  <2>7. checkout' \in CheckoutType /\ checkout'.status = "COMPENSATED"
    BY <1>3 DEF StockInv, Typed, SaleTyped, CheckoutType
  <2>8. /\ route' \in [Allocs -> RouteType]
        /\ \A a \in Allocs : /\ route'[a] = None <=> route[a] = None
                             /\ route'[a] \in {None, "COMPENSATED"}
    BY <1>3, StockAssumption DEF RouteType, Routes
  <2>9. job' \in [Allocs -> JobType] /\ \A a \in Allocs : job'[a].status # None => job[a].status # None
    <3>1. ASSUME NEW a \in Allocs
          PROVE  job'[a] \in JobType /\ (job'[a].status # None => job[a].status # None)
      <4>1. job[a] \in JobType
        BY DEF StockInv, Typed, SaleTyped
      <4>2. CASE job[a].status = None
        BY <1>3, <4>1, <4>2
      <4>3. CASE job[a].status # None
        <5>1. job'[a] = [job[a] EXCEPT !.status = "CANCELLED"]
          BY <1>3, <4>3
        <5> QED
          BY <4>1, <4>3, <5>1 DEF JobType
      <4> QED
        BY <4>2, <4>3
    <3> QED
      BY <1>3, <3>1
  <2>10. /\ invoice' \in [Allocs -> {None, "submitted", "cancelled"}]
         /\ \A a \in Allocs : /\ invoice'[a] # None => invoice[a] # None
                              /\ a \in Routes => invoice'[a] # "submitted"
    <3>1. invoice' = [a \in Allocs |-> IF a \in Invoiced THEN "cancelled" ELSE invoice[a]]
      BY <1>3 DEF Undone
    <3> QED
      BY <3>1, StockAssumption DEF Invoiced, StockInv, Typed, SaleTyped
  <2>11. SaleTyped'
    BY <1>1, <2>7, <2>8, <2>9, <2>10 DEF StockInv, Typed, SaleTyped
  <2>12. Followed'
    <3>1. ASSUME NEW a \in Allocs
          PROVE  Follows(a)'
      <4>1. Follows(a)
        BY DEF StockInv, Followed
      <4>2. invoice[a] # None => a \notin Held
        BY DEF Held
      <4> QED
        BY <2>5, <2>8, <2>9, <2>10, <4>1, <4>2, StockAssumption DEF Follows
    <3>2. worker # None => route'[worker.job] # None
      BY <2>8 DEF StockInv, Typed, SaleTyped, Followed
    <3>3. checkout'.status # None
      BY <2>7, StockAssumption
    <3> QED
      BY <1>1, <3>1, <3>2, <3>3 DEF Followed
  <2>13. CompensatedIsUndone'
    <3> SUFFICES ASSUME NEW a \in Allocs, route'[a] # None
                 PROVE  /\ route'[a] \notin {"PLANNED", "PRINT_PENDING"}
                        /\ invoice'[a] # "submitted" /\ alloc'[a].status # "RESERVED"
      BY DEF CompensatedIsUndone, Routes
    <3>1. a \in Routes /\ Follows(a)
      BY <2>8 DEF Routes, StockInv, Followed
    <3>2. alloc'[a].status # "RESERVED"
      BY <2>5, <3>1 DEF Held, Follows
    <3> QED
      BY <2>8, <2>10, <3>1, <3>2
  <2>14. ReservedIsOnHand => ReservedIsOnHand'
    <3> SUFFICES ASSUME ReservedIsOnHand, NEW l \in Lots \ overdrawn, Stocked(lot'[l])
                 PROVE  lot'[l].res =< lot'[l].bal
      BY <1>1 DEF ReservedIsOnHand, Stocked
    <3>1. Stocked(lot[l]) /\ lot[l].res =< lot[l].bal
      BY <2>2 DEF ReservedIsOnHand, Stocked
    <3>2. lot'[l].res \in Nat /\ lot'[l].bal \in Nat
      BY <2>2 DEF LotType
    <3> QED
      BY <2>2, <3>1, <3>2, LotFacts
  <2>15. IssueTyped'
    BY <1>1 DEF StockInv, Typed, IssueTyped
  <2> QED
    BY <2>3, <2>5, <2>6, <2>11, <2>12, <2>13, <2>14, <2>15 DEF Keeps, StockInv, Typed
<1> QED
  BY <1>2, <1>3 DEF Compensate

LEMMA PaymentKeeps ==
    ASSUME StockInv, NEW s \in {"CAPTURED", "UNKNOWN", "REFUNDED"}, UpdatePaymentState(s)
    PROVE  Keeps
<1>1. /\ checkout' = [checkout EXCEPT !.pay = s]
      /\ UNCHANGED <<lot, alloc, invoice, route, job, worker, issue, seen, overdrawn>>
  BY DEF UpdatePaymentState
<1>2. checkout' \in CheckoutType /\ checkout'.status = checkout.status
  BY <1>1 DEF StockInv, Typed, SaleTyped, CheckoutType
<1>3. SaleTyped' /\ Followed'
  BY <1>1, <1>2 DEF StockInv, Typed, SaleTyped, Followed, Follows
<1>4. CompensatedIsUndone'
  BY <1>1, <1>2 DEF StockInv, CompensatedIsUndone, Routes
<1> QED
  BY <1>1, <1>3, <1>4, StockStays

LEMMA CancelInvoiceKeeps ==
    ASSUME StockInv, NEW a \in Allocs, CancelInvoice(a)
    PROVE  Keeps
<1>1. /\ invoice[a] = "submitted" /\ invoice' = [invoice EXCEPT ![a] = "cancelled"]
      /\ lot' = Plus(alloc[a].slices, 1)
      /\ UNCHANGED <<alloc, checkout, route, job, worker, issue, seen, overdrawn>>
  BY DEF CancelInvoice
<1>2. ASSUME NEW l \in Lots
      PROVE  /\ lot'[l] \in LotType /\ lot'[l].status = lot[l].status
             /\ lot'[l].res = lot[l].res /\ lot'[l].bal >= lot[l].bal
  <2> DEFINE n == alloc[a].slices[l]
  <2>1. n \in Nat
    BY PartFacts DEF StockInv, Typed, AllocTyped
  <2>2. lot'[l] = [lot[l] EXCEPT !.bal = @ + 1 * n]
    BY <1>1 DEF Plus
  <2> HIDE DEF n
  <2>3. lot[l].bal + 1 * n \in Nat /\ lot[l].bal + 1 * n >= lot[l].bal
    BY <2>1, LotFacts
  <2> QED
    BY <2>2, <2>3, LotFacts DEF LotType
<1>3. LotTyped'
  <2>1. lot' = [l \in Lots |-> lot'[l]]
    BY <1>1 DEF Plus
  <2> QED
    BY <1>2, <2>1 DEF LotTyped
<1>4. Counted'
  BY <1>1, <1>2, MovedLotsCount DEF MovesLot
<1>5. Named'
  BY <1>1, <1>2, NamesStay DEF Stocked
<1>6. /\ invoice' \in [Allocs -> {None, "submitted", "cancelled"}]
      /\ \A b \in Allocs : /\ invoice'[b] # None => invoice[b] # None
                           /\ invoice'[b] = "submitted" => invoice[b] = "submitted"
  BY <1>1, StockAssumption DEF StockInv, Typed, SaleTyped
<1>7. SaleTyped' /\ Followed'
  BY <1>1, <1>6 DEF StockInv, Typed, SaleTyped, Followed, Follows
<1>8. CompensatedIsUndone'
  BY <1>1, <1>6 DEF StockInv, CompensatedIsUndone, Routes
<1>9. ReservedIsOnHand => ReservedIsOnHand'
  <2> SUFFICES ASSUME ReservedIsOnHand, NEW l \in Lots \ overdrawn, Stocked(lot'[l])
               PROVE  lot'[l].res =< lot'[l].bal
    BY <1>1 DEF ReservedIsOnHand, Stocked
  <2>1. Stocked(lot[l]) /\ lot[l].res =< lot[l].bal
    BY <1>2 DEF ReservedIsOnHand, Stocked
  <2>2. lot'[l].bal \in Nat
    BY <1>2 DEF LotType
  <2> QED
    BY <1>2, <2>1, <2>2, LotFacts
<1>10. AllocTyped' /\ IssueTyped'
  BY <1>1 DEF StockInv, Typed, AllocTyped, IssueTyped
<1> QED
  BY <1>3, <1>4, <1>5, <1>7, <1>8, <1>9, <1>10 DEF Keeps, StockInv, Typed

-----------------------------------------------------------------------------
(* Partner returns and conversions.                                        *)

LEMMA IssueFacts ==
    ASSUME StockInv, NEW i \in Issues
    PROVE  /\ issue[i] \in IssueType /\ issue[i].qty \in Nat
           /\ issue[i].to \in OwnLots \cup {None} /\ IssueNames(i)
           /\ seen[i] \in Nat \cup {None}
BY DEF StockInv, Typed, IssueTyped, IssueType, Named

LEMMA DraftIssueKeeps ==
    ASSUME StockInv, NEW i \in Issues, NEW l \in Lots, NEW q \in Quantities,
           NEW to \in OwnLots \cup {None}, DraftIssue(i, l, q, to)
    PROVE  Keeps
<1> DEFINE d == [status |-> "draft", lot |-> l, to |-> to, qty |-> q, prev |-> lot[l].status]
<1>1. /\ issue[i].status = None /\ l \notin OwnLots /\ lot[l].status \in {"OPEN", "EXHAUSTED"}
      /\ \A j \in Issues : (to # None) => (issue[j].to # to)
      /\ issue' = [issue EXCEPT ![i] = d]
      /\ lot' = lot /\ alloc' = alloc /\ UNCHANGED sale /\ seen' = seen
      /\ overdrawn' = overdrawn
  BY DEF DraftIssue
<1>2. d \in IssueType
  BY <1>1, StockAssumption DEF IssueType
<1>3. /\ issue' \in [Issues -> IssueType] /\ issue'[i] = d
      /\ \A j \in Issues : j # i => issue'[j] = issue[j]
  BY <1>1, <1>2 DEF StockInv, Typed, IssueTyped
<1>4. /\ d.status = "draft" /\ d.lot = l /\ d.to = to
      /\ d.prev \in {"OPEN", "EXHAUSTED"}
  BY <1>1
<1> HIDE DEF d
<1>5. issue[i].to = None
  BY <1>1, IssueFacts DEF IssueNames
<1>6. (to # None) => (to \in OwnLots /\ lot[to].status = None)
  BY <1>1 DEF StockInv, Named, Made, Converts
<1>7. Made'
  <2> SUFFICES ASSUME NEW k \in OwnLots, lot[k].status # None
               PROVE  \E j \in Issues : issue'[j].to = k
    BY <1>1 DEF Made, Converts
  <2>1. PICK j \in Issues : issue[j].to = k
    BY DEF StockInv, Named, Made, Converts
  <2>2. k # None
    BY StockAssumption
  <2> QED
    BY <1>3, <1>5, <2>1, <2>2
<1>8. ASSUME NEW j \in Issues
      PROVE  IssueNames(j)'
  <2>1. CASE j = i
    <3>1. \A k \in Issues : issue'[i].to # None /\ issue'[k].to = issue'[i].to => i = k
      BY <1>1, <1>3, <1>4
    <3> QED
      BY <1>1, <1>3, <1>4, <1>6, <2>1, <3>1, StockAssumption DEF IssueNames
  <2>2. CASE j # i
    <3>1. IssueNames(j) /\ issue'[j] = issue[j]
      BY <1>3, <2>2, IssueFacts
    <3>2. \A k \in Issues : issue[j].to # None /\ issue'[k].to = issue[j].to => j = k
      BY <1>1, <1>3, <1>4, <3>1 DEF IssueNames
    <3> QED
      BY <1>1, <3>1, <3>2 DEF IssueNames, Stocked
  <2> QED
    BY <2>1, <2>2
<1>9. IssueTyped' /\ LotTyped'
  BY <1>1, <1>3 DEF StockInv, Typed, IssueTyped, LotTyped
<1>10. ReservedIsOnHand => ReservedIsOnHand'
  BY <1>1 DEF ReservedIsOnHand
<1> QED
  BY <1>1, <1>7, <1>8, <1>9, <1>10, LotsMove DEF MovesLot, Named

LEMMA BeginSubmitKeeps ==
    ASSUME StockInv, NEW i \in Issues, BeginSubmit(i)
    PROVE  Keeps
<1>1. /\ seen' = [seen EXCEPT ![i] = lot[issue[i].lot].bal] /\ issue[i].status = "draft"
      /\ lot' = lot /\ alloc' = alloc /\ UNCHANGED sale /\ issue' = issue
      /\ overdrawn' = overdrawn
  BY DEF BeginSubmit
<1>2. lot[issue[i].lot].bal \in Nat
  BY <1>1, IssueFacts, LotFacts DEF IssueNames
<1>3. IssueTyped' /\ LotTyped'
  BY <1>1, <1>2 DEF StockInv, Typed, IssueTyped, LotTyped
<1>4. Named'
  BY <1>1, NamesStay
<1>5. ReservedIsOnHand => ReservedIsOnHand'
  BY <1>1 DEF ReservedIsOnHand
<1> QED
  BY <1>1, <1>3, <1>4, <1>5, LotsMove DEF MovesLot

\* A document goes on: its lots change, and no other.
LEMMA NamesGoOn ==
    ASSUME StockInv, NEW i \in Issues, NEW st \in {"submitted", "cancelled"},
           issue[i].status \in {"draft", "submitted"},
           issue' = [issue EXCEPT ![i].status = st],
           Stocked(lot'[issue[i].lot]),
           \A k \in Lots : (k # issue[i].lot /\ k # issue[i].to) => lot'[k] = lot[k]
    PROVE  Named' /\ issue' \in [Issues -> IssueType]
<1>1. /\ issue' \in [Issues -> IssueType] /\ issue'[i].status = st
      /\ \A j \in Issues : /\ issue'[j].lot = issue[j].lot /\ issue'[j].to = issue[j].to
                           /\ issue'[j].prev = issue[j].prev
      /\ \A j \in Issues : j # i => issue'[j].status = issue[j].status
  BY DEF StockInv, Typed, IssueTyped, IssueType
<1>2. /\ issue[i].lot \in Lots /\ issue[i].lot \notin OwnLots
      /\ issue[i].prev \in {"OPEN", "EXHAUSTED"}
      /\ issue[i].to \in OwnLots \cup {None} /\ OwnLots \subseteq Lots
      /\ \A j \in Issues : issue[i].to # None /\ issue[j].to = issue[i].to => i = j
  BY IssueFacts, StockAssumption DEF IssueNames
<1>3. Made'
  <2> SUFFICES ASSUME NEW k \in OwnLots, lot'[k].status # None
               PROVE  \E j \in Issues : issue'[j].to = k
    BY DEF Made, Converts
  <2>1. CASE k = issue[i].to
    BY <1>1, <2>1
  <2>2. CASE k # issue[i].to
    <3>1. lot[k].status # None
      BY <1>2, <2>2
    <3> QED
      BY <1>1, <3>1 DEF StockInv, Named, Made, Converts
  <2> QED
    BY <2>1, <2>2
<1>4. ASSUME NEW j \in Issues
      PROVE  IssueNames(j)'
  <2>1. \A k \in Issues : issue'[j].to # None /\ issue'[k].to = issue'[j].to => j = k
    BY <1>1, IssueFacts DEF IssueNames
  <2>2. CASE j = i
    BY <1>1, <1>2, <2>1, <2>2, StockAssumption DEF IssueNames
  <2>3. CASE j # i
    <3>1. /\ IssueNames(j) /\ issue'[j].status = issue[j].status
          /\ issue[j].to \in OwnLots \cup {None}
      BY <1>1, <2>3, IssueFacts
    <3>2. (issue[j].status = "draft" /\ issue[j].to # None) => lot'[issue[j].to].status = None
      BY <1>2, <2>3, <3>1 DEF IssueNames
    <3>3. (issue[j].status = "submitted") => Stocked(lot'[issue[j].lot])
      <4> SUFFICES ASSUME issue[j].status = "submitted"
                   PROVE  Stocked(lot'[issue[j].lot])
        OBVIOUS
      <4>1. issue[j].lot \in Lots /\ issue[j].lot \notin OwnLots /\ Stocked(lot[issue[j].lot])
        BY <3>1 DEF IssueNames
      <4>2. issue[j].lot # issue[i].to
        BY <1>2, <4>1, StockAssumption
      <4>3. CASE issue[j].lot = issue[i].lot
        BY <4>3
      <4>4. CASE issue[j].lot # issue[i].lot
        <5>1. lot'[issue[j].lot] = lot[issue[j].lot]
          BY <4>1, <4>2, <4>4
        <5> QED
          BY <4>1, <5>1
      <4> QED
        BY <4>3, <4>4
    <3> QED
      BY <1>1, <2>1, <3>1, <3>2, <3>3 DEF IssueNames, Stocked
  <2> QED
    BY <2>2, <2>3
<1> QED
  BY <1>1, <1>3, <1>4 DEF Named

LEMMA SubmitIssueKeeps ==
    ASSUME StockInv, NEW i \in Issues, SubmitIssue(i)
    PROVE  Keeps
<1> DEFINE l == issue[i].lot
           to == issue[i].to
<1>1. /\ issue[i].status = "draft" /\ Available(i)
      /\ lot' = IF to = None THEN Taken(i)
                ELSE [Taken(i) EXCEPT ![to] = [status |-> "OPEN", bal |-> issue[i].qty, res |-> 0]]
      /\ issue' = [issue EXCEPT ![i].status = "submitted"]
      /\ seen' = [seen EXCEPT ![i] = None]
      /\ alloc' = alloc /\ UNCHANGED sale
      /\ overdrawn' = IF seen[i] > lot[l].bal THEN overdrawn \cup {l} ELSE overdrawn
  BY DEF SubmitIssue
<1>2. /\ l \in Lots /\ l \notin OwnLots /\ OwnLots \subseteq Lots /\ None \notin Lots
      /\ to \in OwnLots \cup {None}
      /\ (to # None) => lot[to].status = None
      /\ issue[i].qty \in Nat
  BY <1>1, IssueFacts, StockAssumption DEF IssueNames
<1>3. /\ lot[l].status \in {"OPEN", "EXHAUSTED"}
      /\ issue[i].qty =< lot[l].bal
      /\ l \notin overdrawn' => issue[i].qty =< lot[l].bal - lot[l].res
  <2>1. /\ lot[l].status \in {"OPEN", "EXHAUSTED"} /\ seen[i] # None
        /\ issue[i].qty =< seen[i] - lot[l].res /\ issue[i].qty =< lot[l].bal
    BY <1>1 DEF Available
  <2>2. seen[i] \in Nat
    BY <2>1 DEF StockInv, Typed, IssueTyped
  <2>3. l \notin overdrawn' => seen[i] =< lot[l].bal
    BY <1>1, <1>2, <2>2, LotFacts
  <2> QED
    BY <1>2, <2>1, <2>2, <2>3, LotFacts
<1>4. /\ Taken(i) \in [Lots -> LotType]
      /\ Taken(i)[l].res = lot[l].res /\ Taken(i)[l].bal = lot[l].bal - issue[i].qty
      /\ Taken(i)[l].status \in {"OPEN", "EXHAUSTED"}
      /\ \A k \in Lots : k # l => Taken(i)[k] = lot[k]
  <2> DEFINE st == IF seen[i] = issue[i].qty THEN "EXHAUSTED" ELSE lot[l].status
             r == [lot[l] EXCEPT !.bal = @ - issue[i].qty, !.status = st]
  <2>1. lot \in [Lots -> LotType] /\ lot[l] \in LotType
    BY <1>2 DEF StockInv, Typed, LotTyped
  <2>2. lot[l].bal - issue[i].qty \in Nat
    BY <1>2, <1>3, LotFacts
  <2>3. st \in {"OPEN", "EXHAUSTED"}
    BY <1>3
  <2>4. Taken(i) = [lot EXCEPT ![l] = r]
    BY <1>2, <2>1 DEF Taken, LotType
  <2> HIDE DEF st
  <2>5. /\ r \in LotType /\ r.res = lot[l].res /\ r.bal = lot[l].bal - issue[i].qty
        /\ r.status = st
    BY <2>1, <2>2, <2>3 DEF LotType
  <2> HIDE DEF r
  <2> QED
    BY <1>2, <2>1, <2>3, <2>4, <2>5
<1> DEFINE n == [status |-> "OPEN", bal |-> issue[i].qty, res |-> 0]
<1>5. n \in LotType
  BY <1>2 DEF LotType
<1>6. /\ n.status = "OPEN" /\ n.res = 0 /\ n.bal \in Nat
  BY <1>2
<1> HIDE DEF n
<1>7. /\ lot' \in [Lots -> LotType] /\ lot'[l] = Taken(i)[l]
      /\ (to # None) => lot'[to] = n
      /\ \A k \in Lots : (k # l /\ k # to) => lot'[k] = lot[k]
  <2>1. CASE to = None
    BY <1>1, <1>2, <1>4, <2>1
  <2>2. CASE to # None
    <3>1. lot' = [Taken(i) EXCEPT ![to] = n]
      BY <1>1, <2>2 DEF n
    <3>2. to \in Lots /\ to # l
      BY <1>2, <2>2
    <3> HIDE DEF l, to
    <3> QED
      BY <1>2, <1>4, <1>5, <3>1, <3>2
  <2> QED
    BY <2>1, <2>2
<1> HIDE DEF l, to
<1>8. Stocked(lot'[l]) /\ Stocked(lot[l])
  BY <1>3, <1>4, <1>7 DEF Stocked
<1>9. Named' /\ issue' \in [Issues -> IssueType]
  BY <1>1, <1>7, <1>8, NamesGoOn DEF l, to
<1>10. IssueTyped' /\ LotTyped'
  BY <1>1, <1>7, <1>9 DEF StockInv, Typed, IssueTyped, LotTyped
<1>11. ASSUME NEW k \in Lots
       PROVE  MovesLot(k)
  <2>1. CASE k = l
    BY <1>4, <1>7, <1>8, <2>1 DEF MovesLot
  <2>2. CASE k = to
    <3>1. lot[k].status = None /\ lot'[k] = n
      BY <1>2, <1>7, <2>2
    <3> QED
      BY <1>6, <3>1 DEF MovesLot
  <2>3. CASE k # l /\ k # to
    BY <1>7, <2>3 DEF MovesLot
  <2> QED
    BY <2>1, <2>2, <2>3
<1>12. ASSUME ReservedIsOnHand, NEW k \in Lots \ overdrawn', Stocked(lot'[k])
       PROVE  lot'[k].res =< lot'[k].bal
  <2>1. CASE k = l
    BY <1>2, <1>3, <1>4, <1>7, <1>12, <2>1, LotFacts
  <2>2. CASE k = to
    BY <1>2, <1>6, <1>7, <2>2
  <2>3. CASE k # l /\ k # to
    BY <1>1, <1>7, <1>12, <2>3 DEF ReservedIsOnHand
  <2> QED
    BY <2>1, <2>2, <2>3
<1>13. ReservedIsOnHand => ReservedIsOnHand'
  BY <1>12 DEF ReservedIsOnHand, Stocked
<1> QED
  BY <1>1, <1>9, <1>10, <1>11, <1>13, LotsMove

LEMMA CancelIssueKeeps ==
    ASSUME StockInv, NEW i \in Issues, CancelIssue(i)
    PROVE  Keeps
<1> DEFINE l == issue[i].lot
           to == issue[i].to
<1>1. /\ issue[i].status = "submitted"
      /\ lot' = IF to = None THEN GivenBack(i)
                ELSE [GivenBack(i) EXCEPT ![to] = [status |-> "CANCELLED", bal |-> 0, res |-> 0]]
      /\ issue' = [issue EXCEPT ![i].status = "cancelled"]
      /\ alloc' = alloc /\ UNCHANGED sale /\ seen' = seen
      /\ overdrawn' = overdrawn
  BY DEF CancelIssue
<1>2. /\ l \in Lots /\ l \notin OwnLots /\ OwnLots \subseteq Lots /\ None \notin Lots
      /\ to \in OwnLots \cup {None}
      /\ issue[i].qty \in Nat /\ issue[i].prev \in {"OPEN", "EXHAUSTED"}
      /\ Stocked(lot[l])
  BY <1>1, IssueFacts, StockAssumption DEF IssueNames
<1>3. /\ GivenBack(i) \in [Lots -> LotType]
      /\ GivenBack(i)[l].res = lot[l].res /\ GivenBack(i)[l].bal = lot[l].bal + issue[i].qty
      /\ GivenBack(i)[l].status \in {"OPEN", "EXHAUSTED"}
      /\ \A k \in Lots : k # l => GivenBack(i)[k] = lot[k]
  <2> DEFINE r == [lot[l] EXCEPT !.bal = @ + issue[i].qty, !.status = issue[i].prev]
  <2>1. lot \in [Lots -> LotType] /\ lot[l] \in LotType
    BY <1>2 DEF StockInv, Typed, LotTyped
  <2>2. lot[l].bal + issue[i].qty \in Nat
    BY <1>2, LotFacts
  <2>3. GivenBack(i) = [lot EXCEPT ![l] = r]
    BY <1>2, <2>1 DEF GivenBack, LotType
  <2>4. /\ r \in LotType /\ r.res = lot[l].res /\ r.bal = lot[l].bal + issue[i].qty
        /\ r.status = issue[i].prev
    BY <1>2, <2>1, <2>2 DEF LotType
  <2> HIDE DEF r
  <2> QED
    BY <1>2, <2>1, <2>3, <2>4
<1> DEFINE n == [status |-> "CANCELLED", bal |-> 0, res |-> 0]
<1>4. n \in LotType /\ n.status = "CANCELLED"
  BY DEF LotType
<1> HIDE DEF n
<1>5. /\ lot' \in [Lots -> LotType] /\ lot'[l] = GivenBack(i)[l]
      /\ (to # None) => lot'[to] = n
      /\ \A k \in Lots : (k # l /\ k # to) => lot'[k] = lot[k]
  <2>1. CASE to = None
    BY <1>1, <1>2, <1>3, <2>1
  <2>2. CASE to # None
    <3>1. lot' = [GivenBack(i) EXCEPT ![to] = n]
      BY <1>1, <2>2 DEF n
    <3> QED
      BY <1>2, <1>3, <1>4, <2>2, <3>1
  <2> QED
    BY <2>1, <2>2
<1> HIDE DEF l, to
<1>6. Stocked(lot'[l])
  BY <1>3, <1>5 DEF Stocked
<1>7. Named' /\ issue' \in [Issues -> IssueType]
  BY <1>1, <1>5, <1>6, NamesGoOn DEF l, to
<1>8. IssueTyped' /\ LotTyped'
  BY <1>1, <1>5, <1>7 DEF StockInv, Typed, IssueTyped, LotTyped
<1>9. ASSUME NEW k \in Lots
      PROVE  MovesLot(k)
  <2>1. CASE k = l
    BY <1>2, <1>3, <1>5, <1>6, <2>1 DEF MovesLot
  <2>2. CASE k = to
    BY <1>2, <1>4, <1>5, <2>2 DEF MovesLot
  <2>3. CASE k # l /\ k # to
    BY <1>5, <2>3 DEF MovesLot
  <2> QED
    BY <2>1, <2>2, <2>3
<1>10. ASSUME ReservedIsOnHand, NEW k \in Lots \ overdrawn, Stocked(lot'[k])
       PROVE  lot'[k].res =< lot'[k].bal
  <2>1. CASE k = l
    <3>1. lot[l].res =< lot[l].bal
      BY <1>2, <1>10, <2>1 DEF ReservedIsOnHand
    <3> QED
      BY <1>2, <1>3, <1>5, <2>1, <3>1, LotFacts
  <2>2. CASE k = to
    BY <1>2, <1>4, <1>5, <1>10, <2>2, NotStocked
  <2>3. CASE k # l /\ k # to
    BY <1>5, <1>10, <2>3 DEF ReservedIsOnHand
  <2> QED
    BY <2>1, <2>2, <2>3
<1>11. ReservedIsOnHand => ReservedIsOnHand'
  BY <1>1, <1>10 DEF ReservedIsOnHand, Stocked
<1> QED
  BY <1>1, <1>7, <1>8, <1>9, <1>11, LotsMove

-----------------------------------------------------------------------------
(* Every step.                                                             *)

LEMMA StutterKeeps == ASSUME StockInv, UNCHANGED vars PROVE Keeps
<1>1. /\ lot' = lot /\ alloc' = alloc /\ UNCHANGED sale /\ issue' = issue /\ seen' = seen
      /\ overdrawn' = overdrawn
  BY DEF vars
<1>2. SaleTyped' /\ Followed' /\ CompensatedIsUndone'
  BY <1>1, SaleStays DEF Later
<1> QED
  BY <1>1, <1>2, StockStays

LEMMA StepKeeps == ASSUME StockInv, [Next]_vars PROVE Keeps
<1>1. ASSUME NEW l \in Lots, ReceiveLot(l) \/ CancelReceipt(l)
      PROVE  Keeps
  BY <1>1, ReceiptKeeps
<1>2. ASSUME NEW a \in Allocs, NEW q \in Quantities, Reserve(a, q)
      PROVE  Keeps
  BY <1>2, ReserveKeeps
<1>3. ASSUME NEW a \in Allocs, TimePasses(a)
      PROVE  Keeps
  BY <1>3, TimePassesKeeps
<1>4. ASSUME NEW a \in Allocs, Release(a) \/ ExpireDue(a)
      PROVE  Keeps
  BY <1>4, ReleaseKeeps
<1>5. ASSUME NEW a \in Allocs, Advance(a)
      PROVE  Keeps
  BY <1>5, AdvanceKeeps
<1>6. ASSUME (\E a \in Allocs : MarkPrinted(a) \/ PrintStarts(a)) \/ PrintEnds
      PROVE  Keeps
  BY <1>6, PrintKeeps
<1>7. ASSUME NEW a \in Allocs, CancelInvoice(a)
      PROVE  Keeps
  BY <1>7, CancelInvoiceKeeps
<1>8. ASSUME NEW A \in SUBSET Allocs, PrepareCheckout(A)
      PROVE  Keeps
  BY <1>8, PrepareCheckoutKeeps
<1>9. ASSUME Compensate
      PROVE  Keeps
  BY <1>9, CompensateKeeps
<1>10. ASSUME NEW s \in {"CAPTURED", "UNKNOWN", "REFUNDED"}, UpdatePaymentState(s)
       PROVE  Keeps
  BY <1>10, PaymentKeeps
<1>11. ASSUME NEW i \in Issues, NEW l \in Lots, NEW q \in Quantities,
              NEW to \in OwnLots \cup {None}, DraftIssue(i, l, q, to)
       PROVE  Keeps
  BY <1>11, DraftIssueKeeps
<1>12. ASSUME NEW i \in Issues, BeginSubmit(i) \/ SubmitIssue(i) \/ CancelIssue(i)
       PROVE  Keeps
  BY <1>12, BeginSubmitKeeps, SubmitIssueKeeps, CancelIssueKeeps
<1>13. ASSUME UNCHANGED vars
       PROVE  Keeps
  BY <1>13, StutterKeeps
<1> QED
  BY <1>1, <1>2, <1>3, <1>4, <1>5, <1>6, <1>7, <1>8, <1>9, <1>10, <1>11, <1>12, <1>13 DEF Next

-----------------------------------------------------------------------------
(* The theorems.                                                           *)

\* In every state of the program the values are of their types, lots count what
\* is held of them, and documents, routes, prints and invoices fit each other
\* (CC Stock Lot and what allocation.py, pos_execution.py and the documents of
\* partners write to it).
THEOREM StockInvariance == Spec => []StockInv
<1>1. Init => StockInv
  BY InitKeeps
<1>2. StockInv /\ [Next]_vars => StockInv'
  BY StepKeeps DEF Keeps
<1> QED
  BY <1>1, <1>2, PTL DEF Spec

\* audit_financial_integrity finds no RESERVATION_BALANCE issue on a lot whose
\* receipt stands, whatever was reserved, released, expired, sold, returned,
\* converted or compensated, in whatever order.
THEOREM HeldCounts == Spec => []HeldIsCounted
<1>1. StockInv => HeldIsCounted
  <2> SUFFICES ASSUME StockInv, NEW l \in ReservationIssues
               PROVE  lot[l].status = "CANCELLED"
    BY DEF HeldIsCounted
  <2>1. /\ l \in Lots /\ lot[l].status # None /\ lot[l].res # Slices(Reserving)[l]
    BY DEF ReservationIssues
  <2>2. lot[l].status \in {"OPEN", "EXHAUSTED", "CANCELLED"}
    BY <2>1, LotFacts DEF LotType
  <2>3. ~Stocked(lot[l])
    BY <2>1 DEF StockInv, Counted
  <2> QED
    BY <2>2, <2>3 DEF Stocked
<1> QED
  BY <1>1, StockInvariance, PTL

\* compensate_pos_checkout undoes all of a checkout or none of it, and nothing
\* later (a late print, an expiry, the cancellation of an invoice) redoes a part.
THEOREM CompensationIsWhole == Spec => []CompensatedIsUndone
<1>1. StockInv => CompensatedIsUndone
  BY DEF StockInv
<1> QED
  BY <1>1, StockInvariance, PTL

\* Until it is due, and unless the receipt of one of its lots is cancelled, a reservation
\* can be finished and its stock is there to be invoiced, whatever is sold, returned and
\* converted meanwhile, except in a lot that a document took from on the balance it had
\* read before it waited (load_fifo_lots_for_update locks the lots it promises from,
\* validate_partner_return_availability the lot it takes from).
THEOREM PromisesAreKept == Spec => []PromiseIsKept
<1>1. Init => PromiseInv
  BY InitKeeps DEF PromiseInv
<1>2. PromiseInv /\ [Next]_vars => PromiseInv'
  BY StepKeeps DEF Keeps, PromiseInv
<1>3. PromiseInv => PromiseIsKept
  <2> SUFFICES ASSUME PromiseInv, NEW a \in Allocs, alloc[a].status = "RESERVED",
                      \A l \in Lots : alloc[a].slices[l] > 0 => lot[l].status # "CANCELLED"
               PROVE  CanFinish({a}) /\ \A l \in Lots \ overdrawn : alloc[a].slices[l] =< lot[l].bal
    BY DEF PromiseIsKept
  <2>1. StockInv /\ AllocTyped
    BY DEF PromiseInv, StockInv, Typed
  <2>2. ASSUME NEW l \in Lots
        PROVE  /\ Slices({a})[l] = alloc[a].slices[l]
               /\ alloc[a].slices[l] =< lot[l].res
               /\ l \notin overdrawn => alloc[a].slices[l] =< lot[l].bal
    <3>1. Slices({a})[l] = alloc[a].slices[l]
      BY <2>1, SliceOfOne
    <3>2. lot[l] \in LotType /\ lot[l].bal \in Nat /\ lot[l].res \in Nat
      BY <2>1, LotFacts
    <3>3. alloc[a].slices[l] \in Nat
      BY <2>1, PartFacts DEF AllocTyped
    <3>4. CASE alloc[a].slices[l] = 0
      BY <3>1, <3>2, <3>4
    <3>5. CASE alloc[a].slices[l] # 0
      <4>1. lot[l].status # "CANCELLED"
        BY <3>3, <3>5
      <4>2. lot[l].status # None
        BY <2>1, <3>5 DEF StockInv, Counted
      <4>3. Stocked(lot[l])
        BY <3>2, <4>1, <4>2 DEF Stocked, LotType
      <4>4. /\ lot[l].res = Slices(Reserving)[l]
            /\ l \notin overdrawn => lot[l].res =< lot[l].bal
        BY <2>1, <4>3 DEF StockInv, Counted, PromiseInv, ReservedIsOnHand
      <4>5. alloc[a].slices[l] =< Slices(Reserving)[l]
        <5>1. a \in Reserving /\ Reserving \in SUBSET Allocs
          BY DEF Reserving
        <5> QED
          BY <2>1, <5>1, SliceFacts
      <4> QED
        BY <3>1, <3>2, <3>3, <4>4, <4>5
    <3> QED
      BY <3>4, <3>5
  <2> QED
    BY <2>2 DEF CanFinish
<1> QED
  BY <1>1, <1>2, <1>3, PTL DEF Spec
=============================================================================
