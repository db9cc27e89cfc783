---------------------------- MODULE ConsignmentStock ----------------------------
(***************************************************************************)
(* Stock of partners (consignment_and_commission): lots of one item, the   *)
(* allocations that reserve them first in, first out, partner returns and  *)
(* conversions that take stock out of a lot, and one POS checkout whose    *)
(* routes (one allocation each) are invoiced, printed, or compensated.     *)
(*                                                                         *)
(* A step is one database transaction.  A row locked FOR UPDATE is read as *)
(* it is; anything else a transaction reads is as it was when it began.    *)
(* Where the two can differ the older reading is kept: seen, for an issue  *)
(* that waits for its lot, and worker, for a printer that works.           *)
(***************************************************************************)
EXTENDS Integers, FiniteSets, FiniteSetsExt, Sums

CONSTANTS
    Lots,        \* 1..n, in the order they are received
    OwnLots,     \* the lots a conversion creates
    Received,    \* quantity of every lot received from a partner
    Allocs,      \* reservation requests, each a line of the checkout's route
    Quantities,  \* quantities asked for or issued
    Issues,      \* partner returns and conversions
    MaxAttempts, \* prints of one job
    None

ASSUME StockAssumption ==
    /\ Lots \subseteq Nat /\ OwnLots \subseteq Lots
    /\ Received \in Nat \ {0} /\ Quantities \subseteq Nat \ {0} /\ MaxAttempts \in Nat
    /\ IsFiniteSet(Lots) /\ IsFiniteSet(Allocs)
    /\ None \notin Lots
    /\ None \notin {"OPEN", "EXHAUSTED", "CANCELLED", "RESERVED", "RELEASED", "EXPIRED", "CONSUMED",
                    "PLANNED", "PRINT_PENDING", "IN_PROGRESS", "COMPLETED", "FAILED", "COMPENSATED",
                    "MANUAL_REVIEW", "PENDING", "PROCESSING", "SUCCEEDED",
                    "draft", "submitted", "cancelled"}

VARIABLES
    lot,      \* CC Stock Lot, and its balance in the stock ledger
    alloc,    \* CC Allocation with its slices; due: expires_at has passed
    invoice,  \* the Sales Invoice of an allocation
    checkout, \* CC POS Checkout
    route,    \* CC POS Route
    job,      \* CC POS Print Job
    worker,   \* the job being printed and what its transaction sees
    issue,    \* CC Partner Return or CC Ownership Conversion
    seen,     \* balance of its lot in the transaction that submits an issue
    overdrawn \* history: lots an issue took from on an older balance, not reserved since

sale == <<invoice, checkout, route, job, worker>>
vars == <<lot, alloc, sale, issue, seen, overdrawn>>

Positive(n)  == Max({0, n})
Nothing      == [l \in Lots |-> 0]
Plus(q, n)   == [l \in Lots |-> [lot[l] EXCEPT !.bal = @ + n * q[l]]]

Init ==
    /\ lot = [l \in Lots |-> [status |-> None, bal |-> 0, res |-> 0]]
    /\ alloc = [a \in Allocs |-> [status |-> None, slices |-> Nothing, due |-> FALSE]]
    /\ invoice = [a \in Allocs |-> None]
    /\ checkout = [status |-> None, pay |-> "NONE"]
    /\ route = [a \in Allocs |-> None]
    /\ job = [a \in Allocs |-> [status |-> None, attempts |-> 0]]
    /\ worker = None
    /\ issue = [i \in Issues |-> [status |-> None, lot |-> None, to |-> None, qty |-> 0, prev |-> None]]
    /\ seen = [i \in Issues |-> None]
    /\ overdrawn = {}

-----------------------------------------------------------------------------
(* Receipts.                                                               *)

ReceiveLot(l) ==
    /\ lot[l].status = None /\ l \notin OwnLots
    /\ lot' = [lot EXCEPT ![l] = [status |-> "OPEN", bal |-> Received, res |-> 0]]
    /\ UNCHANGED <<alloc, sale, issue, seen, overdrawn>>

\* The ledger takes back what was received only while all of it is there; the
\* reservations are not looked at.
CancelReceipt(l) ==
    /\ lot[l].status \in {"OPEN", "EXHAUSTED"} /\ l \notin OwnLots
    /\ \A i \in Issues : ~(issue[i].status = "submitted" /\ issue[i].lot = l)
    /\ lot[l].bal = Received
    /\ lot' = [lot EXCEPT ![l] = [status |-> "CANCELLED", bal |-> 0, res |-> 0]]
    /\ UNCHANGED <<alloc, sale, issue, seen, overdrawn>>

-----------------------------------------------------------------------------
(* Reservations.                                                           *)

\* _validate_snapshot: one lot that does not add up stops the item.
Trustworthy == \A l \in Lots : lot[l].status = "OPEN" => lot[l].res \in 0..lot[l].bal

\* Mutant: what others have reserved is not left out.
FreeAll(l) == IF lot[l].status = "OPEN" THEN lot[l].bal ELSE 0
\* What a lot has for a new reservation.
Free(l) == IF lot[l].status = "OPEN" THEN lot[l].bal - lot[l].res ELSE 0
FreeIn(S) == SumOver([l \in Lots |-> Free(l)], S)

\* allocate_global_fifo: the oldest lots first.
Fifo(q) == [l \in Lots |-> Min({Free(l), Positive(q - FreeIn({k \in Lots : k < l}))})]

\* All of it or nothing.
Reserve(a, q) ==
    /\ alloc[a].status = None /\ Trustworthy
    /\ FreeIn(Lots) >= q
    /\ alloc' = [alloc EXCEPT ![a] = [status |-> "RESERVED", slices |-> Fifo(q), due |-> FALSE]]
    /\ lot' = [l \in Lots |-> [lot[l] EXCEPT !.res = @ + Fifo(q)[l]]]
    /\ overdrawn' = {l \in overdrawn : lot[l].status # "OPEN"}
    /\ UNCHANGED <<sale, issue, seen>>

TimePasses(a) ==
    /\ alloc[a].status = "RESERVED" /\ ~alloc[a].due
    /\ alloc' = [alloc EXCEPT ![a].due = TRUE]
    /\ UNCHANGED <<lot, sale, issue, seen, overdrawn>>

\* _finish_allocation, of several allocations in one transaction: what it does to
\* the allocations and what it takes off the lots.
Slices(A) == [l \in Lots |-> SumOver([a \in Allocs |-> alloc[a].slices[l]], A)]
CanFinish(A) == /\ \A a \in A : alloc[a].status = "RESERVED"
                /\ \A l \in Lots : Slices(A)[l] <= lot[l].res
\* Mutant: the lot goes on counting what was released.
FinishedOnly(A, to) ==
    /\ alloc' = [a \in Allocs |-> IF a \in A THEN [alloc[a] EXCEPT !.status = to, !.due = FALSE]
                                             ELSE alloc[a]]
    /\ lot' = [l \in Lots |-> [lot[l] EXCEPT !.bal = @ - IF to = "CONSUMED" THEN Slices(A)[l] ELSE 0]]
Finished(A, to) ==
    /\ alloc' = [a \in Allocs |-> IF a \in A THEN [alloc[a] EXCEPT !.status = to, !.due = FALSE]
                                             ELSE alloc[a]]
    /\ lot' = [l \in Lots |-> [lot[l] EXCEPT !.res = @ - Slices(A)[l],
                                             !.bal = @ - IF to = "CONSUMED" THEN Slices(A)[l] ELSE 0]]

Release(a) ==
    /\ CanFinish({a}) /\ Finished({a}, "RELEASED")
    /\ UNCHANGED <<sale, issue, seen, overdrawn>>

\* The job leaves what it cannot release and goes on with the next one.
ExpireDue(a) ==
    /\ alloc[a].due /\ CanFinish({a}) /\ Finished({a}, "EXPIRED")
    /\ UNCHANGED <<sale, issue, seen, overdrawn>>

-----------------------------------------------------------------------------
(* The checkout.                                                           *)

Routes == {a \in Allocs : route[a] # None}

PrepareCheckout(A) ==
    /\ checkout.status = None /\ A # {}
    /\ \A a \in A : alloc[a].status = "RESERVED"
    /\ checkout' = [checkout EXCEPT !.status = "PLANNED"]
    /\ route' = [a \in Allocs |-> IF a \in A THEN "PLANNED" ELSE None]
    /\ UNCHANGED <<lot, alloc, invoice, job, worker, issue, seen, overdrawn>>

\* _load_reserved_allocations, and the ledger, which takes no more than there is.
CanSell(a) ==
    /\ ~alloc[a].due /\ CanFinish({a}) /\ invoice[a] = None
    /\ \A l \in Lots : alloc[a].slices[l] <= lot[l].bal

\* The invoice, created and submitted, which consumes the allocation.
Sold(a) == Finished({a}, "CONSUMED") /\ invoice' = [invoice EXCEPT ![a] = "submitted"]

\* The invoice and its print in one transaction.
Advance(a) ==
    /\ route[a] = "PLANNED" /\ checkout.status \notin {"COMPENSATED", "MANUAL_REVIEW"}
    /\ CanSell(a) /\ Sold(a)
    /\ job' = [job EXCEPT ![a].status = "PENDING"]
    /\ route' = [route EXCEPT ![a] = "PRINT_PENDING"]
    /\ checkout' = [checkout EXCEPT !.status = "IN_PROGRESS"]
    /\ UNCHANGED <<worker, issue, seen, overdrawn>>

\* _refresh_checkout_completion, for the routes a transaction sees.
Completion(routes) ==
    IF \A a \in Allocs : routes[a] \in {None, "COMPLETED"} THEN "COMPLETED" ELSE "IN_PROGRESS"

\* What mark_print_job_succeeded and mark_print_job_failed write.
Succeeded(a, attempts, routes) ==
    /\ job' = [job EXCEPT ![a] = [status |-> "SUCCEEDED", attempts |-> attempts + 1]]
    /\ route' = [route EXCEPT ![a] = "COMPLETED"]
    /\ checkout' = [checkout EXCEPT !.status = Completion([routes EXCEPT ![a] = "COMPLETED"])]
Failed(a, attempts) ==
    /\ job' = [job EXCEPT ![a] = [status |-> "FAILED", attempts |-> attempts + 1]]
    /\ route' = [route EXCEPT ![a] = "FAILED"]
    /\ UNCHANGED checkout

\* An operator reports a print.
MarkPrinted(a) ==
    /\ job[a].status \notin {None, "SUCCEEDED", "CANCELLED"} /\ job[a].attempts < MaxAttempts
    /\ \/ Succeeded(a, job[a].attempts, route)
       \/ Failed(a, job[a].attempts)
    /\ UNCHANGED <<lot, alloc, invoice, worker, issue, seen, overdrawn>>

\* process_pending_print_jobs: PROCESSING is committed, then the provider prints
\* within the transaction that reports it.
PrintStarts(a) ==
    /\ worker = None
    /\ job[a].status \in {"PENDING", "FAILED"} /\ job[a].attempts < MaxAttempts
    /\ job' = [job EXCEPT ![a].status = "PROCESSING"]
    /\ worker' = [job |-> a, attempts |-> job[a].attempts, routes |-> route]
    /\ UNCHANGED <<lot, alloc, invoice, checkout, route, issue, seen, overdrawn>>

PrintEnds ==
    /\ worker # None
    /\ \/ Succeeded(worker.job, worker.attempts, worker.routes)
       \/ Failed(worker.job, worker.attempts)
       \/ UNCHANGED <<job, route, checkout>>    \* the worker dies
    /\ worker' = None
    /\ UNCHANGED <<lot, alloc, invoice, issue, seen, overdrawn>>

\* What compensation does to the invoices and the allocations of the routes.
Invoiced == {a \in Routes : invoice[a] = "submitted"}
Held     == {a \in Routes : invoice[a] = None /\ alloc[a].status = "RESERVED"}

\* Mutant: an allocation without an invoice is left to the expiry job.
UndoneInvoices ==
    /\ invoice' = [a \in Allocs |-> IF a \in Invoiced THEN "cancelled" ELSE invoice[a]]
    /\ lot' = Plus(Slices(Invoiced), 1)
    /\ alloc' = alloc
Undone ==
    /\ CanFinish(Held)
    /\ invoice' = [a \in Allocs |-> IF a \in Invoiced THEN "cancelled" ELSE invoice[a]]
    /\ alloc' = [a \in Allocs |-> IF a \in Held THEN [alloc[a] EXCEPT !.status = "RELEASED", !.due = FALSE]
                                                ELSE alloc[a]]
    /\ lot' = [l \in Lots |-> [lot[l] EXCEPT !.bal = @ + Slices(Invoiced)[l],
                                             !.res = @ - Slices(Held)[l]]]

Compensate ==
    /\ checkout.status \notin {None, "COMPENSATED"}
    /\ IF \/ checkout.pay \in {"CAPTURED", "UNKNOWN"}
          \/ \E a \in Routes : job[a].status = "SUCCEEDED"
       THEN /\ checkout' = [checkout EXCEPT !.status = "MANUAL_REVIEW"]
            /\ UNCHANGED <<lot, alloc, invoice, route, job>>
       ELSE /\ Undone
            /\ job' = [a \in Allocs |-> IF job[a].status = None THEN job[a]
                                        ELSE [job[a] EXCEPT !.status = "CANCELLED"]]
            /\ route' = [a \in Allocs |-> IF a \in Routes THEN "COMPENSATED" ELSE None]
            /\ checkout' = [checkout EXCEPT !.status = "COMPENSATED"]
    /\ UNCHANGED <<worker, issue, seen, overdrawn>>

UpdatePaymentState(s) ==
    /\ checkout.status # None
    /\ \/ checkout.pay = "NONE" /\ s \in {"CAPTURED", "UNKNOWN"}
       \/ checkout.pay = "CAPTURED" /\ s \in {"REFUNDED", "UNKNOWN"}
       \/ checkout.pay = "UNKNOWN" /\ s \in {"CAPTURED", "REFUNDED"}
    /\ checkout' = [checkout EXCEPT !.pay = s]
    /\ UNCHANGED <<lot, alloc, invoice, route, job, worker, issue, seen, overdrawn>>

\* An accountant cancels an invoice: the stock is back, the rest is as it was.
CancelInvoice(a) ==
    /\ invoice[a] = "submitted"
    /\ invoice' = [invoice EXCEPT ![a] = "cancelled"]
    /\ lot' = Plus(alloc[a].slices, 1)
    /\ UNCHANGED <<alloc, checkout, route, job, worker, issue, seen, overdrawn>>

-----------------------------------------------------------------------------
(* Partner returns (to = None) and conversions (to = the lot they create). *)

DraftIssue(i, l, q, to) ==
    /\ issue[i].status = None /\ l \notin OwnLots
    /\ lot[l].status \in {"OPEN", "EXHAUSTED"}
    /\ \A j \in Issues : to # None => issue[j].to # to
    /\ issue' = [issue EXCEPT ![i] = [status |-> "draft", lot |-> l, to |-> to, qty |-> q,
                                      prev |-> lot[l].status]]
    /\ UNCHANGED <<lot, alloc, sale, seen, overdrawn>>

\* The transaction that submits the issue begins, and asks for the lock of the lot.
BeginSubmit(i) ==
    /\ issue[i].status = "draft" /\ seen[i] # lot[issue[i].lot].bal
    /\ seen' = [seen EXCEPT ![i] = lot[issue[i].lot].bal]
    /\ UNCHANGED <<lot, alloc, sale, issue, overdrawn>>

\* validate_partner_return_availability; the lot must not be cancelled.  The balance
\* is as it was before the wait for the lock, the reservations are those of now.
Available(i) ==
    LET l == issue[i].lot
    IN  /\ lot[l].status \in {"OPEN", "EXHAUSTED"}
        /\ seen[i] # None
        /\ issue[i].qty <= seen[i] - lot[l].res /\ issue[i].qty <= lot[l].bal

\* The stock is issued.
Taken(i) ==
    LET l == issue[i].lot
    IN  [lot EXCEPT ![l].bal = @ - issue[i].qty,
                    ![l].status = IF seen[i] = issue[i].qty THEN "EXHAUSTED" ELSE @]

\* A conversion receives it in a new lot.
SubmitIssue(i) ==
    LET to == issue[i].to
    IN  /\ issue[i].status = "draft" /\ Available(i)
        /\ lot' = IF to = None THEN Taken(i)
                  ELSE [Taken(i) EXCEPT ![to] = [status |-> "OPEN", bal |-> issue[i].qty, res |-> 0]]
        /\ issue' = [issue EXCEPT ![i].status = "submitted"]
        /\ seen' = [seen EXCEPT ![i] = None]
        /\ overdrawn' = IF seen[i] > lot[issue[i].lot].bal THEN overdrawn \cup {issue[i].lot}
                        ELSE overdrawn
        /\ UNCHANGED <<alloc, sale>>

\* The lot gets back the status it had when the document was written.
GivenBack(i) ==
    LET l == issue[i].lot
    IN  [lot EXCEPT ![l].bal = @ + issue[i].qty, ![l].status = issue[i].prev]

\* What was converted has to be there still, reserved or not.
CancelIssue(i) ==
    LET to == issue[i].to
    IN  /\ issue[i].status = "submitted"
        /\ to # None => lot[to].bal = issue[i].qty
        /\ lot' = IF to = None THEN GivenBack(i)
                  ELSE [GivenBack(i) EXCEPT ![to] = [status |-> "CANCELLED", bal |-> 0, res |-> 0]]
        /\ issue' = [issue EXCEPT ![i].status = "cancelled"]
        /\ UNCHANGED <<alloc, sale, seen, overdrawn>>

-----------------------------------------------------------------------------
Next ==
    \/ \E l \in Lots : ReceiveLot(l) \/ CancelReceipt(l)
    \/ \E a \in Allocs :
         \/ \E q \in Quantities : Reserve(a, q)
         \/ TimePasses(a) \/ Release(a) \/ ExpireDue(a)
         \/ Advance(a) \/ MarkPrinted(a) \/ PrintStarts(a) \/ CancelInvoice(a)
    \/ \E A \in SUBSET Allocs : PrepareCheckout(A)
    \/ PrintEnds \/ Compensate
    \/ \E s \in {"CAPTURED", "UNKNOWN", "REFUNDED"} : UpdatePaymentState(s)
    \/ \E i \in Issues :
         \/ \E l \in Lots, q \in Quantities, to \in OwnLots \cup {None} : DraftIssue(i, l, q, to)
         \/ BeginSubmit(i) \/ SubmitIssue(i) \/ CancelIssue(i)

Spec == Init /\ [][Next]_vars

-----------------------------------------------------------------------------
\* RESERVATION_BALANCE findings of audit_financial_integrity.
Reserving         == {a \in Allocs : alloc[a].status = "RESERVED"}
ReservationIssues == {l \in Lots : lot[l].status # None /\ lot[l].res # Slices(Reserving)[l]}

-----------------------------------------------------------------------------
(* Properties.                                                             *)

\* A lot counts as reserved what its open allocations hold, neither more nor less,
\* whatever was consumed, released, expired or compensated meanwhile.  (The receipt
\* of a lot can be cancelled under its reservations; they are then counted nowhere.)
HeldIsCounted == \A l \in ReservationIssues : lot[l].status = "CANCELLED"

\* What a lot has reserved is there: the lock on the lot closes "the race with FIFO
\* reservation and checkout submission" (validate_partner_return_availability).
ReservedIsThere ==
    \A l \in Lots : lot[l].status # None => lot[l].res <= lot[l].bal

\* A reservation is a promise: until it is due, and unless the receipt of its lots
\* is cancelled, it can be finished and its stock is there to be invoiced, whoever
\* sold, returned or converted stock of the same lots meanwhile.  The one exception
\* is a lot that an issue took from on a balance it had read before it waited.
PromiseIsKept ==
    \A a \in Allocs :
      (/\ alloc[a].status = "RESERVED"
       /\ \A l \in Lots : alloc[a].slices[l] > 0 => lot[l].status # "CANCELLED")
      => CanFinish({a}) /\ \A l \in Lots \ overdrawn : alloc[a].slices[l] <= lot[l].bal

\* A checkout is undone as a whole: while it counts as compensated none of its
\* routes has stock, reserved or sold, or can be invoiced.  (Its prints are another
\* matter: CancelledIsNotPrinted.)
CompensatedIsUndone ==
    checkout.status = "COMPENSATED" =>
      \A a \in Routes : /\ route[a] \notin {"PLANNED", "PRINT_PENDING"}
                       /\ invoice[a] # "submitted" /\ alloc[a].status # "RESERVED"

\* "Cancelled POS print job cannot succeed" (mark_print_job_succeeded).
CancelledIsNotPrinted ==
    [][\A a \in Allocs : job[a].status = "CANCELLED" => job'[a].status # "SUCCEEDED"]_vars
=============================================================================
