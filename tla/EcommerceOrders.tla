--------------------------- MODULE EcommerceOrders ---------------------------
(***************************************************************************)
(* The exchange of orders with an ocStore shop (ecommerce): files of order *)
(* rows appear on FTP, importers turn each row into standard documents by  *)
(* the action its status is mapped to, commit the file as a whole and only *)
(* then remove it.  Importers run from the scheduler and from a button, on *)
(* the same list.  A paid order also gets a Payment Entry and, where the   *)
(* PRRO is enabled, a fiscal receipt.                                      *)
(*                                                                         *)
(* An importer works in a transaction: what it reads is the database as it *)
(* was at its first read (base), with its own writes applied (work).  What *)
(* a transaction changed is locked until it ends.                          *)
(***************************************************************************)
EXTENDS Integers, Sequences, FiniteSets, FiniteSetsExt

CONSTANTS
    Orders,      \* channel_order_ids of one shop
    Contents,    \* the files the shop writes, in order: sequences of rows
    Channels,    \* settings of the channel: does it fulfil through the group
                 \* stock, is the PRRO enabled, what is not mapped at first
    Scheduled,   \* the importer the scheduler enqueues, one at a time
    Desk,        \* the importer of import_orders_now
    DeskRuns,    \* how often the button is pressed
    MaxFaults,   \* crashes, lost answers and stops of a fulfilment
    MaxCancels,  \* Payment Entries the desk cancels
    None

Files     == DOMAIN Contents
Importers == {Scheduled, Desk}
Actions   == {"SalesOrder", "SalesInvoice", "Converge", "UpdateStatus", "Ignore"}

ASSUME EcommerceAssumption ==
    /\ \A f \in Files : Contents[f] \in Seq([order : Orders, action : Actions])
                        /\ Contents[f] # << >>
    /\ \A c \in Channels : /\ {c.fulfils, c.prro} \subseteq BOOLEAN
                           /\ c.unmapped \in [Orders -> {None, "item", "route"}]
    /\ Scheduled # Desk /\ None \notin Importers
    /\ {DeskRuns, MaxFaults, MaxCancels} \subseteq Nat

VARIABLES
    setup,     \* the settings of the channel
    problem,   \* per order: what the desk has yet to map
    sent,      \* how many files the shop has written
    remote,    \* the files on FTP
    db,        \* per order: what is committed
    imp,       \* per importer: its place in the run
    base, work,  \* per importer: its snapshot, and the same with its writes
    recovering,  \* invoices a run of recover_pending_ecommerce_receipts listed
    used       \* presses of the button, faults and cancellations so far

vars == <<setup, problem, sent, remote, db, imp, base, work, recovering, used>>

Document == {None, "Draft", "Submitted"}
Receipt  == {None, "Pending", "Error", "Uncertain", "Fiscalized"}
\* Sales Order and Sales Invoice under the order's key, submitted Payment
\* Entries of the invoice, the Integration Operation of the payment, a Success
\* log, the PRRO Receipt, ua_ecommerce_fiscal_status of the invoice.
Record == [so : Document, si : Document, paid : 0..2,
           op : {None, "started", "failed", "reconciled"}, log : BOOLEAN,
           receipt : Receipt \ {"Pending"}, fiscal : Receipt]
Idle   == [pc |-> "idle", todo |-> {}, row |-> 0]

TypeOK ==
    /\ setup \in Channels
    /\ problem \in [Orders -> {None, "item", "route"}]
    /\ sent \in 0..Len(Contents) /\ remote \subseteq 1..sent
    /\ db \in [Orders -> Record]
    /\ imp \in [Importers ->
            [pc : {"idle", "file", "row", "sell", "pay", "fiscal", "note", "delete"},
             todo : SUBSET Files, row : Nat]]
    /\ \A w \in Importers : base[w] = None <=> work[w] = None
    /\ \A w \in Importers : base[w] # None => {base[w], work[w]} \subseteq [Orders -> Record]
    /\ recovering \subseteq Orders
    /\ used \in [desk : 0..DeskRuns, fault : 0..MaxFaults, cancel : 0..MaxCancels]

Init ==
    /\ setup \in Channels
    /\ problem = setup.unmapped
    /\ sent = 0 /\ remote = {}
    /\ db = [o \in Orders |-> [so |-> None, si |-> None, paid |-> 0, op |-> None,
                               log |-> FALSE, receipt |-> None, fiscal |-> None]]
    /\ imp = [w \in Importers |-> Idle]
    /\ base = [w \in Importers |-> None] /\ work = base
    /\ recovering = {}
    /\ used = [desk |-> 0, fault |-> 0, cancel |-> 0]

File(w)   == Min(imp[w].todo)
Row(w)    == Contents[File(w)][imp[w].row]
Goto(w, pc) == imp' = [imp EXCEPT ![w].pc = pc]
Fault     == /\ used.fault < MaxFaults
             /\ used' = [used EXCEPT !.fault = @ + 1]

----------------------------------------------------------------------------
(* Transactions.                                                           *)

Seen(w)    == IF work[w] = None THEN db ELSE work[w]
Snapshot(w)  == IF base[w] = None THEN db ELSE base[w]
Touched(b, k, o) == {f \in DOMAIN k[o] : k[o][f] # b[o][f]}

\* Rows of o another open transaction has written; a log row is nobody's.
Locked(w, o) == \E v \in Importers \ {w} :
    work[v] # None /\ Touched(base[v], work[v], o) \ {"log"} # {}

\* w's view with o's record r is one that InnoDB and the check of the time
\* stamp accept: what r changes was not changed since the snapshot.
Conflicts(w, o, r) == \E f \in {g \in DOMAIN r \ {"log"} : r[g] # Seen(w)[o][g]} :
    db[o][f] # Snapshot(w)[o][f]

Write(w, o, r) ==
    /\ base' = [base EXCEPT ![w] = Snapshot(w)]
    /\ work' = [work EXCEPT ![w] = [Seen(w) EXCEPT ![o] = r]]

\* What is committed when w commits the view k.
Merged(w, k) == [o \in Orders |-> [f \in DOMAIN db[o] |->
    IF f \in Touched(Snapshot(w), k, o) THEN k[o][f] ELSE db[o][f]]]

Close(w) ==
    /\ base' = [base EXCEPT ![w] = None]
    /\ work' = [work EXCEPT ![w] = None]

CommitWith(w, o, r) == db' = Merged(w, [Seen(w) EXCEPT ![o] = r]) /\ Close(w)

\* The next file of the list, or the end of the run.
NextFile(w) == LET rest == imp[w].todo \ {File(w)} IN
    imp' = [imp EXCEPT ![w] = IF rest = {} THEN Idle
                              ELSE [pc |-> "file", todo |-> rest, row |-> 0]]

\* Bug: only the row is given up and the file goes on.
FailRow(w) == /\ imp' = [imp EXCEPT ![w].pc = "row", ![w].row = @ + 1]
              /\ UNCHANGED <<db, remote, base, work>>

\* Any exception: the transaction of the whole file is rolled back, a Failed
\* log is committed and the file stays.
Fail(w) == Close(w) /\ NextFile(w) /\ UNCHANGED <<db, remote>>

----------------------------------------------------------------------------
(* A run of import_order_files.                                            *)

\* The shop's export puts its next file on FTP.
Send == /\ sent < Len(Contents)
        /\ sent' = sent + 1 /\ remote' = remote \cup {sent + 1}
        /\ UNCHANGED <<setup, problem, db, imp, base, work, recovering, used>>

\* The settings are read first, so the first file is imported in the snapshot
\* the run began with.
Start(w) ==
    /\ imp[w].pc = "idle" /\ remote # {}
    /\ imp' = [imp EXCEPT ![w] = [pc |-> "file", todo |-> remote, row |-> 0]]
    /\ base' = [base EXCEPT ![w] = db] /\ work' = [work EXCEPT ![w] = db]
    /\ \/ w = Scheduled /\ UNCHANGED used
       \/ /\ w = Desk /\ used.desk < DeskRuns
          /\ used' = [used EXCEPT !.desk = @ + 1]
    /\ UNCHANGED <<setup, problem, sent, remote, db, recovering>>

Download(w) ==
    /\ imp[w].pc = "file"
    /\ \/ /\ File(w) \in remote
          /\ imp' = [imp EXCEPT ![w].pc = "row", ![w].row = 1]
          /\ UNCHANGED <<remote, db, base, work>>
       \/ File(w) \notin remote /\ Fail(w)
    /\ UNCHANGED <<setup, problem, sent, recovering, used>>

HasDocuments(r) == r.so # None \/ r.si # None
Existing(r)     == HasDocuments(r) \/ r.log
Log(r)          == [r EXCEPT !.log = TRUE]
NextRow(w)      == imp' = [imp EXCEPT ![w].pc = "row", ![w].row = @ + 1]

\* What _intake_order makes of a row before fulfilment and payment.
Ordered(r)  == [r EXCEPT !.so = "Submitted"]
Invoiced(r) == [r EXCEPT !.si = IF @ # None THEN @
                                ELSE IF setup.fulfils THEN "Draft" ELSE "Submitted"]
Refused(a, r, o) ==
    \/ a = "UpdateStatus" /\ ~Existing(r)
    \/ a = "Converge" /\ r.log /\ ~HasDocuments(r)
    \/ a \in {"SalesOrder", "SalesInvoice"} /\ ~Existing(r) /\ problem[o] = "item"
    \/ a = "Converge" /\ r.so = None /\ problem[o] = "item"

\* Rows that leave the documents alone: ignored, found, their status updated.
Passed(a, r) == \/ a = "Ignore"
                \/ a \in {"UpdateStatus", "SalesOrder", "SalesInvoice"} /\ Existing(r)

Target(a, r) == CASE a = "SalesOrder"   -> Ordered(r)
                  [] a = "SalesInvoice" -> Invoiced(r)
                  [] a = "Converge"     -> Invoiced(Ordered(r))

\* A Sales Order is submitted at once only where its status reserves stock;
\* the checkout of the group stock commits before it sells a draft.
Make(w, o, a, n) ==
    CASE a = "SalesOrder" -> /\ \E s \in {"Draft", "Submitted"} :
                                    Write(w, o, Log([n EXCEPT !.so = s]))
                             /\ NextRow(w) /\ UNCHANGED db
      [] n.si = "Draft"   -> CommitWith(w, o, n) /\ Goto(w, "sell")
      [] a = "Converge"   -> Write(w, o, n) /\ Goto(w, "pay") /\ UNCHANGED db
      [] OTHER            -> Write(w, o, Log(n)) /\ NextRow(w) /\ UNCHANGED db

Intake(w) ==
    /\ imp[w].pc = "row" /\ imp[w].row <= Len(Contents[File(w)])
    /\ LET o == Row(w).order
           a == Row(w).action
           r == Seen(w)[o]
       IN  \/ /\ Passed(a, r) /\ (a = "UpdateStatus" => ~Locked(w, o))
              /\ Write(w, o, Log(r)) /\ NextRow(w) /\ UNCHANGED <<remote, db>>
           \/ Refused(a, r, o) /\ Fail(w)
           \/ /\ ~Passed(a, r) /\ ~Refused(a, r, o)
              /\ ~Locked(w, o) /\ ~Conflicts(w, o, Target(a, r))
              /\ Make(w, o, a, Target(a, r)) /\ UNCHANGED remote
           \* a unique key or a time stamp refuses it, or the lock is not got
           \/ /\ ~Passed(a, r) /\ ~Refused(a, r, o)
              /\ (Locked(w, o) \/ Conflicts(w, o, Target(a, r)))
              /\ Fail(w)
    /\ UNCHANGED <<setup, problem, sent, recovering, used>>

\* The checkout saga sells the draft, or stops and is resumed by a later run.
Sell(w) ==
    /\ imp[w].pc = "sell"
    /\ LET o == Row(w).order IN
       \/ /\ db' = [db EXCEPT ![o].si = "Submitted"]
          /\ Goto(w, IF Row(w).action = "Converge" THEN "pay" ELSE "note")
          /\ UNCHANGED <<remote, base, work, used>>
       \/ Fault /\ Fail(w)
    /\ UNCHANGED <<setup, problem, sent, recovering>>

\* _create_payment: an entry that is there is taken, a finished operation is
\* believed, an unfinished one refused, and otherwise one is submitted.  Its
\* hook starts the fiscal job, which commits.
\* Bug: submitted entries of the invoice are not looked for.
DueBlind(r) == r.op \in {None, "failed"}
Due(r)     == r.paid = 0 /\ r.op \in {None, "failed"}
Fiscal(r)  == setup.prro /\ r.receipt \in {None, "Error"}
Settled(r) == [r EXCEPT !.op = "reconciled", !.log = TRUE]
Paid(r)    == [r EXCEPT !.paid = @ + 1, !.op = "started",
                        !.fiscal = IF ~setup.prro THEN @
                                   ELSE IF Fiscal(r) THEN "Pending" ELSE r.receipt]
Pay(w) ==
    /\ imp[w].pc = "pay"
    /\ LET o == Row(w).order
           r == Seen(w)[o]
           n == IF Due(r) THEN Paid(r) ELSE Settled(r)
           stopped == \/ problem[o] = "route" \/ (r.paid = 0 /\ r.op = "started")
                      \/ Locked(w, o) \/ Conflicts(w, o, n)
       IN  \/ stopped /\ Fail(w)
           \/ /\ ~stopped /\ Due(r) /\ Fiscal(r)
              /\ CommitWith(w, o, n) /\ Goto(w, "fiscal") /\ UNCHANGED remote
           \/ /\ ~stopped /\ ~(Due(r) /\ Fiscal(r))
              /\ Write(w, o, Settled(n)) /\ NextRow(w) /\ UNCHANGED <<remote, db>>
    /\ UNCHANGED <<setup, problem, sent, recovering, used>>

\* process_job and the register behind it, which commit; only a completed
\* receipt is final.
Outcome(r) == IF r.receipt = "Fiscalized" THEN {"Fiscalized"}
              ELSE {"Fiscalized", "Error", "Uncertain"}
Answer(x)  == IF x = "Fiscalized" THEN UNCHANGED used ELSE Fault

Fiscalize(w) ==
    /\ imp[w].pc = "fiscal"
    /\ LET o == Row(w).order IN \E x \in Outcome(db[o]) :
           db' = [db EXCEPT ![o].receipt = x] /\ Answer(x)
    /\ Goto(w, "note")
    /\ UNCHANGED <<setup, problem, sent, remote, base, work, recovering>>

\* What is left to write of a row after a commit in its middle.
Note(w) ==
    /\ imp[w].pc = "note"
    /\ LET o == Row(w).order
           r == Seen(w)[o]
           stopped == r.op # "started" \/ Locked(w, o)
       IN  \/ /\ Row(w).action = "SalesInvoice"
              /\ Write(w, o, Log(r)) /\ NextRow(w) /\ UNCHANGED <<remote, db>>
           \/ /\ Row(w).action = "Converge" /\ ~stopped
              /\ Write(w, o, [Settled(r) EXCEPT !.fiscal = r.receipt])
              /\ NextRow(w) /\ UNCHANGED <<remote, db>>
           \/ Row(w).action = "Converge" /\ stopped /\ Fail(w)
    /\ UNCHANGED <<setup, problem, sent, recovering, used>>

\* "every ERP document and per-order Success log is committed before the
\* inbound file is deleted"
Commit(w) ==
    /\ imp[w].pc = "row" /\ imp[w].row > Len(Contents[File(w)])
    /\ db' = Merged(w, Seen(w)) /\ Close(w) /\ Goto(w, "delete")
    /\ UNCHANGED <<setup, problem, sent, remote, recovering, used>>

\* The deletion answers, or its outcome is unknown: the file is gone or not.
Delete(w) ==
    /\ imp[w].pc = "delete" /\ NextFile(w)
    /\ \/ remote' = remote \ {File(w)} /\ UNCHANGED used
       \/ Fault /\ UNCHANGED remote
    /\ UNCHANGED <<setup, problem, sent, db, base, work, recovering>>

Crash(w) ==
    /\ imp[w].pc # "idle" /\ Fault
    /\ imp' = [imp EXCEPT ![w] = Idle] /\ Close(w)
    /\ UNCHANGED <<setup, problem, sent, remote, db, recovering>>

Import(w) == \/ Download(w) \/ Intake(w) \/ Sell(w) \/ Pay(w) \/ Fiscalize(w)
             \/ Note(w) \/ Commit(w) \/ Delete(w)

----------------------------------------------------------------------------
(* The fiscal side and the desk.                                           *)

\* Bug: a receipt whose attempt was cut off counts as under way.
RetryableAnswered == {"Error", "Uncertain"}
Retryable == {"Pending", "Error", "Uncertain"}

\* Does an open transaction hold one of these fields of o?
Held(o, fs) == \E v \in Importers :
    work[v] # None /\ Touched(base[v], work[v], o) \cap fs # {}

\* recover_pending_ecommerce_receipts lists the paid invoices, then takes them
\* one at a time without looking at the payment again.
List ==
    /\ setup.prro /\ recovering = {}
    /\ recovering' = {o \in Orders : /\ db[o].si = "Submitted" /\ db[o].paid > 0
                                     /\ db[o].fiscal \in Retryable}
    /\ recovering' # {}
    /\ UNCHANGED <<setup, problem, sent, remote, db, imp, base, work, used>>

Recover(o) ==
    /\ o \in recovering /\ ~Held(o, {"fiscal"})
    /\ recovering' = recovering \ {o}
    /\ LET r == db[o] IN
       \/ /\ r.receipt \in {"Fiscalized", "Uncertain"}
          /\ db' = [db EXCEPT ![o].fiscal = r.receipt] /\ UNCHANGED used
       \/ /\ r.receipt \in {None, "Error"}
          /\ \E x \in Outcome(r) :
                db' = [db EXCEPT ![o].receipt = x, ![o].fiscal = x] /\ Answer(x)
    /\ UNCHANGED <<setup, problem, sent, remote, imp, base, work>>

\* The register settles an uncertain receipt.
Certain(o) ==
    /\ db[o].receipt = "Uncertain"
    /\ \E x \in {"Fiscalized", "Error"} : db' = [db EXCEPT ![o].receipt = x]
    /\ UNCHANGED <<setup, problem, sent, remote, imp, base, work, recovering, used>>

\* before_payment_cancel refuses once a receipt is there.
CancelPayment(o) ==
    /\ db[o].paid > 0 /\ db[o].receipt \notin {"Fiscalized", "Uncertain"}
    /\ ~Held(o, {"paid", "op"}) /\ used.cancel < MaxCancels
    /\ db' = [db EXCEPT ![o].paid = @ - 1]
    /\ used' = [used EXCEPT !.cancel = @ + 1]
    /\ UNCHANGED <<setup, problem, sent, remote, imp, base, work, recovering>>

\* resolve_operation: the desk closes an operation a crash left started.
Resolve(o) ==
    /\ db[o].op = "started" /\ ~Held(o, {"op"})
    /\ \E x \in {"failed", "reconciled"} : db' = [db EXCEPT ![o].op = x]
    /\ UNCHANGED <<setup, problem, sent, remote, imp, base, work, recovering, used>>

\* The desk maps the product or the payment a Failed log names.
Map(o) ==
    /\ problem[o] # None
    /\ problem' = [problem EXCEPT ![o] = None]
    /\ UNCHANGED <<setup, sent, remote, db, imp, base, work, recovering, used>>

Next ==
    \/ Send \/ List
    \/ \E w \in Importers : Start(w) \/ Import(w) \/ Crash(w)
    \/ \E o \in Orders : Recover(o) \/ Certain(o) \/ CancelPayment(o) \/ Resolve(o) \/ Map(o)

\* Both importers run to their end and the scheduler comes again; so does the
\* recovery of receipts; the register settles what is uncertain and the desk
\* maps what is missing and closes what is left open.
Fairness ==
    /\ \A w \in Importers : WF_vars(Import(w))
    /\ WF_vars(Start(Scheduled)) /\ WF_vars(List)
    /\ WF_vars(\E o \in Orders : Recover(o)) /\ WF_vars(\E o \in Orders : Certain(o))
    /\ WF_vars(\E o \in Orders : Resolve(o)) /\ WF_vars(\E o \in Orders : Map(o))

Spec == Init /\ [][Next]_vars /\ Fairness

----------------------------------------------------------------------------
(* Properties.                                                             *)

Rows(f)      == {Contents[f][i] : i \in DOMAIN Contents[f]}
Ignorable(o) == \E f \in 1..sent : \E r \in Rows(f) : r = [order |-> o, action |-> "Ignore"]
Accepted(r)  == LET d == db[r.order] IN
    CASE r.action = "Converge" -> /\ d.so = "Submitted" /\ d.si = "Submitted"
                                  /\ d.op = "reconciled"
      [] r.action = "Ignore"   -> d.log
      [] OTHER                 -> HasDocuments(d) \/ Ignorable(r.order)

\* A file that is gone from FTP has left all its orders in ERP: a paid one with
\* its order, its invoice and a finished payment, whatever importers ran side
\* by side, failed, crashed or did not learn that the file was deleted
\* (_process_order_file: "committed before the inbound file is deleted").
RemovedIsAccepted == \A f \in (1..sent) \ remote : \A r \in Rows(f) : Accepted(r)

\* However often a paid order is delivered, two importers take it, or the desk
\* reopens its operation, its invoice has one submitted Payment Entry
\* (_create_payment, the unique key of Integration Operation).
PaidOnce == \A o \in Orders : db[o].paid <= 1

\* Every file is imported and removed in the end, and every paid order of a
\* shop with a PRRO has its receipt on record (import_order_files,
\* recover_pending_ecommerce_receipts).
ImportSettles == <>[](/\ remote = {}
                      /\ \A o \in Orders : (setup.prro /\ db[o].paid = 1)
                                            => db[o].fiscal = "Fiscalized")

\* Stated by the code, not kept by it (see the README).

\* "A fiscal receipt must be reversed with a return, not by deleting payment."
FiscalizedIsPaid == \A o \in Orders : db[o].receipt = "Fiscalized" => db[o].paid = 1

\* "Any failed row keeps the whole file on FTP": an order whose file is gone is
\* sold, not left a draft.
RemovedIsSold == \A f \in (1..sent) \ remote : \A r \in Rows(f) :
    r.action = "SalesInvoice" => db[r.order].si # "Draft"
=============================================================================
