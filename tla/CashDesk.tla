-------------------------------- MODULE CashDesk --------------------------------
(***************************************************************************)
(* One cash desk between the payments: its operational shift and drawer    *)
(* (open_shift, close_shift_confirm, create_order, cash_operation of       *)
(* ua_pos/api.py) and the print queue of its receipts                      *)
(* (ua_pos/print_service.py).  How an order is paid is module POSCheckout. *)
(*                                                                         *)
(* A request reads in the snapshot of its transaction and writes at its    *)
(* end; only the row of the desk and the row of the open shift are locked  *)
(* in between.                                                             *)
(***************************************************************************)
EXTENDS Integers, FiniteSets, FiniteSetsExt, Bags

CONSTANTS
    Orders,             \* POS Orders
    Moves,              \* idempotency keys of cash_operation
    AmountOf,           \* what a cash operation adds to the drawer: not 0
    PrintKeys,          \* idempotency keys of queue_receipt_print
    Workers,            \* the RQ workers of the short queue
    MaxShifts,          \* bound: shifts opened
    MaxRequests,        \* bound: requests served at the same time
    MaxAttempts,        \* max_attempts of the printer
    Float               \* the cash a shift opens with

ASSUME DeskAssumption ==
    /\ AmountOf \in [Moves -> Int \ {0}]
    /\ MaxShifts \in Nat /\ MaxRequests \in Nat /\ MaxAttempts \in Nat \ {0}
    /\ Float \in Nat
    /\ "original" \notin PrintKeys /\ "scheduler" \notin Workers

VARIABLES
    shift,     \* POS Operational Shift: status
    moves,     \* POS Cash Movement: the shift of each operation, 0 if there is none
    order,     \* POS Order: status and shift
    printer,   \* has the desk a receipt printer?
    job,       \* POS Print Job: status, attempts; and the papers that came out of the printer
    rq,        \* entries of the short queue
    listed,    \* the queued job, with its attempts, in the snapshot of process_print_queue
    worker,    \* what each worker, and the scheduler, is printing
    repeated,  \* history: jobs taken from an outdated list, or swept with an entry in the queue
    requests   \* the requests in progress: a bag

money == <<shift, moves>>
print == <<job, rq, listed, worker, repeated>>
vars  == <<shift, moves, order, printer, job, rq, listed, worker, repeated, requests>>

\* A job is named by its order, its key and whether it is a copy.
Jobs     == Orders \X ({"original"} \cup PrintKeys) \X BOOLEAN
Original(o) == <<o, "original", FALSE>>
IsCopy(j) == j[3]
Shifts   == 1 .. MaxShifts
Printers == Workers \cup {"scheduler"}
NoJob    == [status |-> "None", attempts |-> 0, papers |-> 0]

Init ==
    /\ shift = [s \in Shifts |-> "None"]
    /\ moves = [m \in Moves |-> 0]
    /\ order = [o \in Orders |-> [status |-> "None", shift |-> 0]]
    /\ printer \in BOOLEAN
    /\ job = [j \in Jobs |-> NoJob]
    /\ rq = {} /\ listed = {}
    /\ worker = [w \in Printers |-> {}] /\ repeated = {}
    /\ requests = EmptyBag

-----------------------------------------------------------------------------
(* The shift and its drawer.                                               *)

Open       == {s \in Shifts : shift[s] = "Open"}
\* active_shift: the latest open one, 0 if there is none.
ActiveShift == IF Open = {} THEN 0 ELSE CHOOSE s \in Open : \A t \in Open : t =< s
Balance(s) == Float + MapThenSumSet(LAMBDA m : AmountOf[m], {m \in Moves : moves[m] = s})
Finished   == {"None", "Completed", "Cancelled"}
Unfinished(s) == {o \in Orders : order[o].shift = s /\ order[o].status \notin Finished}

\* The transaction begins and reads the open shift.
Begin(op, ref) ==
    /\ BagCardinality(requests) < MaxRequests
    /\ requests' = requests (+) SetToBag({[op |-> op, ref |-> ref, shift |-> ActiveShift]})
    /\ UNCHANGED <<money, order, printer, print>>
End(q) == requests' = requests (-) SetToBag({q})

\* (A shift more than MaxShifts is not asked for.)
BeginOpen      == shift[MaxShifts] = "None" /\ Begin("open_shift", "none")
BeginClose     == /\ ActiveShift # 0 /\ Unfinished(ActiveShift) = {}
                  /\ Begin("close_shift_confirm", "none")
BeginCash(m)   == /\ ActiveShift # 0 /\ moves[m] = 0
                  /\ AmountOf[m] > 0 \/ Balance(ActiveShift) + AmountOf[m] >= 0
                  /\ Begin("cash_operation", m)
BeginCreate(o) == /\ ActiveShift # 0 /\ order[o].status = "None"
                  /\ Begin("create_order", o)

\* Bug: the open shift is looked up in the snapshot.
SeenNoShift(q) == q.shift = 0
NoShiftOpen(q) == ActiveShift = 0

\* open_shift: under the locks of the desk and of its open shift.
OpenShift(q) ==
    /\ q.op = "open_shift" /\ NoShiftOpen(q)
    /\ \E s \in Shifts :
          /\ shift[s] = "None" /\ \A t \in 1 .. (s - 1) : shift[t] # "None"
          /\ shift' = [shift EXCEPT ![s] = "Open"]
    /\ End(q)
    /\ UNCHANGED <<moves, order, printer, print>>

\* close_shift_confirm: the shift is locked, its orders are those of the snapshot;
\* a shift that the snapshot does not know cannot be loaded.
CloseShift(q) ==
    LET s == q.shift IN
    /\ q.op = "close_shift_confirm" /\ s = ActiveShift
    /\ shift' = [shift EXCEPT ![s] = "Closed"]
    /\ End(q)
    /\ UNCHANGED <<moves, order, printer, print>>

\* cash_operation: the unique key refuses a second movement.
CashOperation(q) ==
    LET m == q.ref IN
    /\ q.op = "cash_operation"
    /\ moves[m] = 0
    /\ moves' = [moves EXCEPT ![m] = q.shift]
    /\ End(q)
    /\ UNCHANGED <<shift, order, printer, print>>

CreateOrder(q) ==
    LET o == q.ref IN
    /\ q.op = "create_order"
    /\ order[o].status = "None"
    /\ order' = [order EXCEPT ![o] = [status |-> "Building", shift |-> q.shift]]
    /\ End(q)
    /\ UNCHANGED <<money, printer, print>>

-----------------------------------------------------------------------------
(* Orders, and the jobs that print their receipts.                         *)

SetOrder(o, status) == order' = [order EXCEPT ![o].status = status]
Enqueue(j) ==
    /\ job' = [job EXCEPT ![j] = [NoJob EXCEPT !.status = "Queued"]]
    /\ rq' = rq \cup {j}

\* The end of a payment: _queue_print_if_configured gives the order its original,
\* unless the printer is disabled or the receipt cannot be rendered.
CompleteOrder(o) ==
    /\ order[o].status = "Building"
    /\ \/ ~printer /\ SetOrder(o, "Completed") /\ UNCHANGED <<job, rq>>
       \/ printer /\ SetOrder(o, "Printing") /\ Enqueue(Original(o))
       \/ printer /\ SetOrder(o, "Completed Print Error") /\ UNCHANGED <<job, rq>>
    /\ UNCHANGED <<money, printer, listed, worker, repeated, requests>>

CancelOrder(o) ==
    /\ order[o].status = "Building" /\ SetOrder(o, "Cancelled")
    /\ UNCHANGED <<money, printer, print, requests>>

\* queue_receipt_print: a copy if the order has an original; the same key finds its
\* job, and an original that is not printed yet takes the order back to Printing.
QueuePrint(o, k) ==
    LET j == <<o, k, job[Original(o)] # NoJob>> IN
    /\ printer
    /\ order[o].status \in {"Printing", "Completed", "Completed Print Error"}
    /\ IF job[j] = NoJob THEN Enqueue(j) ELSE UNCHANGED <<job, rq>>
    /\ IF ~IsCopy(j) /\ job'[j].status \in {"Queued", "Printing"}
       THEN SetOrder(o, "Printing") ELSE UNCHANGED order
    /\ UNCHANGED <<money, printer, listed, worker, repeated, requests>>

\* A request is refused, or fails, and leaves nothing.
Drop(q) ==
    /\ End(q)
    /\ UNCHANGED <<money, order, printer, print>>

-----------------------------------------------------------------------------
(* process_print_job, run by a worker for an entry of the queue and by the *)
(* scheduler for every job that is Queued.                                 *)

SetJob(j, status) == job' = [job EXCEPT ![j].status = status]
Rest(w)           == worker' = [worker EXCEPT ![w] = {}]

\* Committed before the paper is printed.  (Attempts are counted up to MaxAttempts.)
StartPrinting(w, j, attempts) ==
    /\ worker[w] = {} /\ worker' = [worker EXCEPT ![w] = {j}]
    /\ job' = [job EXCEPT ![j] = [@ EXCEPT !.status = "Printing", !.attempts = Min({attempts, MaxAttempts})]]
    /\ UNCHANGED <<money, order, printer, requests>>

Printable(status) == status \in {"Queued", "Failed"}

\* A worker locks the row before it reads it.
PrintStart(w, j) ==
    /\ j \in rq /\ rq' = rq \ {j}
    /\ Printable(job[j].status)
    /\ StartPrinting(w, j, job[j].attempts + 1)
    /\ UNCHANGED <<listed, repeated>>

\* The entry comes while the job is printed, after it or before its next_retry_at.
PrintLater(w, j) ==
    /\ worker[w] = {} /\ j \in rq
    /\ ~Printable(job[j].status) \/ (job[j].status = "Queued" /\ job[j].attempts > 0)
    /\ rq' = rq \ {j}
    /\ UNCHANGED <<money, order, printer, job, listed, worker, repeated, requests>>

\* The scheduler has read the list of the queued jobs, and with it its snapshot.
List(j) ==
    /\ listed = {} /\ worker["scheduler"] = {} /\ job[j].status = "Queued"
    /\ listed' = {<<j, job[j].attempts>>}
    /\ UNCHANGED <<money, order, printer, job, rq, worker, repeated, requests>>
Current(j) == job[j].status = "Queued" /\ <<j, job[j].attempts>> \in listed

\* It locks the row, and prints it if the snapshot says that it is Queued.
PrintListed(j) ==
    /\ \E attempts \in 0 .. MaxAttempts :
          /\ <<j, attempts>> \in listed
          /\ StartPrinting("scheduler", j, attempts + 1)
    /\ repeated' = IF job[j].status = "Queued" THEN repeated ELSE repeated \cup {j}
    /\ listed' = {}
    /\ UNCHANGED rq
\* With innodb_snapshot_isolation the lock is refused if the row changed.
ListOutdated ==
    /\ \E l \in listed : ~Current(l[1])
    /\ listed' = {}
    /\ UNCHANGED <<money, order, printer, job, rq, worker, repeated, requests>>

\* What a job that ended says of its order; copies say nothing.
Report(j, status) == IF IsCopy(j) THEN UNCHANGED order ELSE SetOrder(j[1], status)

PrintDone(w) == \E j \in worker[w] :
    /\ job' = [job EXCEPT ![j] = [@ EXCEPT !.status = "Done", !.papers = job[j].papers + 1]]
    /\ Report(j, "Completed")
    /\ Rest(w)
    /\ UNCHANGED <<money, printer, rq, listed, repeated, requests>>

\* An exception: nothing was printed.
PrintFails(w) == \E j \in worker[w] :
    /\ \/ /\ job[j].attempts < MaxAttempts
          /\ SetJob(j, "Queued") /\ UNCHANGED order
       \/ /\ job[j].attempts >= MaxAttempts
          /\ SetJob(j, "Failed") /\ Report(j, "Completed Print Error")
    /\ Rest(w)
    /\ UNCHANGED <<money, printer, rq, listed, repeated, requests>>

\* The worker dies before the paper came out or after it.
WorkerDies(w) == \E j \in worker[w] :
    /\ \E paper \in {0, 1} : job' = [job EXCEPT ![j].papers = @ + paper]
    /\ Rest(w)
    /\ UNCHANGED <<money, order, printer, rq, listed, repeated, requests>>

\* Bugs: an interrupted print is tried again; or only its job is closed.
Stale(j) ==
    /\ worker["scheduler"] = {}
    /\ job[j].status = "Printing" /\ \A w \in Printers : j \notin worker[w]
SweepRequeues(j) ==
    /\ Stale(j) /\ SetJob(j, "Queued")
    /\ listed' = {}
    /\ UNCHANGED <<money, order, printer, rq, worker, repeated, requests>>
SweepForgets(j) ==
    /\ Stale(j) /\ SetJob(j, "Failed")
    /\ repeated' = repeated \cup ({j} \cap rq)
    /\ listed' = {}
    /\ UNCHANGED <<money, order, printer, rq, worker, requests>>
\* process_print_queue: a job that is Printing for ten minutes has lost its worker,
\* whose calls time out earlier; whether it printed nobody knows.  A new call, which
\* does not know the list of the one before.
Sweep(j) ==
    /\ Stale(j) /\ SetJob(j, "Failed") /\ Report(j, "Completed Print Error")
    /\ repeated' = repeated \cup ({j} \cap rq)
    /\ listed' = {}
    /\ UNCHANGED <<money, printer, rq, worker, requests>>

AddPrinter ==
    /\ ~printer /\ printer' = TRUE
    /\ UNCHANGED <<money, order, print, requests>>

-----------------------------------------------------------------------------
Next ==
    \/ BeginOpen \/ BeginClose
    \/ (\E m \in Moves : BeginCash(m)) \/ (\E o \in Orders : BeginCreate(o))
    \/ \E q \in BagToSet(requests) :
          OpenShift(q) \/ CloseShift(q) \/ CashOperation(q) \/ CreateOrder(q) \/ Drop(q)
    \/ \E o \in Orders : CompleteOrder(o) \/ CancelOrder(o) \/ \E k \in PrintKeys : QueuePrint(o, k)
    \/ \E w \in Workers, j \in rq : PrintStart(w, j) \/ PrintLater(w, j)
    \/ \E j \in Jobs : List(j) \/ PrintListed(j)
    \/ ListOutdated
    \/ \E w \in Printers : PrintDone(w) \/ PrintFails(w) \/ WorkerDies(w)
    \/ \E j \in Jobs : Sweep(j)
    \/ AddPrinter

Spec == Init /\ [][Next]_vars

\* process_print_queue runs every minute and a print ends; the short queue may rest.
FairSpec ==
    /\ Spec
    /\ WF_vars(ListOutdated \/ \E j \in Jobs : List(j) \/ PrintListed(j) \/ Sweep(j))
    /\ WF_vars(\E w \in Printers : PrintDone(w) \/ PrintFails(w))

-----------------------------------------------------------------------------
(* Properties.                                                             *)

Request == [op : {"open_shift", "close_shift_confirm", "cash_operation", "create_order"},
            ref : Moves \cup Orders \cup {"none"}, shift : {0} \cup Shifts]

\* Every record keeps the fields and values of its DocType.
TypeOK ==
    /\ shift \in [Shifts -> {"None", "Open", "Closed"}]
    /\ moves \in [Moves -> {0} \cup Shifts]
    /\ order \in [Orders -> [status : {"None", "Building", "Cancelled", "Printing", "Completed",
                                       "Completed Print Error"}, shift : {0} \cup Shifts]]
    /\ printer \in BOOLEAN
    /\ job \in [Jobs -> [status : {"None", "Queued", "Printing", "Done", "Failed"},
                         attempts : Nat, papers : Nat]]
    /\ rq \subseteq Jobs /\ listed \subseteq Jobs \X Nat
    /\ worker \in [Printers -> SUBSET Jobs] /\ repeated \subseteq Jobs
    /\ BagToSet(requests) \subseteq Request

\* A cash desk has one open shift, although two cashiers may open or close it at the
\* same moment (docs/pos/04-state-machines.md), and the shifts follow one another.
OneOpenShift ==
    \A s, t \in Shifts : s < t /\ shift[t] # "None" => shift[s] = "Closed"

\* A job is Done only with a paper and an order that was to be printed is Completed only
\* on paper, whoever runs the job, dies or comes again; and it prints one receipt at the
\* most, unless the scheduler took it from a list that was outdated or failed it while an
\* entry of the queue was still to come.
PrintedOnce ==
    /\ \A j \in Jobs : /\ job[j].status = "Done" => job[j].papers >= 1
                       /\ j \notin repeated => job[j].papers =< 1
    /\ \A o \in Orders :
          LET own == {j \in Jobs : j[1] = o /\ ~IsCopy(j) /\ job[j] # NoJob}
          IN  order[o].status = "Completed" /\ own # {} => \E j \in own : job[j].papers >= 1

\* An order does not stay Printing: again and again, whatever is printed and repeated, its
\* receipt has come out or the cashier has been told.
PrintSettles == \A o \in Orders : []<>(order[o].status # "Printing")

\* process_print_queue "never blindly repeats an uncertain stale print", and no other
\* does: the two exceptions of PrintedOnce are none.
NeverTwice == \A j \in Jobs : job[j].papers =< 1

\* docs/pos/04-state-machines.md: closing is blocked by an unfinished order.
ClosedIsFinished == \A s \in Shifts : shift[s] = "Closed" => Unfinished(s) = {}

\* close_shift_confirm stores the cash that ought to be in the drawer: no movement
\* comes to the shift after that.
ClosedCountsAll ==
    [][\A m \in Moves : moves'[m] # moves[m] => shift[moves'[m]] = "Open"]_vars

\* cash_operation refuses to take more than the drawer holds.
NeverOverdrawn == \A s \in Shifts : Balance(s) >= 0

\* queue_receipt_print: "queue original/reprint safely" - one paper is not a copy.
OneOriginal ==
    \A o \in Orders :
        MapThenSumSet(LAMBDA j : job[j].papers, {j \in Jobs : j[1] = o /\ ~IsCopy(j)}) =< 1

\* docs/pos/04-state-machines.md: a repeated print completes an order whose print failed.
ReprintCompletes ==
    \A o \in Orders : order[o].status = "Completed Print Error" =>
        \A j \in Jobs : j[1] = o => job[j].status # "Done"
=============================================================================
