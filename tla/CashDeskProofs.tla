--------------------------- MODULE CashDeskProofs ---------------------------
(* Proofs about CashDesk: one open shift, and one paper for a job, for any   *)
(* number of requests, orders, movements, keys, workers and shifts.          *)
EXTENDS CashDesk, TLAPS

ShiftInv == TypeOK /\ OneOpenShift

\* A job that is not repeated is held by one worker, who has printed nothing of it yet;
\* if it failed and may be on paper, it has no entry left in the queue.
JobInv ==
    /\ \A l \in listed : job[l[1]].status # "None"
    /\ \A j \in Jobs :
        /\ job[j].status = "Done" => job[j].papers >= 1
        /\ job[j].status = "None" <=> job[j] = NoJob
        /\ j \in rq => job[j].status # "None"
        /\ j \notin repeated =>
              /\ job[j].papers \in {0, 1}
              /\ job[j].status \in {"None", "Queued"} => job[j].papers = 0
              /\ j \in rq /\ job[j].status = "Failed" => job[j].papers = 0
WorkerInv ==
    \A w \in Printers : \A j \in worker[w] :
        /\ job[j].status # "None"
        /\ \A i \in worker[w] : i = j
        /\ j \notin repeated =>
              /\ job[j].status = "Printing" /\ job[j].papers = 0
              /\ \A v \in Printers : j \in worker[v] => v = w

\* An unpaid order has no jobs, and a completed one that has is on paper.
Own(o) == {j \in Jobs : j[1] = o /\ ~IsCopy(j) /\ job[j] # NoJob}
OrderInv ==
    \A o \in Orders :
        /\ order[o].status \in {"None", "Building"} => \A j \in Jobs : j[1] = o => job[j] = NoJob
        /\ order[o].status = "Completed" /\ Own(o) # {} => \E j \in Own(o) : job[j].papers >= 1

PrintInv == JobInv /\ WorkerInv /\ OrderInv
IInv == ShiftInv /\ PrintInv

-----------------------------------------------------------------------------
(* Types.                                                                    *)

LEMMA ActiveIsOpen ==
  ASSUME ShiftInv
  PROVE  /\ ActiveShift \in {0} \cup Open
         /\ ActiveShift = 0 => Open = {}
<1>1. CASE Open = {}
  BY <1>1 DEF ActiveShift
<1>2. CASE Open # {}
  <2>1. PICK s \in Open : TRUE
    BY <1>2
  <2>2. \A t \in Open : t = s
    BY <2>1, DeskAssumption DEF ShiftInv, OneOpenShift, Open, Shifts
  <2>3. s \in Nat
    BY <2>1, DeskAssumption DEF Open, Shifts
  <2>4. \A t \in Open : t =< s
    BY <2>2, <2>3
  <2>5. ActiveShift \in Open
    BY <1>2, <2>1, <2>4 DEF ActiveShift
  <2> QED BY <2>5, DeskAssumption DEF Open, Shifts
<1> QED BY <1>1, <1>2

LEMMA EndsAreRequests ==
  ASSUME NEW q, End(q), BagToSet(requests) \subseteq Request
  PROVE  BagToSet(requests') \subseteq Request
<1> QED BY DEF End, BagToSet, (-), SetToBag

LEMMA BeginsAreRequests ==
  ASSUME ShiftInv, NEW op, NEW ref, Begin(op, ref),
         op \in {"open_shift", "close_shift_confirm", "cash_operation", "create_order"},
         ref \in Moves \cup Orders \cup {"none"}
  PROVE  BagToSet(requests') \subseteq Request
<1> DEFINE q == [op |-> op, ref |-> ref, shift |-> ActiveShift]
<1>1. q \in Request
  BY ActiveIsOpen, DeskAssumption DEF Request, Open, Shifts
<1>2. BagToSet(requests') = BagToSet(requests) \cup {q}
  BY DEF Begin, BagToSet, (+), SetToBag
<1> QED BY <1>1, <1>2 DEF ShiftInv, TypeOK

\* What happens to a shift, a movement or an order keeps the invariant of the shifts.
LEMMA RequestSteps ==
  ASSUME ShiftInv, NEW q \in BagToSet(requests),
         OpenShift(q) \/ CloseShift(q) \/ CashOperation(q) \/ CreateOrder(q) \/ Drop(q)
  PROVE  ShiftInv'
<1>0. /\ End(q) => BagToSet(requests') \subseteq Request
      /\ q \in Request /\ q.shift \in {0} \cup Shifts
  BY EndsAreRequests DEF ShiftInv, TypeOK, Request
<1>1. CASE OpenShift(q)
  <2>1. Open = {}
    BY <1>1, ActiveIsOpen DEF OpenShift, NoShiftOpen
  <2>2. PICK s \in Shifts : /\ shift[s] = "None" /\ \A t \in 1 .. (s - 1) : shift[t] # "None"
                            /\ shift' = [shift EXCEPT ![s] = "Open"]
    BY <1>1 DEF OpenShift
  <2>3. \A t \in Shifts : t < s => shift[t] = "Closed"
    <3> TAKE t \in Shifts
    <3> HAVE t < s
    <3>1. t \in 1 .. (s - 1)
      BY DeskAssumption DEF Shifts
    <3>2. shift[t] # "None"
      BY <2>2, <3>1
    <3>3. shift[t] # "Open"
      BY <2>1 DEF Open
    <3> QED BY <3>2, <3>3 DEF ShiftInv, TypeOK
  <2>4. \A t \in Shifts : s < t => shift[t] = "None"
    BY <2>2, DeskAssumption DEF ShiftInv, OneOpenShift, Shifts
  <2>5. OneOpenShift'
    BY <2>2, <2>3, <2>4, DeskAssumption DEF ShiftInv, TypeOK, OneOpenShift, Shifts
  <2>6. shift' \in [Shifts -> {"None", "Open", "Closed"}]
    BY <2>2 DEF ShiftInv, TypeOK
  <2>7. UNCHANGED <<moves, order, printer, print>> /\ End(q)
    BY <1>1 DEF OpenShift
  <2>8. TypeOK'
    BY <1>0, <2>6, <2>7 DEF ShiftInv, TypeOK, print
  <2> QED BY <2>5, <2>8 DEF ShiftInv
<1>2. CASE CloseShift(q)
  <2>1. shift' = [shift EXCEPT ![q.shift] = "Closed"]
    BY <1>2 DEF CloseShift
  <2>2. OneOpenShift'
    <3> SUFFICES ASSUME NEW s \in Shifts, NEW t \in Shifts, s < t, shift'[t] # "None"
                 PROVE  shift'[s] = "Closed"
      BY DEF OneOpenShift
    <3>1. CASE shift[t] # "None"
      BY <2>1, <3>1 DEF ShiftInv, TypeOK, OneOpenShift
    <3>2. CASE shift[t] = "None"
      <4>1. q.shift = t
        BY <2>1, <3>2 DEF ShiftInv, TypeOK
      <4>2. t \in Open
        BY <1>2, <4>1, ActiveIsOpen, DeskAssumption DEF CloseShift, Shifts
      <4> QED BY <3>2, <4>2 DEF Open
    <3> QED BY <3>1, <3>2
  <2>3. TypeOK'
    BY <1>0, <1>2, <2>1 DEF ShiftInv, TypeOK, CloseShift, print
  <2> QED BY <2>2, <2>3 DEF ShiftInv
<1>3. CASE CashOperation(q)
  BY <1>0, <1>3 DEF ShiftInv, TypeOK, OneOpenShift, CashOperation, print
<1>4. CASE CreateOrder(q)
  BY <1>0, <1>4 DEF ShiftInv, TypeOK, OneOpenShift, CreateOrder, print, money
<1>5. CASE Drop(q)
  BY <1>0, <1>5 DEF ShiftInv, TypeOK, OneOpenShift, Drop, print, money
<1> QED BY <1>1, <1>2, <1>3, <1>4, <1>5

\* Beginnings and printing leave shifts and movements alone.
LEMMA ShiftsRest ==
  ASSUME ShiftInv, UNCHANGED money, TypeOK'
  PROVE  ShiftInv'
<1> QED BY DEF ShiftInv, OneOpenShift, money

LEMMA BeginSteps ==
  ASSUME ShiftInv,
         BeginOpen \/ BeginClose \/ (\E m \in Moves : BeginCash(m)) \/ (\E o \in Orders : BeginCreate(o))
  PROVE  ShiftInv' /\ UNCHANGED <<order, print>>
<1>1. PICK op \in {"open_shift", "close_shift_confirm", "cash_operation", "create_order"},
           ref \in Moves \cup Orders \cup {"none"} : Begin(op, ref)
  BY DEF BeginOpen, BeginClose, BeginCash, BeginCreate
<1>2. BagToSet(requests') \subseteq Request
  BY <1>1, BeginsAreRequests
<1>3. UNCHANGED <<money, order, printer, print>>
  BY <1>1 DEF Begin
<1>4. TypeOK'
  BY <1>2, <1>3 DEF ShiftInv, TypeOK, money, print
<1> QED BY <1>3, <1>4, ShiftsRest

\* A job is a record, and knows its order.
LEMMA JobTypes ==
  /\ NoJob \in [status : {"None", "Queued", "Printing", "Done", "Failed"}, attempts : Nat, papers : Nat]
  /\ \A j \in Jobs : j[1] \in Orders
  /\ \A o \in Orders : Original(o) \in Jobs /\ ~IsCopy(Original(o)) /\ Original(o)[1] = o
  /\ \A o \in Orders, k \in PrintKeys, c \in BOOLEAN :
        <<o, k, c>> \in Jobs /\ <<o, k, c>>[1] = o /\ (IsCopy(<<o, k, c>>) <=> c)
<1> QED BY DEF NoJob, Jobs, Original, IsCopy

JobRecord ==
  [status : {"None", "Queued", "Printing", "Done", "Failed"}, attempts : Nat, papers : Nat]
OrderRecord ==
  [status : {"None", "Building", "Cancelled", "Printing", "Completed", "Completed Print Error"},
   shift : {0} \cup Shifts]

LEMMA EnqueueTypes ==
  ASSUME ShiftInv, NEW j \in Jobs, Enqueue(j) \/ UNCHANGED <<job, rq>>
  PROVE  job' \in [Jobs -> JobRecord] /\ rq' \subseteq Jobs
<1>1. job \in [Jobs -> JobRecord] /\ rq \subseteq Jobs
  BY DEF ShiftInv, TypeOK, JobRecord
<1>2. [NoJob EXCEPT !.status = "Queued"] \in JobRecord
  BY DEF NoJob, JobRecord
<1> QED BY <1>1, <1>2 DEF Enqueue

LEMMA SetOrderTypes ==
  ASSUME ShiftInv, NEW o \in Orders,
         NEW status \in {"Cancelled", "Printing", "Completed", "Completed Print Error"},
         SetOrder(o, status) \/ UNCHANGED order
  PROVE  order' \in [Orders -> OrderRecord]
<1>1. order \in [Orders -> OrderRecord]
  BY DEF ShiftInv, TypeOK, OrderRecord
<1>2. [order[o] EXCEPT !.status = status] \in OrderRecord
  BY <1>1 DEF OrderRecord
<1> QED BY <1>1, <1>2 DEF SetOrder

LEMMA OrderSteps ==
  ASSUME ShiftInv, NEW o \in Orders,
         CompleteOrder(o) \/ CancelOrder(o) \/ \E k \in PrintKeys : QueuePrint(o, k)
  PROVE  ShiftInv'
<1>1. CASE CompleteOrder(o)
  <2>1. Enqueue(Original(o)) \/ UNCHANGED <<job, rq>>
    BY <1>1 DEF CompleteOrder
  <2>2. job' \in [Jobs -> JobRecord] /\ rq' \subseteq Jobs
    BY <2>1, EnqueueTypes, JobTypes
  <2>3. order' \in [Orders -> OrderRecord]
    BY <1>1, SetOrderTypes DEF CompleteOrder
  <2>4. TypeOK'
    BY <1>1, <2>2, <2>3 DEF ShiftInv, TypeOK, CompleteOrder, money, JobRecord, OrderRecord
  <2> QED BY <1>1, <2>4, ShiftsRest DEF CompleteOrder
<1>2. CASE CancelOrder(o)
  <2>1. TypeOK'
    BY <1>2 DEF ShiftInv, TypeOK, CancelOrder, SetOrder, money, print
  <2> QED BY <1>2, <2>1, ShiftsRest DEF CancelOrder
<1>3. CASE \E k \in PrintKeys : QueuePrint(o, k)
  <2>1. PICK k \in PrintKeys : QueuePrint(o, k)
    BY <1>3
  <2> DEFINE j == <<o, k, job[Original(o)] # NoJob>>
  <2>2. j \in Jobs
    BY JobTypes
  <2>3. Enqueue(j) \/ UNCHANGED <<job, rq>>
    BY <2>1 DEF QueuePrint
  <2>4. job' \in [Jobs -> JobRecord] /\ rq' \subseteq Jobs
    BY <2>2, <2>3, EnqueueTypes
  <2>5. order' \in [Orders -> OrderRecord]
    BY <2>1, SetOrderTypes DEF QueuePrint
  <2>6. TypeOK'
    BY <2>1, <2>4, <2>5 DEF ShiftInv, TypeOK, QueuePrint, money, JobRecord, OrderRecord
  <2> QED BY <2>1, <2>6, ShiftsRest DEF QueuePrint
<1> QED BY <1>1, <1>2, <1>3

\* A step of the printers.
PrintStep ==
    \/ \E w \in Workers, j \in rq : PrintStart(w, j) \/ PrintLater(w, j)
    \/ \E j \in Jobs : List(j) \/ PrintListed(j)
    \/ ListOutdated
    \/ \E w \in Printers : PrintDone(w) \/ PrintFails(w) \/ WorkerDies(w)
    \/ \E j \in Jobs : Sweep(j)
    \/ AddPrinter

LEMMA ReportTypes ==
  ASSUME ShiftInv, NEW j \in Jobs, NEW status \in {"Completed", "Completed Print Error"},
         Report(j, status)
  PROVE  order' \in [Orders -> OrderRecord]
<1>1. j[1] \in Orders
  BY JobTypes
<1>2. SetOrder(j[1], status) \/ UNCHANGED order
  BY DEF Report
<1> QED BY <1>1, <1>2, SetOrderTypes

LEMMA JobChanges ==
  ASSUME ShiftInv, NEW j \in Jobs, NEW record \in JobRecord, job' = [job EXCEPT ![j] = record]
  PROVE  job' \in [Jobs -> JobRecord]
<1> QED BY DEF ShiftInv, TypeOK, JobRecord

LEMMA CappedAttempts == \A n \in Nat : Min({n, MaxAttempts}) \in Nat
<1> SUFFICES ASSUME NEW n \in Nat PROVE Min({n, MaxAttempts}) \in Nat
  OBVIOUS
<1>1. MaxAttempts \in Nat
  BY DeskAssumption
<1>2. \E x \in {n, MaxAttempts} : \A y \in {n, MaxAttempts} : x =< y
  <2>1. CASE n =< MaxAttempts
    BY <1>1, <2>1
  <2>2. CASE ~(n =< MaxAttempts)
    BY <1>1, <2>2
  <2> QED BY <2>1, <2>2
<1>3. Min({n, MaxAttempts}) \in {n, MaxAttempts}
  BY <1>2 DEF Min
<1> QED BY <1>1, <1>3

LEMMA StartTypes ==
  ASSUME ShiftInv, NEW w \in Printers, NEW j \in Jobs, NEW attempts \in Nat,
         StartPrinting(w, j, attempts)
  PROVE  /\ job' \in [Jobs -> JobRecord] /\ worker' \in [Printers -> SUBSET Jobs]
         /\ UNCHANGED <<money, order, printer, requests>>
<1>1. [job[j] EXCEPT !.status = "Printing", !.attempts = Min({attempts, MaxAttempts})] \in JobRecord
  BY CappedAttempts DEF ShiftInv, TypeOK, JobRecord
<1>2. job' \in [Jobs -> JobRecord]
  BY <1>1, JobChanges DEF StartPrinting
<1> QED BY <1>2 DEF StartPrinting, ShiftInv, TypeOK

PrintTypes ==
    /\ job \in [Jobs -> JobRecord] /\ order \in [Orders -> OrderRecord]
    /\ rq \subseteq Jobs /\ listed \subseteq Jobs \X Nat
    /\ worker \in [Printers -> SUBSET Jobs] /\ printer \in BOOLEAN /\ repeated \subseteq Jobs

LEMMA PrintSteps ==
  ASSUME ShiftInv, PrintStep
  PROVE  ShiftInv'
<1>0. PrintTypes
  BY DEF PrintTypes, ShiftInv, TypeOK, JobRecord, OrderRecord
<1>1. SUFFICES PrintTypes' /\ UNCHANGED <<money, requests>>
  <2>1. TypeOK'
    BY <1>1 DEF PrintTypes, ShiftInv, TypeOK, JobRecord, OrderRecord, money
  <2> QED BY <1>1, <2>1, ShiftsRest
<1>2. ASSUME NEW w \in Workers, NEW j \in rq, PrintStart(w, j)
      PROVE  PrintTypes' /\ UNCHANGED <<money, requests>>
  <2>1. j \in Jobs /\ job[j].attempts + 1 \in Nat /\ w \in Printers
    BY <1>0 DEF PrintTypes, JobRecord, Printers
  <2>2. StartPrinting(w, j, job[j].attempts + 1)
    BY <1>2 DEF PrintStart
  <2> QED BY <1>0, <1>2, <2>1, <2>2, StartTypes DEF PrintStart, PrintTypes
<1>3. ASSUME NEW w \in Workers, NEW j \in rq, PrintLater(w, j)
      PROVE  PrintTypes' /\ UNCHANGED <<money, requests>>
  BY <1>0, <1>3 DEF PrintLater, PrintTypes
<1>4. ASSUME NEW j \in Jobs, List(j)
      PROVE  PrintTypes' /\ UNCHANGED <<money, requests>>
  <2>1. job[j].attempts \in Nat
    BY <1>0 DEF PrintTypes, JobRecord
  <2> QED BY <1>0, <1>4, <2>1 DEF List, PrintTypes
<1>5. ASSUME NEW j \in Jobs, PrintListed(j)
      PROVE  PrintTypes' /\ UNCHANGED <<money, requests>>
  <2>1. PICK attempts \in 0 .. MaxAttempts : StartPrinting("scheduler", j, attempts + 1)
    BY <1>5 DEF PrintListed
  <2>2. attempts + 1 \in Nat /\ "scheduler" \in Printers
    BY DeskAssumption DEF Printers
  <2> QED BY <1>0, <1>5, <2>1, <2>2, StartTypes DEF PrintListed, PrintTypes
<1>6. CASE ListOutdated
  BY <1>0, <1>6 DEF ListOutdated, PrintTypes
<1>7. ASSUME NEW w \in Printers, NEW j \in worker[w], NEW record \in JobRecord,
             job' = [job EXCEPT ![j] = record], Rest(w), UNCHANGED <<money, printer, rq, listed, repeated, requests>>,
             order' \in [Orders -> OrderRecord]
      PROVE  PrintTypes' /\ UNCHANGED <<money, requests>>
  <2>1. job' \in [Jobs -> JobRecord]
    BY <1>0, <1>7, JobChanges DEF PrintTypes
  <2> QED BY <1>0, <1>7, <2>1 DEF Rest, PrintTypes
<1>8. ASSUME NEW w \in Printers, PrintDone(w)
      PROVE  PrintTypes' /\ UNCHANGED <<money, requests>>
  <2>1. PICK j \in worker[w] :
           /\ job' = [job EXCEPT ![j] = [@ EXCEPT !.status = "Done", !.papers = job[j].papers + 1]]
           /\ Report(j, "Completed") /\ Rest(w)
           /\ UNCHANGED <<money, printer, rq, listed, repeated, requests>>
    BY <1>8 DEF PrintDone
  <2>2. j \in Jobs
    BY <1>0 DEF PrintTypes
  <2> DEFINE record == [job[j] EXCEPT !.status = "Done", !.papers = job[j].papers + 1]
  <2>3. record \in JobRecord
    <3>1. job[j] \in JobRecord
      BY <1>0, <2>2 DEF PrintTypes
    <3>2. job[j].papers + 1 \in Nat
      BY <3>1 DEF JobRecord
    <3> QED BY <3>1, <3>2 DEF JobRecord
  <2>4. job' = [job EXCEPT ![j] = record]
    BY <2>1
  <2> QED BY <1>7, <2>1, <2>2, <2>3, <2>4, ReportTypes
<1>9. ASSUME NEW w \in Printers, PrintFails(w)
      PROVE  PrintTypes' /\ UNCHANGED <<money, requests>>
  <2>1. PICK j \in worker[w], status \in {"Queued", "Failed"} :
           /\ SetJob(j, status) /\ Rest(w)
           /\ UNCHANGED order \/ Report(j, "Completed Print Error")
           /\ UNCHANGED <<money, printer, rq, listed, repeated, requests>>
    BY <1>9 DEF PrintFails
  <2>2. j \in Jobs
    BY <1>0 DEF PrintTypes
  <2> DEFINE record == [job[j] EXCEPT !.status = status]
  <2>3. record \in JobRecord
    BY <1>0, <2>2 DEF PrintTypes, JobRecord
  <2>4. job' = [job EXCEPT ![j] = record]
    BY <2>1 DEF SetJob
  <2>5. order' \in [Orders -> OrderRecord]
    BY <1>0, <2>1, <2>2, ReportTypes DEF PrintTypes
  <2> QED BY <1>7, <2>1, <2>2, <2>3, <2>4, <2>5
<1>10. ASSUME NEW w \in Printers, WorkerDies(w)
      PROVE  PrintTypes' /\ UNCHANGED <<money, requests>>
  <2>1. PICK j \in worker[w], paper \in {0, 1} :
           /\ job' = [job EXCEPT ![j].papers = @ + paper] /\ Rest(w)
           /\ UNCHANGED <<money, order, printer, rq, listed, repeated, requests>>
    BY <1>10 DEF WorkerDies
  <2>2. j \in Jobs
    BY <1>0 DEF PrintTypes
  <2> DEFINE record == [job[j] EXCEPT !.papers = @ + paper]
  <2>3. record \in JobRecord
    BY <1>0, <2>2 DEF PrintTypes, JobRecord
  <2>4. job' = [job EXCEPT ![j] = record]
    BY <2>1
  <2>5. order' \in [Orders -> OrderRecord]
    BY <1>0, <2>1 DEF PrintTypes
  <2> QED BY <1>7, <2>1, <2>2, <2>3, <2>4, <2>5
<1>11. ASSUME NEW j \in Jobs, Sweep(j)
      PROVE  PrintTypes' /\ UNCHANGED <<money, requests>>
  <2>1. [job[j] EXCEPT !.status = "Failed"] \in JobRecord
    BY <1>0 DEF PrintTypes, JobRecord
  <2>2. job' \in [Jobs -> JobRecord]
    BY <1>11, <2>1, JobChanges DEF Sweep, SetJob
  <2>3. order' \in [Orders -> OrderRecord]
    BY <1>11, ReportTypes DEF Sweep
  <2> QED BY <1>0, <1>11, <2>2, <2>3 DEF Sweep, PrintTypes
<1>12. CASE AddPrinter
  BY <1>0, <1>12 DEF AddPrinter, PrintTypes, print
<1> QED BY <1>2, <1>3, <1>4, <1>5, <1>6, <1>8, <1>9, <1>10, <1>11, <1>12 DEF PrintStep

LEMMA ShiftStep ==
  ASSUME ShiftInv, [Next]_vars
  PROVE  ShiftInv'
<1>1. CASE UNCHANGED vars
  BY <1>1 DEF vars, ShiftInv, TypeOK, OneOpenShift
<1>2. CASE Next
  BY <1>2, RequestSteps, BeginSteps, OrderSteps, PrintSteps DEF Next, PrintStep
<1> QED BY <1>1, <1>2

LEMMA InitShift == Init => ShiftInv
<1> SUFFICES ASSUME Init PROVE ShiftInv
  OBVIOUS
<1>1. BagToSet(requests) = {}
  BY DEF Init, BagToSet, EmptyBag, SetToBag
<1>2. OneOpenShift
  BY DEF Init, OneOpenShift
<1>3. TypeOK
  BY <1>1, JobTypes DEF Init, TypeOK
<1> QED BY <1>2, <1>3 DEF ShiftInv

\* Every record keeps the fields and values of its DocType.
THEOREM TypeCorrect == Spec => []TypeOK
<1>1. ShiftInv => TypeOK
  BY DEF ShiftInv
<1> QED BY <1>1, InitShift, ShiftStep, PTL DEF Spec

\* A cash desk has one open shift, however many cashiers open and close at once.
THEOREM ShiftIsAlone == Spec => []OneOpenShift
<1>1. ShiftInv => OneOpenShift
  BY DEF ShiftInv
<1> QED BY <1>1, InitShift, ShiftStep, PTL DEF Spec

-----------------------------------------------------------------------------
(* One paper for a job.                                                      *)

\* An order keeps its invariant if the others rest and it is completed on paper only.
LEMMA OrderKeeps ==
  ASSUME OrderInv, NEW o \in Orders,
         \A i \in Jobs : i[1] # o => /\ job'[i] = NoJob <=> job[i] = NoJob
                                     /\ job[i].papers >= 1 => job'[i].papers >= 1,
         \A p \in Orders : p # o => order'[p].status = order[p].status,
         order'[o].status \notin {"None", "Building"},
         order'[o].status = "Completed" /\ Own(o)' # {} => \E j \in Own(o)' : job'[j].papers >= 1
  PROVE  OrderInv'
<1> SUFFICES ASSUME NEW p \in Orders
             PROVE  /\ order'[p].status \in {"None", "Building"} =>
                          \A j \in Jobs : j[1] = p => job'[j] = NoJob
                    /\ order'[p].status = "Completed" /\ Own(p)' # {} =>
                          \E j \in Own(p)' : job'[j].papers >= 1
  BY DEF OrderInv
<1>1. CASE p = o
  BY <1>1
<1>2. CASE p # o
  <2>1. Own(p)' = Own(p)
    BY <1>2 DEF Own
  <2>2. \A j \in Own(p) : job[j].papers >= 1 => job'[j].papers >= 1
    BY <1>2 DEF Own
  <2> QED BY <1>2, <2>1, <2>2 DEF OrderInv
<1> QED BY <1>1, <1>2

\* So does every order while jobs only come nearer to their paper.
LEMMA OrdersRest ==
  ASSUME OrderInv, UNCHANGED order,
         \A i \in Jobs : /\ job'[i] = NoJob <=> job[i] = NoJob
                         /\ job[i].papers >= 1 => job'[i].papers >= 1
  PROVE  OrderInv'
<1>1. \A p : Own(p)' = Own(p)
  BY DEF Own
<1>2. \A p : \A j \in Own(p) : job[j].papers >= 1 => job'[j].papers >= 1
  BY DEF Own
<1> QED BY <1>1, <1>2 DEF OrderInv

LEMMA PrintRests ==
  ASSUME PrintInv, UNCHANGED <<order, job, worker, repeated>>, rq' \subseteq rq,
         \A l \in listed' : job[l[1]].status # "None"
  PROVE  PrintInv'
<1>1. JobInv'
  BY DEF PrintInv, JobInv
<1>2. WorkerInv'
  BY DEF PrintInv, WorkerInv
<1>3. OrderInv'
  BY OrdersRest DEF PrintInv
<1> QED BY <1>1, <1>2, <1>3 DEF PrintInv

\* The requests of the cashiers touch no job.
LEMMA RequestsPrintNothing ==
  ASSUME ShiftInv, PrintInv, NEW q \in BagToSet(requests),
         OpenShift(q) \/ CloseShift(q) \/ CashOperation(q) \/ CreateOrder(q) \/ Drop(q)
  PROVE  PrintInv'
<1>1. CASE CreateOrder(q)
  <2> DEFINE o == q.ref
  <2>1. UNCHANGED <<job, rq, listed, worker, repeated>>
    BY <1>1 DEF CreateOrder, print
  <2>2. JobInv' /\ WorkerInv'
    BY <2>1 DEF PrintInv, JobInv, WorkerInv
  <2>3. \A p \in Orders : order'[p].status = IF p = o THEN "Building" ELSE order[p].status
    BY <1>1 DEF CreateOrder, ShiftInv, TypeOK
  <2>4. order[o].status = "None"
    BY <1>1 DEF CreateOrder
  <2>5. \A p : Own(p)' = Own(p)
    BY <2>1 DEF Own
  <2>6. OrderInv'
    BY <2>1, <2>3, <2>4, <2>5 DEF PrintInv, OrderInv
  <2> QED BY <2>2, <2>6 DEF PrintInv
<1>2. CASE OpenShift(q) \/ CloseShift(q) \/ CashOperation(q) \/ Drop(q)
  <2>1. UNCHANGED <<order, job, rq, listed, worker, repeated>>
    BY <1>2 DEF OpenShift, CloseShift, CashOperation, Drop, print
  <2> QED BY <2>1, PrintRests DEF PrintInv, JobInv
<1> QED BY <1>1, <1>2

LEMMA EnqueueKeeps ==
  ASSUME ShiftInv, PrintInv, NEW j \in Jobs, job[j] = NoJob, Enqueue(j),
         UNCHANGED <<listed, worker, repeated>>
  PROVE  /\ JobInv' /\ WorkerInv'
         /\ \A i \in Jobs : i # j => job'[i] = job[i]
<1>1. /\ job'[j] = [NoJob EXCEPT !.status = "Queued"]
      /\ \A i \in Jobs : i # j => job'[i] = job[i]
      /\ rq' = rq \cup {j}
  BY DEF Enqueue, ShiftInv, TypeOK
<1>2. job'[j].status = "Queued" /\ job'[j].papers = 0 /\ job'[j] # NoJob
  BY <1>1 DEF NoJob
<1>3. JobInv'
  <2>1. \A l \in listed' : job'[l[1]].status # "None"
    <3> SUFFICES ASSUME NEW l \in listed PROVE job'[l[1]].status # "None"
      OBVIOUS
    <3>1. l[1] \in Jobs /\ job[l[1]].status # "None"
      BY DEF ShiftInv, TypeOK, PrintInv, JobInv
    <3> QED BY <1>1, <1>2, <3>1
  <2>2. ASSUME NEW i \in Jobs
        PROVE  /\ job'[i].status = "Done" => job'[i].papers >= 1
               /\ job'[i].status = "None" <=> job'[i] = NoJob
               /\ i \in rq' => job'[i].status # "None"
               /\ i \notin repeated' =>
                     /\ job'[i].papers \in {0, 1}
                     /\ job'[i].status \in {"None", "Queued"} => job'[i].papers = 0
                     /\ i \in rq' /\ job'[i].status = "Failed" => job'[i].papers = 0
    <3>1. CASE i = j
      BY <1>2, <3>1
    <3>2. CASE i # j
      BY <1>1, <3>2 DEF PrintInv, JobInv
    <3> QED BY <3>1, <3>2
  <2> QED BY <2>1, <2>2 DEF JobInv
<1>4. \A w \in Printers : j \notin worker[w] /\ worker[w] \subseteq Jobs
  <2>1. job[j].status = "None"
    BY DEF NoJob
  <2>2. \A w \in Printers : j \notin worker[w]
    BY <2>1 DEF PrintInv, WorkerInv
  <2> QED BY <2>2 DEF ShiftInv, TypeOK
<1>5. WorkerInv'
  BY <1>1, <1>4 DEF PrintInv, WorkerInv
<1> QED BY <1>1, <1>3, <1>5

LEMMA OrdersKeepPaper ==
  ASSUME ShiftInv, PrintInv, NEW o \in Orders,
         CompleteOrder(o) \/ CancelOrder(o) \/ \E k \in PrintKeys : QueuePrint(o, k)
  PROVE  PrintInv'
<1>0. /\ JobInv /\ WorkerInv /\ OrderInv
      /\ order \in [Orders -> OrderRecord] /\ job \in [Jobs -> JobRecord]
  BY DEF PrintInv, ShiftInv, TypeOK, OrderRecord, JobRecord
<1>1. CASE CompleteOrder(o)
  <2>1. \A j \in Jobs : j[1] = o => job[j] = NoJob
    BY <1>0, <1>1 DEF CompleteOrder, OrderInv
  <2>2. PICK status \in {"Completed", "Printing", "Completed Print Error"} :
           /\ SetOrder(o, status) /\ UNCHANGED <<listed, worker, repeated>>
           /\ \/ UNCHANGED <<job, rq>>
              \/ status = "Printing" /\ Enqueue(Original(o))
    BY <1>1 DEF CompleteOrder
  <2>3. /\ order'[o].status = status
        /\ \A p \in Orders : p # o => order'[p].status = order[p].status
    BY <1>0, <2>2 DEF SetOrder, OrderRecord
  <2>4. CASE UNCHANGED <<job, rq>>
    <3>1. JobInv' /\ WorkerInv'
      BY <1>0, <2>2, <2>4 DEF JobInv, WorkerInv
    <3>2. Own(o)' = {}
      BY <2>1, <2>4 DEF Own
    <3>3. OrderInv'
      BY <1>0, <2>3, <2>4, <3>2, OrderKeeps
    <3> QED BY <3>1, <3>3 DEF PrintInv
  <2>5. CASE status = "Printing" /\ Enqueue(Original(o))
    <3>1. /\ JobInv' /\ WorkerInv'
          /\ \A i \in Jobs : i # Original(o) => job'[i] = job[i]
      BY <2>1, <2>2, <2>5, EnqueueKeeps, JobTypes
    <3>2. OrderInv'
      BY <1>0, <2>3, <2>5, <3>1, JobTypes, OrderKeeps
    <3> QED BY <3>1, <3>2 DEF PrintInv
  <2> QED BY <2>2, <2>4, <2>5
<1>2. CASE CancelOrder(o)
  <2>1. /\ order'[o].status = "Cancelled" /\ UNCHANGED <<job, rq, listed, worker, repeated>>
        /\ \A p \in Orders : p # o => order'[p].status = order[p].status
    BY <1>0, <1>2 DEF CancelOrder, SetOrder, OrderRecord, print
  <2>2. JobInv' /\ WorkerInv'
    BY <1>0, <2>1 DEF JobInv, WorkerInv
  <2>3. OrderInv'
    BY <1>0, <2>1, OrderKeeps
  <2> QED BY <2>2, <2>3 DEF PrintInv
<1>3. ASSUME NEW k \in PrintKeys, QueuePrint(o, k)
      PROVE  PrintInv'
  <2> DEFINE j == <<o, k, job[Original(o)] # NoJob>>
  <2>1. j \in Jobs /\ j[1] = o /\ (IsCopy(j) <=> job[Original(o)] # NoJob)
    BY JobTypes
  <2>2. /\ UNCHANGED <<listed, worker, repeated>>
        /\ order[o].status \in {"Printing", "Completed", "Completed Print Error"}
        /\ \/ job[j] = NoJob /\ Enqueue(j)
           \/ job[j] # NoJob /\ UNCHANGED <<job, rq>>
        /\ \/ ~IsCopy(j) /\ SetOrder(o, "Printing")
           \/ UNCHANGED order /\ (IsCopy(j) \/ job'[j].status \notin {"Queued", "Printing"})
    BY <1>3 DEF QueuePrint
  <2>3. JobInv' /\ WorkerInv' /\ \A i \in Jobs : i # j => job'[i] = job[i]
    <3>1. CASE job[j] = NoJob /\ Enqueue(j)
      BY <2>1, <2>2, <3>1, EnqueueKeeps
    <3>2. CASE UNCHANGED <<job, rq>>
      BY <1>0, <2>2, <3>2 DEF JobInv, WorkerInv
    <3> QED BY <2>2, <3>1, <3>2
  <2>4. /\ order'[o].status = "Printing" \/ order'[o] = order[o]
        /\ \A p \in Orders : p # o => order'[p].status = order[p].status
    BY <1>0, <2>2 DEF SetOrder, OrderRecord
  <2>5. ASSUME order'[o].status = "Completed", Own(o)' # {}
        PROVE  \E i \in Own(o)' : job'[i].papers >= 1
    <3>1. UNCHANGED order /\ (IsCopy(j) \/ job'[j].status \notin {"Queued", "Printing"})
      BY <1>0, <2>2, <2>5 DEF SetOrder, OrderRecord
    <3>2. IsCopy(j) \/ UNCHANGED job
      <4>1. ASSUME Enqueue(j)
            PROVE  job'[j].status = "Queued"
        BY <1>0, <2>1, <4>1 DEF Enqueue, NoJob
      <4> QED BY <2>2, <3>1, <4>1
    <3>3. Own(o)' = Own(o) /\ \A i \in Own(o) : job'[i] = job[i]
      BY <2>3, <3>2 DEF Own
    <3> QED BY <1>0, <2>5, <3>1, <3>3 DEF OrderInv
  <2>6. OrderInv'
    BY <1>0, <2>1, <2>2, <2>3, <2>4, <2>5, OrderKeeps
  <2> QED BY <2>3, <2>6 DEF PrintInv
<1> QED BY <1>1, <1>2, <1>3

\* A job that nobody holds and that is not on paper may be taken; another is repeated.
LEMMA StartKeeps ==
  ASSUME ShiftInv, PrintInv, NEW w \in Printers, NEW j \in Jobs, NEW attempts \in Nat,
         StartPrinting(w, j, attempts), rq' \subseteq rq, listed' \subseteq listed,
         repeated \subseteq repeated', job[j].status # "None",
         j \notin repeated' => job[j].status \in {"Queued", "Failed"} /\ job[j].papers = 0
  PROVE  PrintInv'
<1>0. /\ JobInv /\ WorkerInv /\ OrderInv /\ listed \subseteq Jobs \X Nat
      /\ worker \in [Printers -> SUBSET Jobs] /\ job \in [Jobs -> JobRecord]
  BY DEF PrintInv, ShiftInv, TypeOK, JobRecord
<1>1. /\ job'[j].status = "Printing" /\ job'[j].papers = job[j].papers
      /\ \A i \in Jobs : i # j => job'[i] = job[i]
      /\ worker'[w] = {j} /\ \A v \in Printers : v # w => worker'[v] = worker[v]
      /\ UNCHANGED order
  BY <1>0 DEF StartPrinting, JobRecord
<1>2. job'[j] # NoJob /\ job[j] # NoJob
  BY <1>1 DEF NoJob
<1>3. JobInv'
  <2>1. \A l \in listed' : job'[l[1]].status # "None"
    <3> SUFFICES ASSUME NEW l \in listed PROVE job'[l[1]].status # "None"
      OBVIOUS
    <3>1. l[1] \in Jobs /\ job[l[1]].status # "None"
      BY <1>0 DEF JobInv
    <3> QED BY <1>1, <3>1
  <2>2. ASSUME NEW i \in Jobs
        PROVE  /\ job'[i].status = "Done" => job'[i].papers >= 1
               /\ job'[i].status = "None" <=> job'[i] = NoJob
               /\ i \in rq' => job'[i].status # "None"
               /\ i \notin repeated' =>
                     /\ job'[i].papers \in {0, 1}
                     /\ job'[i].status \in {"None", "Queued"} => job'[i].papers = 0
                     /\ i \in rq' /\ job'[i].status = "Failed" => job'[i].papers = 0
    <3>1. CASE i = j
      BY <1>1, <1>2, <3>1
    <3>2. CASE i # j
      BY <1>0, <1>1, <3>2 DEF JobInv
    <3> QED BY <3>1, <3>2
  <2> QED BY <2>1, <2>2 DEF JobInv
<1>4. \A v \in Printers : /\ worker[v] \subseteq Jobs
                          /\ j \notin repeated' => j \notin worker[v]
  BY <1>0 DEF WorkerInv
<1>5. WorkerInv'
  <2> SUFFICES ASSUME NEW v \in Printers, NEW i \in worker'[v]
               PROVE  /\ job'[i].status # "None"
                      /\ \A h \in worker'[v] : h = i
                      /\ i \notin repeated' =>
                            /\ job'[i].status = "Printing" /\ job'[i].papers = 0
                            /\ \A u \in Printers : i \in worker'[u] => u = v
    BY DEF WorkerInv
  <2>1. CASE v = w
    BY <1>1, <1>4, <2>1
  <2>2. CASE v # w /\ i # j
    BY <1>0, <1>1, <1>4, <2>2 DEF WorkerInv
  <2>3. CASE v # w /\ i = j
    BY <1>0, <1>1, <1>4, <2>3 DEF WorkerInv
  <2> QED BY <2>1, <2>2, <2>3
<1>6. OrderInv'
  <2>1. \A i \in Jobs : /\ job'[i] = NoJob <=> job[i] = NoJob
                        /\ job[i].papers >= 1 => job'[i].papers >= 1
    BY <1>1, <1>2
  <2> QED BY <1>0, <1>1, <2>1, OrdersRest
<1> QED BY <1>3, <1>5, <1>6 DEF PrintInv

\* A worker lets go of its job, which is then in a state the queue can bear.
LetsGo(w, j, record) ==
    /\ job' = [job EXCEPT ![j] = record] /\ Rest(w) /\ UNCHANGED <<rq, listed, repeated>>
    /\ record.status # "None"
    /\ job[j].papers >= 1 => record.papers >= 1
    /\ record.status = "Done" => record.papers >= 1
    /\ j \notin repeated => /\ record.papers \in {0, 1}
                            /\ record.status \in {"Queued", "Failed"} => record.papers = 0

LEMMA RestKeeps ==
  ASSUME ShiftInv, PrintInv, NEW w \in Printers, NEW j \in worker[w], NEW record \in JobRecord,
         LetsGo(w, j, record)
  PROVE  /\ JobInv' /\ WorkerInv' /\ j \in Jobs
         /\ job[j] # NoJob /\ job'[j] # NoJob /\ job'[j] = record
         /\ \A i \in Jobs : i # j => job'[i] = job[i]
<1>0. /\ JobInv /\ WorkerInv /\ listed \subseteq Jobs \X Nat
      /\ worker \in [Printers -> SUBSET Jobs] /\ job \in [Jobs -> JobRecord]
  BY DEF PrintInv, ShiftInv, TypeOK, JobRecord
<1>1. /\ j \in Jobs /\ job[j].status # "None"
      /\ j \notin repeated => /\ job[j].papers = 0
                              /\ \A v \in Printers : v # w => j \notin worker[v]
  BY <1>0 DEF WorkerInv
<1>2. /\ job'[j] = record /\ record.status # "None" /\ job[j] # NoJob /\ job'[j] # NoJob
      /\ \A i \in Jobs : i # j => job'[i] = job[i]
      /\ worker'[w] = {} /\ \A v \in Printers : v # w => worker'[v] = worker[v]
  BY <1>0, <1>1 DEF LetsGo, Rest, NoJob
<1>3. JobInv'
  <2>1. \A l \in listed : job'[l[1]].status # "None"
    <3> SUFFICES ASSUME NEW l \in listed PROVE job'[l[1]].status # "None"
      OBVIOUS
    <3>1. l[1] \in Jobs /\ job[l[1]].status # "None"
      BY <1>0 DEF JobInv
    <3> QED BY <1>2, <3>1
  <2>2. ASSUME NEW i \in Jobs
        PROVE  /\ job'[i].status = "Done" => job'[i].papers >= 1
               /\ job'[i].status = "None" <=> job'[i] = NoJob
               /\ i \in rq => job'[i].status # "None"
               /\ i \notin repeated =>
                     /\ job'[i].papers \in {0, 1}
                     /\ job'[i].status \in {"None", "Queued"} => job'[i].papers = 0
                     /\ i \in rq /\ job'[i].status = "Failed" => job'[i].papers = 0
    <3>1. CASE i = j
      BY <1>1, <1>2, <3>1 DEF LetsGo
    <3>2. CASE i # j
      BY <1>0, <1>2, <3>2 DEF LetsGo, JobInv
    <3> QED BY <3>1, <3>2
  <2> QED BY <2>1, <2>2 DEF LetsGo, JobInv
<1>4. WorkerInv'
  <2> SUFFICES ASSUME NEW v \in Printers, NEW i \in worker'[v]
               PROVE  /\ job'[i].status # "None"
                      /\ \A h \in worker'[v] : h = i
                      /\ i \notin repeated =>
                            /\ job'[i].status = "Printing" /\ job'[i].papers = 0
                            /\ \A u \in Printers : i \in worker'[u] => u = v
    BY DEF LetsGo, WorkerInv
  <2>1. v # w /\ i \in worker[v] /\ i \in Jobs /\ \A h \in worker[v] : h = i
    BY <1>0, <1>2 DEF WorkerInv
  <2>2. CASE i = j
    BY <1>1, <1>2, <2>1, <2>2
  <2>3. CASE i # j
    BY <1>0, <1>2, <2>1, <2>3 DEF WorkerInv
  <2> QED BY <2>2, <2>3
<1> QED BY <1>1, <1>2, <1>3, <1>4

\* What the job reports of its order is true.
LEMMA ReportKeeps ==
  ASSUME ShiftInv, PrintInv, NEW j \in Jobs, NEW status \in {"Completed", "Completed Print Error"},
         Report(j, status), job[j] # NoJob, job'[j] # NoJob,
         job[j].papers >= 1 => job'[j].papers >= 1, status = "Completed" => job'[j].papers >= 1,
         \A i \in Jobs : i # j => job'[i] = job[i]
  PROVE  OrderInv'
<1>1. CASE IsCopy(j)
  <2>1. UNCHANGED order
    BY <1>1 DEF Report
  <2> QED BY <2>1, OrdersRest DEF PrintInv
<1>2. CASE ~IsCopy(j)
  <2>0. j[1] \in Orders /\ SetOrder(j[1], status)
    BY <1>2, JobTypes DEF Report
  <2>1. /\ order'[j[1]].status = status
        /\ \A p \in Orders : p # j[1] => order'[p].status = order[p].status
    <3>1. order \in [Orders -> OrderRecord]
      BY DEF ShiftInv, TypeOK, OrderRecord
    <3> QED BY <2>0, <3>1 DEF SetOrder, OrderRecord
  <2>2. j \in Own(j[1])'
    BY <1>2 DEF Own
  <2> QED BY <2>0, <2>1, <2>2, OrderKeeps DEF PrintInv
<1> QED BY <1>1, <1>2

LEMMA PrintersKeepPaper ==
  ASSUME ShiftInv, PrintInv, PrintStep
  PROVE  PrintInv'
<1>0. /\ JobInv /\ WorkerInv /\ rq \subseteq Jobs /\ listed \subseteq Jobs \X Nat
      /\ worker \in [Printers -> SUBSET Jobs] /\ job \in [Jobs -> JobRecord]
  BY DEF PrintInv, ShiftInv, TypeOK, JobRecord
<1>1. ASSUME NEW w \in Workers, NEW j \in rq, PrintStart(w, j)
      PROVE  PrintInv'
  <2>1. j \in Jobs /\ w \in Printers /\ job[j].attempts + 1 \in Nat
    BY <1>0 DEF Printers, JobRecord
  <2>2. /\ job[j].status \in {"Queued", "Failed"}
        /\ j \notin repeated => job[j].papers = 0
    BY <1>0, <1>1, <2>1 DEF PrintStart, Printable, JobInv
  <2>3. StartPrinting(w, j, job[j].attempts + 1) /\ rq' \subseteq rq /\ UNCHANGED <<listed, repeated>>
    BY <1>1 DEF PrintStart
  <2> QED BY <2>1, <2>2, <2>3, StartKeeps
<1>2. ASSUME NEW w \in Workers, NEW j \in rq, PrintLater(w, j)
      PROVE  PrintInv'
  <2>1. UNCHANGED <<order, job, listed, worker, repeated>> /\ rq' \subseteq rq
    BY <1>2 DEF PrintLater
  <2> QED BY <1>0, <2>1, PrintRests DEF JobInv
<1>3. ASSUME NEW j \in Jobs, List(j)
      PROVE  PrintInv'
  <2>1. /\ UNCHANGED <<order, job, worker, rq, repeated>>
        /\ job[j].status = "Queued" /\ listed' = {<<j, job[j].attempts>>}
    BY <1>3 DEF List
  <2>2. \A l \in listed' : job[l[1]].status # "None"
    BY <2>1
  <2> QED BY <2>1, <2>2, PrintRests
<1>4. ASSUME NEW j \in Jobs, PrintListed(j)
      PROVE  PrintInv'
  <2>1. PICK attempts \in 0 .. MaxAttempts :
           /\ <<j, attempts>> \in listed /\ StartPrinting("scheduler", j, attempts + 1)
    BY <1>4 DEF PrintListed
  <2>2. /\ "scheduler" \in Printers /\ attempts + 1 \in Nat /\ rq' = rq /\ listed' = {}
        /\ repeated' = IF job[j].status = "Queued" THEN repeated ELSE repeated \cup {j}
    BY <1>4, DeskAssumption DEF PrintListed, Printers
  <2>3. job[j].status # "None"
    BY <1>0, <2>1 DEF JobInv
  <2>4. j \notin repeated' => job[j].status = "Queued" /\ job[j].papers = 0
    BY <1>0, <2>2 DEF JobInv
  <2> QED BY <2>1, <2>2, <2>3, <2>4, StartKeeps
<1>5. CASE ListOutdated
  <2>1. UNCHANGED <<order, job, worker, rq, repeated>> /\ listed' = {}
    BY <1>5 DEF ListOutdated
  <2> QED BY <2>1, PrintRests
<1>6. ASSUME NEW w \in Printers, PrintDone(w)
      PROVE  PrintInv'
  <2>1. PICK j \in worker[w] :
           /\ job' = [job EXCEPT ![j] = [@ EXCEPT !.status = "Done", !.papers = job[j].papers + 1]]
           /\ Report(j, "Completed") /\ Rest(w) /\ UNCHANGED <<rq, listed, repeated>>
    BY <1>6 DEF PrintDone
  <2> DEFINE record == [job[j] EXCEPT !.status = "Done", !.papers = job[j].papers + 1]
  <2>2. j \in Jobs /\ job[j] \in JobRecord
    BY <1>0 DEF WorkerInv
  <2>3. /\ record \in JobRecord /\ record.status = "Done" /\ record.papers = job[j].papers + 1
        /\ job[j].papers \in Nat
    <3> DEFINE r == job[j]
    <3>1. r \in JobRecord
      BY <2>2
    <3>2. r.papers \in Nat /\ r.papers + 1 \in Nat
      BY <3>1 DEF JobRecord
    <3> HIDE DEF r
    <3>3. [r EXCEPT !.status = "Done", !.papers = r.papers + 1] \in JobRecord
      BY <3>1, <3>2 DEF JobRecord
    <3>4. /\ [r EXCEPT !.status = "Done", !.papers = r.papers + 1].status = "Done"
          /\ [r EXCEPT !.status = "Done", !.papers = r.papers + 1].papers = r.papers + 1
      BY <3>1, <3>2 DEF JobRecord
    <3> QED BY <3>2, <3>3, <3>4 DEF r
  <2>4. job' = [job EXCEPT ![j] = record]
    BY <2>1
  <2> HIDE DEF record
  <2>5. record.papers >= 1 /\ (j \notin repeated => record.papers = 1)
    BY <1>0, <2>3 DEF WorkerInv
  <2>a. LetsGo(w, j, record)
    BY <2>1, <2>3, <2>4, <2>5 DEF LetsGo
  <2>6. /\ JobInv' /\ WorkerInv' /\ job[j] # NoJob /\ job'[j] # NoJob /\ job'[j] = record
        /\ \A i \in Jobs : i # j => job'[i] = job[i]
    BY <2>3, <2>a, RestKeeps
  <2>7. OrderInv'
    BY <2>1, <2>2, <2>5, <2>6, ReportKeeps
  <2> QED BY <2>6, <2>7 DEF PrintInv
<1>7. ASSUME NEW w \in Printers, NEW j \in worker[w], NEW record \in JobRecord,
             LetsGo(w, j, record), UNCHANGED order \/ Report(j, "Completed Print Error")
      PROVE  PrintInv'
  <2>1. /\ JobInv' /\ WorkerInv' /\ j \in Jobs /\ job[j] # NoJob /\ job'[j] # NoJob
        /\ job'[j] = record /\ \A i \in Jobs : i # j => job'[i] = job[i]
    BY <1>7, RestKeeps
  <2>2. job[j].papers >= 1 => job'[j].papers >= 1
    BY <1>7, <2>1 DEF LetsGo
  <2>3. CASE UNCHANGED order
    <3>1. \A i \in Jobs : /\ job'[i] = NoJob <=> job[i] = NoJob
                          /\ job[i].papers >= 1 => job'[i].papers >= 1
      BY <2>1, <2>2
    <3>2. OrderInv
      BY DEF PrintInv
    <3>3. OrderInv'
      BY <2>3, <3>1, <3>2, OrdersRest
    <3> QED BY <2>1, <3>3 DEF PrintInv
  <2>4. CASE Report(j, "Completed Print Error")
    <3>0. "Completed Print Error" # "Completed"
      OBVIOUS
    <3>1. OrderInv'
      BY <2>1, <2>2, <2>4, <3>0, ReportKeeps
    <3> QED BY <2>1, <3>1 DEF PrintInv
  <2> QED BY <1>7, <2>3, <2>4
<1>8. ASSUME NEW w \in Printers, PrintFails(w)
      PROVE  PrintInv'
  <2>1. PICK j \in worker[w], status \in {"Queued", "Failed"} :
           /\ SetJob(j, status) /\ Rest(w) /\ UNCHANGED <<rq, listed, repeated>>
           /\ UNCHANGED order \/ Report(j, "Completed Print Error")
    BY <1>8 DEF PrintFails
  <2> DEFINE record == [job[j] EXCEPT !.status = status]
  <2>2. /\ job[j] \in JobRecord /\ job[j].papers \in Nat
        /\ j \notin repeated => job[j].papers = 0
    BY <1>0 DEF WorkerInv, JobRecord
  <2>3. record \in JobRecord /\ record.status = status /\ record.papers = job[j].papers
    BY <2>2 DEF JobRecord
  <2>4. job' = [job EXCEPT ![j] = record]
    BY <2>1 DEF SetJob
  <2> HIDE DEF record
  <2>5. LetsGo(w, j, record)
    BY <2>1, <2>2, <2>3, <2>4 DEF LetsGo
  <2> QED BY <1>7, <2>1, <2>3, <2>5
<1>9. ASSUME NEW w \in Printers, WorkerDies(w)
      PROVE  PrintInv'
  <2>1. PICK j \in worker[w], paper \in {0, 1} :
           /\ job' = [job EXCEPT ![j].papers = @ + paper] /\ Rest(w)
           /\ UNCHANGED <<rq, listed, repeated, order>>
    BY <1>9 DEF WorkerDies
  <2> DEFINE record == [job[j] EXCEPT !.papers = @ + paper]
  <2>2. /\ j \in Jobs /\ job[j] \in JobRecord /\ job[j].papers \in Nat /\ job[j].status # "None"
        /\ job[j].status = "Done" => job[j].papers >= 1
        /\ j \notin repeated => job[j].papers = 0 /\ job[j].status = "Printing"
    BY <1>0 DEF WorkerInv, JobRecord, JobInv
  <2>3. record \in JobRecord /\ record.status = job[j].status /\ record.papers = job[j].papers + paper
    BY <2>2 DEF JobRecord
  <2>4. job' = [job EXCEPT ![j] = record]
    BY <2>1
  <2> HIDE DEF record
  <2>5. /\ job[j].papers >= 1 => record.papers >= 1
        /\ j \notin repeated => record.papers \in {0, 1}
    BY <2>1, <2>2, <2>3
  <2>6. LetsGo(w, j, record)
    BY <2>1, <2>2, <2>3, <2>4, <2>5 DEF LetsGo
  <2> QED BY <1>7, <2>1, <2>3, <2>6
<1>10. ASSUME NEW j \in Jobs, Sweep(j)
      PROVE  PrintInv'
  <2>1. /\ job[j].status = "Printing" /\ \A w \in Printers : j \notin worker[w]
        /\ SetJob(j, "Failed") /\ Report(j, "Completed Print Error") /\ UNCHANGED <<rq, worker>>
        /\ repeated' = repeated \cup ({j} \cap rq) /\ listed' = {}
    BY <1>10 DEF Sweep, Stale
  <2>2. /\ job'[j].status = "Failed" /\ job'[j].papers = job[j].papers
        /\ \A i \in Jobs : i # j => job'[i] = job[i]
    BY <1>0, <2>1 DEF SetJob, JobRecord
  <2>3. job[j] # NoJob /\ job'[j] # NoJob
    <3>1. NoJob.status = "None" /\ job[j].status = "Printing" /\ job'[j].status = "Failed"
      BY <2>1, <2>2 DEF NoJob
    <3> QED BY <3>1
  <2>4. JobInv'
    <3>1. ASSUME NEW i \in Jobs
          PROVE  /\ job'[i].status = "Done" => job'[i].papers >= 1
                 /\ job'[i].status = "None" <=> job'[i] = NoJob
                 /\ i \in rq' => job'[i].status # "None"
                 /\ i \notin repeated' =>
                       /\ job'[i].papers \in {0, 1}
                       /\ job'[i].status \in {"None", "Queued"} => job'[i].papers = 0
                       /\ i \in rq' /\ job'[i].status = "Failed" => job'[i].papers = 0
      <4>1. CASE i = j
        BY <1>0, <2>1, <2>2, <2>3, <4>1 DEF JobInv
      <4>2. CASE i # j
        BY <1>0, <2>1, <2>2, <4>2 DEF JobInv
      <4> QED BY <4>1, <4>2
    <3> QED BY <2>1, <3>1 DEF JobInv
  <2>5. WorkerInv'
    <3>1. \A w \in Printers : worker'[w] = worker[w] /\ \A i \in worker[w] : job'[i] = job[i]
      BY <1>0, <2>1, <2>2
    <3> SUFFICES ASSUME NEW w \in Printers, NEW i \in worker[w]
                 PROVE  /\ job'[i].status # "None"
                        /\ \A h \in worker[w] : h = i
                        /\ i \notin repeated' =>
                              /\ job'[i].status = "Printing" /\ job'[i].papers = 0
                              /\ \A v \in Printers : i \in worker[v] => v = w
      BY <2>1 DEF WorkerInv
    <3>2. job'[i] = job[i] /\ (i \notin repeated' => i \notin repeated)
      BY <2>1, <3>1
    <3> QED BY <1>0, <3>2 DEF WorkerInv
  <2>6. OrderInv'
    BY <2>1, <2>2, <2>3, ReportKeeps
  <2> QED BY <2>4, <2>5, <2>6 DEF PrintInv
<1>11. CASE AddPrinter
  <2>1. UNCHANGED <<order, job, listed, worker, rq, repeated>>
    BY <1>11 DEF AddPrinter, print
  <2> QED BY <1>0, <2>1, PrintRests DEF JobInv
<1> QED BY <1>1, <1>2, <1>3, <1>4, <1>5, <1>6, <1>8, <1>9, <1>10, <1>11 DEF PrintStep

LEMMA PaperStep ==
  ASSUME IInv, [Next]_vars
  PROVE  IInv'
<1>0. \A l \in listed : job[l[1]].status # "None"
  BY DEF IInv, PrintInv, JobInv
<1>1. ShiftInv'
  BY ShiftStep DEF IInv
<1>2. CASE UNCHANGED vars
  <2>1. UNCHANGED <<order, job, listed, worker, rq, repeated>>
    BY <1>2 DEF vars
  <2> QED BY <1>0, <1>1, <2>1, PrintRests DEF IInv
<1>3. CASE BeginOpen \/ BeginClose \/ (\E m \in Moves : BeginCash(m)) \/ (\E o \in Orders : BeginCreate(o))
  <2>1. UNCHANGED <<order, job, listed, worker, rq, repeated>>
    BY <1>3, BeginSteps DEF IInv, print
  <2> QED BY <1>0, <1>1, <2>1, PrintRests DEF IInv
<1>4. CASE PrintStep
  BY <1>1, <1>4, PrintersKeepPaper DEF IInv
<1>5. CASE \E q \in BagToSet(requests) :
              OpenShift(q) \/ CloseShift(q) \/ CashOperation(q) \/ CreateOrder(q) \/ Drop(q)
  BY <1>1, <1>5, RequestsPrintNothing DEF IInv
<1>6. CASE \E o \in Orders : CompleteOrder(o) \/ CancelOrder(o) \/ \E k \in PrintKeys : QueuePrint(o, k)
  BY <1>1, <1>6, OrdersKeepPaper DEF IInv
<1> QED BY <1>2, <1>3, <1>4, <1>5, <1>6 DEF Next, PrintStep

LEMMA InitPaper == Init => IInv
<1> SUFFICES ASSUME Init PROVE IInv
  OBVIOUS
<1>1. /\ \A j \in Jobs : job[j] = NoJob
      /\ \A o \in Orders : order[o].status = "None"
      /\ rq = {} /\ listed = {} /\ \A w \in Printers : worker[w] = {}
  BY DEF Init
<1>2. JobInv
  BY <1>1 DEF JobInv, NoJob
<1>3. WorkerInv
  BY <1>1 DEF WorkerInv
<1>4. OrderInv
  BY <1>1 DEF OrderInv
<1> QED BY <1>2, <1>3, <1>4, InitShift DEF IInv, PrintInv

\* A job is Done and an order Completed only on paper; and a job that was neither taken
\* from an outdated list nor failed before its entry came prints one receipt at the most.
THEOREM PaperIsSingle == Spec => []PrintedOnce
<1>1. IInv => PrintedOnce
  <2> SUFFICES ASSUME IInv PROVE PrintedOnce
    OBVIOUS
  <2>1. \A j \in Jobs : /\ job[j].status = "Done" => job[j].papers >= 1
                        /\ j \notin repeated => job[j].papers =< 1
    BY DEF IInv, PrintInv, JobInv
  <2>2. \A o \in Orders : order[o].status = "Completed" /\ Own(o) # {} =>
           \E j \in Own(o) : job[j].papers >= 1
    BY DEF IInv, PrintInv, OrderInv
  <2> QED BY <2>1, <2>2 DEF PrintedOnce, Own
<1>2. IInv /\ [Next]_vars => IInv'
  BY PaperStep
<1> QED BY <1>1, <1>2, InitPaper, PTL DEF Spec
=============================================================================
