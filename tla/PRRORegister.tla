------------------------------ MODULE PRRORegister ------------------------------
(***************************************************************************)
(* The online side of one PRRO cash register: ua_fiscal/orchestration.py   *)
(* with PRRO Settings.offline_queue_enabled off and no offline session.    *)
(* The register hands out local numbers, writes every fiscal document to   *)
(* the PRRO Receipt ledger, sends it to the fiscal server of the tax       *)
(* service (DPS) and settles what it could not find out at once.           *)
(*                                                                         *)
(* A step ends where the code commits or waits for the network.  All the   *)
(* operations but sync_register_state and the repair of a closing hold the *)
(* Redis lock of the register, so one variable, op, is the lock and the    *)
(* operation that holds it.                                                *)
(***************************************************************************)
EXTENDS Naturals, FiniteSets

CONSTANTS
    Keys,          \* idempotency keys of the sales, returns and service-cash documents
    NoKey,         \* the key of a document that belongs to the shift itself
    KindOf,        \* [Keys -> "Sale" | "Return" | "Service"]
    OriginalOf,    \* [Keys -> Keys], the sale a return refers to
    Entry,         \* the entry points used: see EntryPoints
    FreshSync,     \* may sync_register_state start while the ledger is empty
    LateDelivery,  \* may DPS still receive a request whose sender gave up
    ServerStart,   \* the number DPS expects first
    MaxReceipts, MaxShifts, MaxFaults   \* bounds

EntryPoints == {"fiscal_open_shift", "open_shift", "reconcile_receipt", "sync_register_state"}
Handlers    == {"fiscal_open_shift", "fiscal_close_shift"}
SaleKinds   == {"Sale", "Return"}
KeyKinds    == {"Sale", "Return", "Service"}
ShiftKinds  == {"Open", "Z", "Close"}

ASSUME ConstantsAssumption ==
    /\ NoKey \notin Keys
    /\ KindOf \in [Keys -> KeyKinds]
    /\ OriginalOf \in [Keys -> Keys]
    /\ Entry \subseteq EntryPoints
    /\ FreshSync \in BOOLEAN
    /\ LateDelivery \in BOOLEAN
    /\ ServerStart \in Nat \ {0}
    /\ MaxReceipts \in Nat
    /\ MaxShifts \in Nat
    /\ MaxFaults \in Nat

VARIABLES
    next,      \* PRRO Cash Register.next_local_number
    ledger,    \* the PRRO Receipt rows; rows 1..used exist
    used,
    shift,     \* PRRO Shift.status; shifts 1..made exist
    made,
    current,   \* PRRO Cash Register.current_shift, 0 when empty
    runtime,   \* PRRO Cash Register.runtime_state
    op,        \* the operation that holds the register lock
    handler,   \* a POS handler that caught an exception and will reconcile
    sync,      \* a sync_register_state in progress; it holds no lock
    dps,       \* the fiscal server: next number, shift state, accepted documents
    late,      \* requests whose sender gave up and DPS may still receive
    faults     \* failures spent so far

local  == <<next, ledger, used, shift, made, current, runtime>>
rows   == <<ledger, used, shift, made, current>>
server == <<dps, late>>
vars   == <<local, op, handler, sync, server, faults>>

Receipts     == 1 .. MaxReceipts
Shifts       == 1 .. MaxShifts
Unsettled    == {"Draft", "Sending", "Uncertain", "Error"}
Statuses     == Unsettled \cup {"None", "Fiscalized", "Cancelled"}
NoReceipt    == [kind |-> "None", status |-> "None", state |-> "NotSent",
                 num |-> 0, shift |-> 0, key |-> NoKey]
Idle         == [pc |-> "idle", kind |-> "None", key |-> NoKey, rid |-> 0,
                 reply |-> "none", via |-> "none"]
NoHandler    == [who |-> "none", shift |-> 0]
NoSync       == [pc |-> "idle", next |-> 0, fresh |-> FALSE, runtime |-> "Online", seen |-> 0]

Init ==
    /\ next = 1
    /\ ledger = [r \in Receipts |-> NoReceipt]
    /\ used = 0
    /\ shift = [s \in Shifts |-> "None"]
    /\ made = 0
    /\ current = 0
    /\ runtime = "Online"
    /\ op = Idle
    /\ handler = NoHandler
    /\ sync = NoSync
    /\ dps = [next |-> ServerStart, open |-> FALSE, docs |-> {}]
    /\ late = {}
    /\ faults = 0

-----------------------------------------------------------------------------
(* Guards and helpers.                                                     *)

Free       == op.pc = "idle"
Fault      == faults < MaxFaults /\ faults' = faults + 1
Unresolved == {r \in 1 .. used : ledger[r].status \in Unsettled}
Live(r)    == ledger[r].status \notin {"None", "Cancelled"}
\* Bug: the idempotency key is looked up among unsettled rows only.
KnownUnsettled(k) == \E r \in Unresolved : ledger[r].key = k
Known(k)   == \E r \in Receipts : ledger[r].key = k /\ Live(r)
Later(r)   == \E q \in Receipts : Live(q) /\ ledger[q].num > ledger[r].num
Holds(n)   == \E r \in dps.docs : ledger[r].num = n
LiveShift  == \E s \in 1 .. made : shift[s] \in {"Opening", "Open", "Closing"}

\* A register without history and open shift adopts the number DPS expects.
Fresh             == used = 0 /\ current = 0
Matches(expected) == (next = dps.next \/ Fresh) /\ dps.open = expected

\* The check before every /doc: it passes, or blocks the register, or finds
\* DPS unreachable or the register bound to another device.
Preflight(expected, passes) ==
    \/ /\ passes /\ Matches(expected)
       /\ next' = dps.next /\ runtime' = "Online" /\ faults' = faults
    \/ /\ ~passes /\ ~Matches(expected)
       /\ next' = (IF Fresh THEN dps.next ELSE next)
       /\ runtime' = "Blocked" /\ faults' = faults
    \/ /\ ~passes /\ Fault
       /\ runtime' \in {runtime, "Blocked"} /\ next' = next

\* An exception reaches the caller; a POS handler catches it and reconciles next.
Caught(via) ==
    handler' = IF via \in Handlers THEN [who |-> via, shift |-> current] ELSE handler

Settle(r, status, state) ==
    ledger' = [ledger EXCEPT ![r] = [@ EXCEPT !.status = status, !.state = state]]

ToWrite(kind, key, via) ==
    op' = [Idle EXCEPT !.pc = "write", !.kind = kind, !.key = key, !.via = via]
ToFinalize(r, via) ==
    op' = [Idle EXCEPT !.pc = "finalize", !.rid = r, !.via = via]

-----------------------------------------------------------------------------
(* The operations of the register, up to the first document they write.    *)

CanOpen == runtime # "Blocked" /\ Unresolved = {}

OpenShift(via) ==
    /\ Free /\ current = 0
    /\ via \in Handlers => handler = NoHandler
    /\ \/ /\ CanOpen /\ Preflight(FALSE, TRUE)
          /\ ~LiveShift /\ used < MaxReceipts /\ made < MaxShifts
          /\ ToWrite("Open", NoKey, via)
          /\ UNCHANGED handler
       \/ /\ CanOpen /\ Preflight(FALSE, TRUE) /\ LiveShift
          /\ Caught(via) /\ UNCHANGED op
       \/ /\ CanOpen /\ Preflight(FALSE, FALSE)
          /\ Caught(via) /\ UNCHANGED op
       \/ /\ ~CanOpen
          /\ Caught(via) /\ UNCHANGED <<op, next, runtime, faults>>
    /\ UNCHANGED <<rows, sync, server>>

\* Bug: the sale a return refers to is not looked at.
FiscalizeAnyReturn(k) ==
    /\ Free /\ current # 0 /\ Unresolved = {} /\ ~Known(k)
    /\ Preflight(TRUE, TRUE) /\ used < MaxReceipts
    /\ ToWrite(KindOf[k], k, "fiscalize")
    /\ UNCHANGED <<rows, handler, sync, server>>
Fiscalize(k) ==
    /\ Free /\ current # 0 /\ Unresolved = {} /\ ~Known(k)
    /\ KindOf[k] \in SaleKinds => shift[current] \in {"Open", "Closing"}
    /\ KindOf[k] = "Return" =>
          \E r \in Receipts : ledger[r].key = OriginalOf[k] /\ ledger[r].status = "Fiscalized"
    /\ \/ /\ Preflight(TRUE, TRUE) /\ used < MaxReceipts
          /\ ToWrite(KindOf[k], k, "fiscalize")
       \/ /\ Preflight(TRUE, FALSE) /\ UNCHANGED op
    /\ UNCHANGED <<rows, handler, sync, server>>

\* Bug: a confirmed Z report is not found again.
ZReportsUnsettled(s) ==
    {r \in Unresolved : ledger[r].kind = "Z" /\ ledger[r].shift = s}
ZReports(s) == {r \in 1 .. used : /\ ledger[r].kind = "Z" /\ ledger[r].shift = s
                                  /\ ledger[r].status = "Fiscalized"}
Closings(s) == {r \in 1 .. used : /\ ledger[r].kind = "Close" /\ ledger[r].shift = s
                                  /\ ledger[r].status = "Fiscalized"}

\* close_shift reuses a Z report that DPS has already confirmed.
CloseShift ==
    /\ Free /\ handler = NoHandler /\ current # 0 /\ shift[current] # "Closed"
    /\ \/ /\ Unresolved = {} /\ Preflight(TRUE, TRUE)
          /\ \/ \E z \in ZReports(current) : ToFinalize(z, "fiscal_close_shift")
             \/ /\ ZReports(current) = {} /\ used < MaxReceipts
                /\ ToWrite("Z", NoKey, "fiscal_close_shift")
          /\ UNCHANGED handler
       \/ /\ Unresolved = {} /\ Preflight(TRUE, FALSE)
          /\ Caught("fiscal_close_shift") /\ UNCHANGED op
       \/ /\ Unresolved # {}
          /\ Caught("fiscal_close_shift") /\ UNCHANGED <<op, next, runtime, faults>>
    /\ UNCHANGED <<rows, sync, server>>

\* The second half of close_shift: a preflight of its own, then Close Shift,
\* the confirmed one if the shift has one.
CloseAfterZ ==
    /\ op.pc = "z_done"
    /\ \/ /\ Preflight(TRUE, TRUE)
          /\ \/ \E c \in Closings(ledger[op.rid].shift) : ToFinalize(c, op.via)
             \/ /\ Closings(ledger[op.rid].shift) = {} /\ used < MaxReceipts
                /\ ToWrite("Close", NoKey, op.via)
          /\ UNCHANGED handler
       \/ /\ Preflight(TRUE, FALSE)
          /\ Caught(op.via) /\ op' = Idle
    /\ UNCHANGED <<rows, sync, server>>

-----------------------------------------------------------------------------
(* Writing the document, sending it and reading the answer.                *)

NewRow(status) ==
    [kind |-> op.kind, status |-> status, state |-> "NotSent", num |-> next,
     shift |-> IF op.kind = "Open" THEN made + 1 ELSE current, key |-> op.key]

Append(status) ==
    /\ ledger' = [ledger EXCEPT ![used + 1] = NewRow(status)]
    /\ used' = used + 1
    /\ next' = next + 1

NewShift(status) ==
    /\ made' = made + 1
    /\ shift' = [shift EXCEPT ![made + 1] = status]

\* The number, the ledger row and the signed document are committed together
\* before the request leaves.
WriteDocument ==
    /\ op.pc = "write"
    /\ Append("Sending")
    /\ \/ op.kind = "Open" /\ NewShift("Opening")
       \/ op.kind = "Z" /\ shift' = [shift EXCEPT ![current] = "Closing"] /\ UNCHANGED made
       \/ op.kind \notin {"Open", "Z"} /\ UNCHANGED <<shift, made>>
    /\ op' = [op EXCEPT !.pc = "wait", !.rid = used + 1, !.reply = "sent"]
    /\ UNCHANGED <<current, runtime, handler, sync, server, faults>>

\* The signer is down.  Whether the unsent row survives is up to the caller:
\* open_shift and cash_operation commit it, fiscal_close_shift rolls a Z back,
\* and commits a Close Shift when its reconciliation of the Z commits.
KeepsDraft(kind) ==
    CASE kind \in {"Open", "Service"} -> {TRUE}
      [] kind = "Z" -> {FALSE}
      [] OTHER -> BOOLEAN

SignerFails ==
    /\ op.pc = "write" /\ Fault
    /\ \E keep \in KeepsDraft(op.kind) :
          \/ /\ keep /\ Append("Draft")
             /\ IF op.kind = "Open" THEN NewShift("Error") ELSE UNCHANGED <<shift, made>>
          \/ ~keep /\ UNCHANGED <<ledger, used, next, shift, made>>
    /\ Caught(op.via) /\ op' = Idle
    /\ UNCHANGED <<current, runtime, sync, server>>

\* An exception out of _send_online; open_shift marks its shift.
Raise ==
    /\ Caught(op.via) /\ op' = Idle
    /\ shift' = IF ledger[op.rid].kind = "Open"
                THEN [shift EXCEPT ![ledger[op.rid].shift] = "Error"] ELSE shift
    /\ UNCHANGED <<next, used, made, current, runtime, sync, dps>>

Ticket ==
    /\ op.pc = "wait" /\ op.reply = "accepted"
    /\ Settle(op.rid, "Fiscalized", "Confirmed")
    /\ IF ledger[op.rid].kind \in ShiftKinds THEN ToFinalize(op.rid, op.via) ELSE op' = Idle
    /\ UNCHANGED <<next, used, shift, made, current, runtime, handler, sync, server, faults>>

Rejection ==
    /\ op.pc = "wait" /\ op.reply = "rejected"
    /\ Settle(op.rid, "Error", "Rejected")
    /\ Raise
    /\ UNCHANGED <<late, faults>>

\* HTTP 4xx: the document was not processed.
HttpRefusal ==
    /\ op.pc = "wait" /\ op.reply = "sent" /\ Fault
    /\ Settle(op.rid, "Error", "NotSent")
    /\ Raise
    /\ UNCHANGED late

\* Bug: a timeout is taken for a definite failure.
TimeoutIsRefusal ==
    /\ op.pc = "wait" /\ op.reply # "sent" /\ Fault
    /\ Settle(op.rid, "Error", "NotSent")
    /\ Raise
    /\ UNCHANGED late
\* Timeout, dropped connection, HTTP 5xx or a ticket that does not verify.
NoUsableAnswer ==
    /\ op.pc = "wait"
    /\ op.reply = "sent" => LateDelivery
    /\ IF op.reply = "lost" THEN UNCHANGED faults ELSE Fault
    /\ late' = IF op.reply = "sent" THEN late \cup {op.rid} ELSE late
    /\ Settle(op.rid, "Uncertain", "Uncertain")
    /\ Raise

-----------------------------------------------------------------------------
(* Applying a confirmed shift document to the shift and the register.      *)

FinalizeOpen(r) ==
    LET s == ledger[r].shift IN
    /\ ledger[r].kind = "Open"
    /\ \/ /\ current \in {0, s}
          /\ shift' = [shift EXCEPT ![s] = "Open"]
          /\ current' = s /\ runtime' = "Online"
          /\ UNCHANGED handler
       \/ /\ current \notin {0, s}
          /\ runtime' \in {runtime, "Blocked"}
          /\ Caught(op.via) /\ UNCHANGED <<shift, current>>
    /\ op' = Idle

FinalizeZ(r) ==
    LET s == ledger[r].shift IN
    /\ ledger[r].kind = "Z"
    /\ shift' = [shift EXCEPT ![s] = IF @ = "Closed" THEN @ ELSE "Closing"]
    /\ op' = IF op.via = "fiscal_close_shift" THEN [op EXCEPT !.pc = "z_done"] ELSE Idle
    /\ UNCHANGED <<current, runtime, handler>>

\* Bug: the register keeps its closed shift.
FinalizeCloseKeepsCurrent(r) ==
    /\ ledger[r].kind = "Close"
    /\ shift' = [shift EXCEPT ![ledger[r].shift] = "Closed"]
    /\ op' = Idle
    /\ UNCHANGED <<current, runtime, handler>>
FinalizeClose(r) ==
    /\ ledger[r].kind = "Close"
    /\ shift' = [shift EXCEPT ![ledger[r].shift] = "Closed"]
    /\ current' = 0 /\ runtime' = "Online"
    /\ op' = Idle
    /\ UNCHANGED handler

Finalize ==
    /\ op.pc = "finalize"
    /\ FinalizeOpen(op.rid) \/ FinalizeZ(op.rid) \/ FinalizeClose(op.rid)
    /\ UNCHANGED <<next, ledger, used, made, sync, server, faults>>

-----------------------------------------------------------------------------
(* Reconciliation and resumption of unsettled documents.                   *)

Releasable(r) ==
    /\ ledger[r].status = "Error" /\ ledger[r].state \in {"NotSent", "Rejected"}
    /\ dps.next = ledger[r].num /\ next = ledger[r].num + 1 /\ ~Later(r)

\* Bug: a timed out document is taken for delivered without asking DPS.
ConfirmBlindly(r) ==
    /\ ledger[r].status \in {"Sending", "Uncertain", "Error"}
    /\ Settle(r, "Fiscalized", "Confirmed")
    /\ IF ledger[r].kind \in ShiftKinds THEN ToFinalize(r, "reconcile") ELSE UNCHANGED op
    /\ UNCHANGED <<next, runtime>>
Confirm(r) ==
    /\ \/ ledger[r].status = "Fiscalized" /\ UNCHANGED ledger
       \/ /\ ledger[r].status \in {"Sending", "Uncertain", "Error"}
          /\ Holds(ledger[r].num)
          /\ Settle(r, "Fiscalized", "Confirmed")
    /\ IF ledger[r].kind \in ShiftKinds THEN ToFinalize(r, "reconcile") ELSE UNCHANGED op
    /\ UNCHANGED <<next, runtime>>

\* Bugs: the number of the cancelled row is not handed back; or it is wiped.
ReleaseKeepsNumber(r) ==
    /\ ~Holds(ledger[r].num) /\ Releasable(r)
    /\ Settle(r, "Cancelled", ledger[r].state)
    /\ runtime' = "Online"
    /\ UNCHANGED <<next, op>>
ReleaseWipesNumber(r) ==
    /\ ~Holds(ledger[r].num) /\ Releasable(r)
    /\ ledger' = [ledger EXCEPT ![r].status = "Cancelled", ![r].num = 0]
    /\ next' = ledger[r].num /\ runtime' = "Online"
    /\ UNCHANGED op
Release(r) ==
    /\ ~Holds(ledger[r].num) /\ Releasable(r)
    /\ Settle(r, "Cancelled", ledger[r].state)
    /\ next' = ledger[r].num /\ runtime' = "Online"
    /\ UNCHANGED op

Reconcile(r) ==
    /\ Free
    /\ Confirm(r) \/ Release(r)
    /\ UNCHANGED <<used, shift, made, current, sync, server, faults>>

\* recovery.py takes the Uncertain receipts, the outbox the receipts of its sales.
AutoReconcile(r) ==
    /\ r \in Unresolved
    /\ ledger[r].status = "Uncertain" \/ ledger[r].kind \in SaleKinds
    /\ Reconcile(r)
    /\ UNCHANGED handler

\* api.reconcile_receipt takes any receipt.
DeskReconcile(r) ==
    /\ r <= used /\ Reconcile(r)
    /\ UNCHANGED handler

Suspects ==
    {r \in 1 .. used :
        /\ ledger[r].status \in {"Uncertain", "Error", "Fiscalized"}
        /\ IF handler.who = "fiscal_open_shift" THEN ledger[r].kind = "Open"
           ELSE ledger[r].kind \in {"Z", "Close"} /\ ledger[r].shift = handler.shift}

\* The except clauses of fiscal_open_shift and fiscal_close_shift reconcile the
\* latest document of the kind; the close handler then calls close_shift again.
HandlerReconciles ==
    /\ handler # NoHandler /\ Free
    /\ \/ \E r \in Suspects :
             /\ \A q \in Suspects : ledger[q].num <= ledger[r].num
             /\ Reconcile(r)
       \/ UNCHANGED <<local, op, sync, server, faults>>
    /\ handler' = NoHandler

Newest(kind, s) ==
    LET docs == {r \in 1 .. used : ledger[r].kind = kind /\ ledger[r].shift = s}
    IN  {r \in docs : \A q \in docs : ledger[q].num <= ledger[r].num}

\* recovery.py applies a confirmed closing that its worker did not live to apply;
\* it does not take the lock of the register.
RepairClosing(s) ==
    /\ shift[s] = "Closing"
    /\ \A kind \in {"Z", "Close"} : \E r \in Newest(kind, s) : ledger[r].status = "Fiscalized"
    /\ shift' = [shift EXCEPT ![s] = "Closed"]
    /\ IF current = s THEN current' = 0 /\ runtime' = "Online" ELSE UNCHANGED <<current, runtime>>
    /\ UNCHANGED <<next, ledger, used, made, op, handler, sync, server, faults>>

\* Bug: a row the signer never signed is left alone.
ResumeSentOnly(r) ==
    /\ Free /\ r \in Unresolved
    /\ ledger[r].kind \in SaleKinds
    /\ ledger[r].status \in {"Sending", "Uncertain"} /\ ~Holds(ledger[r].num)
    /\ ~Later(r) /\ dps.open /\ dps.next = ledger[r].num
    /\ Settle(r, "Sending", "NotSent")
    /\ op' = [Idle EXCEPT !.pc = "wait", !.rid = r, !.reply = "sent", !.via = "resume"]
    /\ UNCHANGED <<runtime, next, used, shift, made, current, handler, sync, server, faults>>
\* resume_pending_sale_receipt: send the same row again if DPS expects its number.
Resume(r) ==
    /\ Free /\ r \in Unresolved
    /\ ledger[r].kind \in SaleKinds
    /\ ledger[r].status \in {"Sending", "Uncertain"} => ~Holds(ledger[r].num)
    /\ ledger[r].status # "Error"
    /\ IF ~Later(r) /\ dps.open /\ dps.next = ledger[r].num
       THEN /\ Settle(r, "Sending", "NotSent")
            /\ op' = [Idle EXCEPT !.pc = "wait", !.rid = r, !.reply = "sent", !.via = "resume"]
            /\ UNCHANGED runtime
       ELSE runtime' = "Blocked" /\ UNCHANGED <<ledger, op>>
    /\ UNCHANGED <<next, used, shift, made, current, handler, sync, server, faults>>

-----------------------------------------------------------------------------
(* sync_register_state: reads the register, asks DPS, then writes, unlocked. *)

SyncLoad ==
    /\ sync.pc = "idle" /\ (FreshSync \/ used > 0)
    /\ sync' = [pc |-> "loaded", next |-> next, fresh |-> Fresh, runtime |-> runtime, seen |-> 0]
    /\ UNCHANGED <<local, op, handler, server, faults>>

SyncQuery ==
    /\ sync.pc = "loaded"
    /\ sync' = [sync EXCEPT !.pc = "queried", !.seen = dps.next]
    /\ UNCHANGED <<local, op, handler, server, faults>>

SyncApply ==
    /\ sync.pc = "queried"
    /\ sync' = NoSync
    /\ \/ /\ sync.seen = sync.next
          /\ runtime' = IF sync.runtime = "Blocked" THEN "Online" ELSE runtime
          /\ UNCHANGED next
       \/ /\ sync.seen # sync.next /\ sync.fresh
          /\ next' = sync.seen
          /\ runtime' = IF sync.runtime = "Blocked" THEN "Online" ELSE runtime
       \/ /\ sync.seen # sync.next /\ ~sync.fresh
          /\ runtime' = "Blocked" /\ UNCHANGED next
    /\ UNCHANGED <<rows, op, handler, server, faults>>

-----------------------------------------------------------------------------
(* The fiscal server, the network and crashes.                             *)

Acceptable(r) == ledger[r].num = dps.next /\ (dps.open <=> ledger[r].kind # "Open")

Take(r) ==
    dps' = [next |-> dps.next + 1,
            open |-> ledger[r].kind # "Close",
            docs |-> dps.docs \cup {r}]

ServerAccepts ==
    /\ op.pc = "wait" /\ op.reply = "sent" /\ Acceptable(op.rid)
    /\ Take(op.rid)
    /\ op' = [op EXCEPT !.reply = "accepted"]
    /\ UNCHANGED <<local, handler, sync, late, faults>>

ServerRejects ==
    /\ op.pc = "wait" /\ op.reply = "sent"
    /\ IF Acceptable(op.rid) THEN Fault ELSE UNCHANGED faults
    /\ op' = [op EXCEPT !.reply = "rejected"]
    /\ UNCHANGED <<local, handler, sync, server>>

RequestLost ==
    /\ op.pc = "wait" /\ op.reply = "sent" /\ Fault
    /\ op' = [op EXCEPT !.reply = "lost"]
    /\ UNCHANGED <<local, handler, sync, server>>

LateArrival(r) ==
    /\ r \in late /\ late' = late \ {r}
    /\ IF Acceptable(r) THEN Take(r) ELSE UNCHANGED dps
    /\ UNCHANGED <<local, op, handler, sync, faults>>

\* The worker dies: only what was committed remains.  The Redis lock outlives
\* the HTTP timeout, so without late delivery DPS has decided by then.
Crash ==
    /\ ~Free \/ handler # NoHandler
    /\ op.reply = "sent" => LateDelivery
    /\ Fault
    /\ late' = IF op.reply = "sent" THEN late \cup {op.rid} ELSE late
    /\ op' = Idle /\ handler' = NoHandler
    /\ UNCHANGED <<local, sync, dps>>

-----------------------------------------------------------------------------
Exchange ==
    \/ WriteDocument \/ SignerFails \/ Ticket \/ Rejection \/ HttpRefusal \/ NoUsableAnswer
    \/ ServerAccepts \/ ServerRejects \/ RequestLost

Next ==
    \/ \E via \in Entry \cap {"fiscal_open_shift", "open_shift"} : OpenShift(via)
    \/ \E k \in Keys : Fiscalize(k)
    \/ CloseShift \/ CloseAfterZ
    \/ Exchange
    \/ Finalize
    \/ \E r \in Receipts : AutoReconcile(r) \/ Resume(r)
    \/ "reconcile_receipt" \in Entry /\ \E r \in Receipts : DeskReconcile(r)
    \/ HandlerReconciles
    \/ \E s \in Shifts : RepairClosing(s)
    \/ "sync_register_state" \in Entry /\ (SyncLoad \/ SyncQuery \/ SyncApply)
    \/ \E r \in late : LateArrival(r)
    \/ Crash

Spec == Init /\ [][Next]_vars

\* Operations in progress finish, and the schedulers (every minute the outbox,
\* every five minutes recovery) keep coming back to unsettled documents.
Fairness ==
    /\ WF_vars(WriteDocument \/ SignerFails)
    /\ WF_vars(ServerAccepts \/ ServerRejects \/ RequestLost)
    /\ WF_vars(Ticket \/ Rejection \/ NoUsableAnswer)
    /\ WF_vars(Finalize) /\ WF_vars(CloseAfterZ) /\ WF_vars(HandlerReconciles)
    /\ \A r \in Receipts : SF_vars(AutoReconcile(r)) /\ SF_vars(Resume(r))

FairSpec == Spec /\ Fairness

-----------------------------------------------------------------------------
(* Properties.                                                             *)

Kinds  == {"None"} \cup KeyKinds \cup ShiftKinds
Row    == [kind : Kinds, status : Statuses,
           state : {"NotSent", "Uncertain", "Rejected", "Confirmed"},
           num : Nat, shift : 0 .. MaxShifts, key : Keys \cup {NoKey}]
Operation ==
    [pc : {"idle", "write", "wait", "finalize", "z_done"}, kind : Kinds, key : Keys \cup {NoKey},
     rid : 0 .. MaxReceipts, reply : {"none", "sent", "accepted", "rejected", "lost"},
     via : {"none", "open_shift", "fiscalize", "resume", "reconcile"} \cup Handlers]

LedgerType  == /\ next \in Nat \ {0}
               /\ ledger \in [Receipts -> Row]
               /\ used \in 0 .. MaxReceipts
ShiftType   == /\ shift \in [Shifts -> {"None", "Opening", "Open", "Closing", "Closed", "Error"}]
               /\ made \in 0 .. MaxShifts
               /\ current \in 0 .. MaxShifts
               /\ runtime \in {"Online", "Blocked"}
WorkerType  == /\ op \in Operation
               /\ handler \in [who : {"none"} \cup Handlers, shift : 0 .. MaxShifts]
SyncType    == sync \in [pc : {"idle", "loaded", "queried"}, next : Nat, fresh : BOOLEAN,
                         runtime : {"Online", "Blocked"}, seen : Nat]
ServerType  == /\ dps \in [next : Nat \ {0}, open : BOOLEAN, docs : SUBSET Receipts]
               /\ late \subseteq Receipts

\* Every variable keeps its type.
TypeOK == LedgerType /\ ShiftType /\ WorkerType /\ SyncType /\ ServerType /\ faults \in 0 .. MaxFaults

\* At most one document is in doubt, it carries the last number handed out, and
\* apart from it the local numbering and the numbering of DPS agree: the lock,
\* the allocator and the release of a number never open a gap ("continuous
\* ORDERNUM" of docs/prro-conformance.md).
NumberingInStep ==
    /\ \A r, q \in Unresolved : r = q
    /\ used > 0 /\ Unresolved = {} => next = dps.next
    /\ \A r \in Unresolved :
          /\ next = ledger[r].num + 1
          /\ dps.next = IF r \in dps.docs THEN next ELSE ledger[r].num

\* What the ledger calls Fiscalized is a document DPS holds, under that row:
\* looking a document up by its number alone never confirms the wrong one.
ConfirmedIsAccepted ==
    \A r \in Receipts : ledger[r].status = "Fiscalized" => r \in dps.docs

\* A document DPS holds is never given up: the ledger has it as Fiscalized or
\* still in doubt, never as rejected or cancelled with its number released.
AcceptedIsKept ==
    \A r \in dps.docs : ledger[r].status \in {"Sending", "Uncertain", "Fiscalized"}

\* So ledger and DPS hold the same documents but for the one in doubt, although the
\* answer, the worker or the released number of any of them may have been lost.
LedgerMatchesServer == ConfirmedIsAccepted /\ AcceptedIsKept

\* One sale, return or cash operation reaches DPS at most once, whatever was
\* lost, retried, reconciled or restarted on the way.
AcceptedOnce ==
    \A r, q \in dps.docs : ledger[r].key = ledger[q].key /\ ledger[r].key # NoKey => r = q

\* DPS gets one Z report and one closing of a shift, in this order, although a closing
\* resumes in the middle and the desk can bring back the opening of a closed shift.
OneZBeforeClose ==
    /\ \A z, q \in dps.docs :
          /\ ledger[z].kind \in {"Z", "Close"} /\ ledger[z].kind = ledger[q].kind
          /\ ledger[z].shift = ledger[q].shift
          => z = q
    /\ \A c \in dps.docs : ledger[c].kind = "Close" =>
          \E z \in dps.docs : /\ ledger[z].kind = "Z" /\ ledger[z].shift = ledger[c].shift
                              /\ ledger[z].num < ledger[c].num

\* A return reaches DPS only after its sale: the ledger has the sale as Fiscalized and
\* DPS holds a smaller number for it, if not always the row itself, as a late request
\* of a cancelled row may have taken the number of the sale.
ReturnAfterSale ==
    \A r \in dps.docs : ledger[r].kind = "Return" =>
        \E q \in Receipts : /\ ledger[q].key = OriginalOf[ledger[r].key]
                            /\ ledger[q].status = "Fiscalized"
                            /\ Holds(ledger[q].num) /\ ledger[q].num < ledger[r].num

\* Every confirmed opening and closing has been applied to its shift.
Applied ==
    \A r \in Receipts : ledger[r].status = "Fiscalized" =>
        /\ ledger[r].kind = "Open" => shift[ledger[r].shift] \in {"Open", "Closing", "Closed"}
        /\ ledger[r].kind = "Close" => shift[ledger[r].shift] = "Closed"

\* Shifts whose opening DPS has accepted and whose closing it has not.
OpenAtServer ==
    {s \in Shifts : /\ \E r \in dps.docs : ledger[r].kind = "Open" /\ ledger[r].shift = s
                    /\ \A r \in dps.docs : ledger[r].kind = "Close" => ledger[r].shift # s}
ClosedBefore(s) == \E r \in Receipts : /\ ledger[r].kind = "Close" /\ ledger[r].shift # s
                                       /\ ledger[r].status = "Fiscalized"

\* Once nothing is in doubt and nothing waits to be applied, the shift DPS has open, one
\* at most, is open in the ledger and the register works in it; in none only after another
\* shift was closed, for that closing may be confirmed again and take the shift away.
ShiftAgreesWithServer ==
    ConfirmedIsAccepted /\ Free /\ Unresolved = {} /\ Applied =>
        IF dps.open
        THEN \E s \in Shifts : /\ OpenAtServer = {s} /\ shift[s] \in {"Open", "Closing"}
                               /\ current = s \/ (current = 0 /\ ClosedBefore(s))
        ELSE OpenAtServer = {} /\ current = 0

\* The ledger is immutable: rows only settle, and a settled row stays settled.
LedgerIsImmutable ==
    [][\A r \in 1 .. used :
          /\ ledger[r].status \in {"Fiscalized", "Cancelled"} => ledger'[r] = ledger[r]
          /\ ledger'[r].num = ledger[r].num /\ ledger'[r].key = ledger[r].key]_vars

\* DPS holds some document under the number of every Fiscalized row, and no two
\* live rows share a number, even if requests arrive after their senders gave up.
NumbersAreConsumed ==
    /\ \A r \in Receipts : ledger[r].status = "Fiscalized" => Holds(ledger[r].num)
    /\ \A r, q \in 1 .. used : Live(r) /\ Live(q) /\ ledger[r].num = ledger[q].num => r = q

\* A sale or return in doubt is eventually settled: confirmed, or cancelled and
\* free to be fiscalized again.
SaleSettles ==
    \A r \in Receipts :
        ledger[r].kind \in SaleKinds /\ ledger[r].status \in Unsettled
            ~> ledger[r].status \in {"Fiscalized", "Cancelled"}

\* docs/pos/04-state-machines.md: a document DPS does not know is sent again, so
\* no delivery stays uncertain for ever.
UncertainSettles ==
    \A r \in Receipts :
        ledger[r].status = "Uncertain" ~> ledger[r].status # "Uncertain"

\* _finalize_confirmed_receipt applies a confirmation "idempotently": a closed
\* shift is not reopened by confirming its opening again.
ClosedIsFinal ==
    [][\A s \in Shifts : shift[s] = "Closed" => shift'[s] = "Closed"]_vars

\* The same docstring, of the register: it loses its current shift only when that
\* very shift is closed.
CurrentShiftIsKept ==
    [][current # 0 /\ current' # current => current' = 0 /\ shift'[current] = "Closed"]_vars

\* The Z report aggregates the shift: DPS holds no sale or return of the shift
\* that is newer than its Z report.
ZCoversShift ==
    \A z, r \in dps.docs :
        ledger[z].kind = "Z" /\ ledger[r].kind \in SaleKinds /\ ledger[z].shift = ledger[r].shift
            => ledger[r].num < ledger[z].num

\* The production runbook reads Blocked as a divergence of number or shift state.
BlockedIsDivergence ==
    Free /\ handler = NoHandler /\ Unresolved = {} /\ used > 0 /\ Applied /\ runtime = "Blocked"
        => next # dps.next \/ dps.open # (current # 0)

=============================================================================
