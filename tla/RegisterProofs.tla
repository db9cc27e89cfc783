---------------------------- MODULE RegisterProofs ----------------------------
(* Proofs about PRRORegister for every number of receipts, shifts, keys and   *)
(* failures.                                                                  *)
EXTENDS RegisterInvariant, RegisterRefinement, TLAPS

Punctual == ~LateDelivery /\ ~FreshSync

LEMMA Bounds == MaxReceipts \in Nat /\ MaxShifts \in Nat /\ MaxFaults \in Nat
BY ConstantsAssumption

-----------------------------------------------------------------------------
(* How the ledger and the server may move together.                           *)

LEMMA SameCore ==
  ASSUME CoreInv, UNCHANGED <<next, ledger, used, dps, late>>
  PROVE  /\ CoreInv'
         /\ Unresolved' = Unresolved
         /\ \A k \in Keys : Known(k)' = Known(k)
BY DEF CoreInv, Rows, LiveNumbers, LiveKeys, Accepted, NumberingInStep, ConfirmedIsAccepted,
       AcceptedIsKept, Unresolved, Known, Live

States == {"NotSent", "Uncertain", "Rejected", "Confirmed"}

LEMMA RowUpdate ==
  ASSUME NEW row \in Row, NEW st \in Statuses, NEW state \in States
  PROVE  LET new == [row EXCEPT !.status = st, !.state = state]
         IN  /\ new \in Row /\ new.status = st /\ new.num = row.num
             /\ new.key = row.key /\ new.kind = row.kind /\ new.shift = row.shift
BY DEF Row, States

\* What Settle does to the ledger.
LEMMA SettleRow ==
  ASSUME TypeOK, NEW r \in Receipts, NEW st \in Statuses, NEW state \in States,
         Settle(r, st, state)
  PROVE  /\ ledger' \in [Receipts -> Row]
         /\ ledger'[r].status = st
         /\ \A q \in Receipts : /\ ledger'[q].num = ledger[q].num /\ ledger'[q].key = ledger[q].key
                                /\ ledger'[q].kind = ledger[q].kind
                                /\ ledger'[q].shift = ledger[q].shift
                                /\ q # r => ledger'[q] = ledger[q]
<1> DEFINE new == [ledger[r] EXCEPT !.status = st, !.state = state]
<1>1. ledger \in [Receipts -> Row] /\ ledger[r] \in Row
  BY DEF TypeOK, LedgerType
<1>2. ledger' = [ledger EXCEPT ![r] = new]
  BY DEF Settle
<1>3. /\ new \in Row /\ new.status = st /\ new.num = ledger[r].num /\ new.key = ledger[r].key
      /\ new.kind = ledger[r].kind /\ new.shift = ledger[r].shift
  BY <1>1 DEF Row, States
<1> HIDE DEF new
<1> QED BY <1>1, <1>2, <1>3

LEMMA SettleCore ==
  ASSUME TypeOK, CoreInv,
         NEW r \in Unresolved,
         NEW st \in {"Sending", "Uncertain", "Error", "Fiscalized"},
         NEW state \in States,
         Settle(r, st, state), UNCHANGED <<next, used, dps, late>>,
         st = "Fiscalized" => r \in dps.docs,
         st = "Error" => r \notin dps.docs
  PROVE  /\ CoreInv' /\ LedgerType'
         /\ Unresolved' = IF st = "Fiscalized" THEN {} ELSE {r}
         /\ r \in 1 .. used /\ ledger'[r].status = st
<1>1. r \in 1 .. used /\ r \in Receipts /\ ledger[r].status \in Unsettled
  BY Bounds DEF Unresolved, TypeOK, LedgerType, Receipts
<1>2. /\ ledger' \in [Receipts -> Row]
      /\ ledger'[r].status = st
      /\ \A q \in Receipts : /\ ledger'[q].num = ledger[q].num /\ ledger'[q].key = ledger[q].key
                             /\ q # r => ledger'[q] = ledger[q]
  BY <1>1, SettleRow DEF Statuses, Unsettled
<1>3. 1 .. used \subseteq Receipts /\ used \in Nat /\ next \in Nat
  BY Bounds DEF TypeOK, LedgerType, Receipts
<1>4. \A q \in Unresolved : q = r
  BY DEF CoreInv, NumberingInStep
<1>5. Unresolved' = IF st = "Fiscalized" THEN {} ELSE {r}
  BY <1>1, <1>2, <1>3, <1>4 DEF Unresolved, Unsettled
<1>6. \A q \in 1 .. used : Live(q)' = Live(q)
  BY <1>1, <1>2, <1>3 DEF Live, Unsettled
<1>7. Rows'
  BY <1>1, <1>2, <1>3, <1>6 DEF CoreInv, Rows, Unsettled, Receipts
<1>8. LiveNumbers' /\ LiveKeys' /\ Accepted'
  BY <1>2, <1>3, <1>6 DEF CoreInv, LiveNumbers, LiveKeys, Accepted
<1>9. NumberingInStep'
  <2>1. CASE st = "Fiscalized"
    BY <2>1, <1>1, <1>3, <1>5 DEF CoreInv, NumberingInStep
  <2>2. CASE st # "Fiscalized"
    BY <2>2, <1>1, <1>2, <1>5 DEF CoreInv, NumberingInStep
  <2> QED BY <2>1, <2>2
<1>10. ConfirmedIsAccepted'
  BY <1>2 DEF CoreInv, ConfirmedIsAccepted
<1>11. AcceptedIsKept'
  BY <1>1, <1>2, <1>3 DEF CoreInv, AcceptedIsKept, Accepted
<1> QED BY <1>1, <1>2, <1>5, <1>7, <1>8, <1>9, <1>10, <1>11 DEF CoreInv, LedgerType, TypeOK

LEMMA AppendCore ==
  ASSUME TypeOK, CoreInv, Writing, op.pc = "write",
         NEW st \in {"Sending", "Draft"}, Append(st), UNCHANGED <<dps, late>>
  PROVE  /\ CoreInv' /\ LedgerType'
         /\ used' = used + 1 /\ Unresolved' = {used'}
         /\ used' \notin dps.docs /\ ledger'[used'].status = st
<1> DEFINE new == used + 1
<1> USE Bounds DEF TypeOK, LedgerType, ServerType, Receipts
<1>1. new \in Receipts /\ used' = new /\ next' = next + 1 /\ next = dps.next /\ Unresolved = {}
  BY DEF Append, Writing
<1>2. NewRow(st) \in Row /\ NewRow(st).status = st /\ NewRow(st).num = next /\ NewRow(st).key = op.key
  BY DEF NewRow, Row, Statuses, Unsettled, Writing, WorkerType, Operation, ShiftType
<1>3. /\ ledger' \in [Receipts -> Row] /\ ledger'[new] = NewRow(st)
      /\ \A q \in Receipts : q # new => ledger'[q] = ledger[q]
  BY <1>1, <1>2 DEF Append
<1>4. Unresolved' = {new}
  <2> SUFFICES ASSUME NEW q \in Receipts
               PROVE  q \in Unresolved' <=> q = new
    BY <1>1 DEF Unresolved
  <2>1. CASE q = new
    BY <1>1, <1>2, <1>3, <2>1 DEF Unresolved, Unsettled
  <2>2. CASE q # new
    BY <1>1, <1>3, <2>2 DEF Unresolved
  <2> QED BY <2>1, <2>2
<1>5. new \notin dps.docs
  BY <1>1 DEF CoreInv, Accepted
<1>6. Rows'
  BY <1>1, <1>2, <1>3 DEF CoreInv, Rows
<1>7. LiveNumbers'
  <2>1. \A q \in 1 .. used : /\ Live(q)' = Live(q) /\ ledger'[q].num = ledger[q].num
                            /\ ledger[q].num \in Nat
    BY <1>1, <1>3 DEF Live, Row
  <2>2. \A q \in 1 .. used : Live(q) => ledger[q].num < next
    BY DEF CoreInv, LiveNumbers
  <2>3. \A q \in 1 .. used' : q = new \/ q \in 1 .. used
    BY <1>1
  <2> QED BY <2>1, <2>2, <2>3, <1>1, <1>2, <1>3 DEF CoreInv, LiveNumbers
<1>8. LiveKeys'
  BY <1>1, <1>2, <1>3 DEF CoreInv, LiveKeys, Live, Writing, Known
<1>9. Accepted' /\ NumberingInStep'
  BY <1>1, <1>2, <1>3, <1>4, <1>5 DEF CoreInv, Accepted, NumberingInStep
<1>10. ConfirmedIsAccepted' /\ AcceptedIsKept'
  BY <1>1, <1>2, <1>3, <1>5 DEF CoreInv, ConfirmedIsAccepted, AcceptedIsKept
<1> QED BY <1>1, <1>2, <1>3, <1>4, <1>5, <1>6, <1>7, <1>8, <1>9, <1>10 DEF CoreInv

LEMMA ReleaseCore ==
  ASSUME TypeOK, CoreInv, NEW r \in 1 .. used, Release(r), UNCHANGED <<used, dps, late>>
  PROVE  CoreInv' /\ LedgerType' /\ Unresolved' = {} /\ used > 0
<1>1. /\ r \in Receipts /\ r \in Unresolved /\ ledger[r].status = "Error" /\ used > 0
      /\ dps.next = ledger[r].num /\ next = ledger[r].num + 1 /\ next' = ledger[r].num
      /\ Settle(r, "Cancelled", ledger[r].state)
  BY Bounds DEF Release, Releasable, Unresolved, Unsettled, TypeOK, LedgerType, Receipts
<1>2. /\ 1 .. used \subseteq Receipts /\ used \in Nat
      /\ ledger \in [Receipts -> Row] /\ ledger[r].state \in States
      /\ \A q \in Receipts : ledger[q].num \in Nat
  BY <1>1, Bounds DEF TypeOK, LedgerType, Receipts, Row, States
<1>3. /\ ledger' \in [Receipts -> Row]
      /\ ledger'[r].status = "Cancelled"
      /\ \A q \in Receipts : /\ ledger'[q].num = ledger[q].num /\ ledger'[q].key = ledger[q].key
                             /\ q # r => ledger'[q] = ledger[q]
  BY <1>1, <1>2, SettleRow DEF Statuses
<1>4. \A q \in Unresolved : q = r
  BY <1>1 DEF CoreInv, NumberingInStep
<1>5. Unresolved' = {}
  BY <1>2, <1>3, <1>4 DEF Unresolved, Unsettled
<1>6. Rows'
  BY <1>1, <1>2, <1>3 DEF CoreInv, Rows, Receipts
<1>7. /\ ~Live(r)' /\ Live(r)
      /\ \A q \in 1 .. used : q # r => Live(q)' = Live(q)
  BY <1>1, <1>2, <1>3 DEF Live
<1>8. LiveNumbers'
  <2>1. \A q \in 1 .. used : q # r /\ Live(q) => ledger[q].num < ledger[r].num
    BY <1>1, <1>2, <1>7 DEF CoreInv, LiveNumbers
  <2> QED BY <2>1, <1>1, <1>2, <1>3, <1>7 DEF CoreInv, LiveNumbers
<1>9. LiveKeys'
  BY <1>2, <1>3, <1>7 DEF CoreInv, LiveKeys
<1>10. Accepted' /\ NumberingInStep'
  BY <1>1, <1>5 DEF CoreInv, Accepted, NumberingInStep
<1>11. ConfirmedIsAccepted' /\ AcceptedIsKept'
  BY <1>1, <1>2, <1>3 DEF CoreInv, ConfirmedIsAccepted, AcceptedIsKept, Accepted
<1>12. next' \in Nat \ {0}
  BY <1>1, <1>2 DEF CoreInv, Rows
<1> QED BY <1>1, <1>3, <1>5, <1>6, <1>8, <1>9, <1>10, <1>11, <1>12 DEF CoreInv, LedgerType, TypeOK

LEMMA TakeCore ==
  ASSUME TypeOK, CoreInv, NEW r \in Unresolved, ledger[r].status = "Sending",
         Acceptable(r), Take(r), UNCHANGED <<next, ledger, used, late>>
  PROVE  CoreInv' /\ ServerType' /\ Unresolved' = Unresolved /\ r \in dps'.docs /\ r \notin dps.docs
<1> USE Bounds DEF TypeOK, LedgerType, ServerType, Receipts, Take, Acceptable
<1>1. r \in 1 .. used /\ r \in Receipts
  BY DEF Unresolved
<1>2. /\ dps'.next = dps.next + 1 /\ dps'.docs = dps.docs \cup {r}
      /\ dps' \in [next : Nat \ {0}, open : BOOLEAN, docs : SUBSET Receipts]
  BY <1>1
<1>3. Unresolved' = Unresolved
  BY DEF Unresolved
<1>4. Rows' /\ LiveNumbers' /\ LiveKeys'
  BY DEF CoreInv, Rows, LiveNumbers, LiveKeys, Live
<1>5. r \notin dps.docs /\ NumberingInStep'
  BY <1>1, <1>2, <1>3 DEF CoreInv, NumberingInStep
<1>6. Accepted' /\ ConfirmedIsAccepted' /\ AcceptedIsKept'
  BY <1>1, <1>2 DEF CoreInv, Accepted, ConfirmedIsAccepted, AcceptedIsKept
<1> QED BY <1>2, <1>3, <1>4, <1>5, <1>6 DEF CoreInv

LEMMA PreflightCore ==
  ASSUME TypeOK, CoreInv, NEW expected, NEW passes \in BOOLEAN,
         Preflight(expected, passes), UNCHANGED <<ledger, used, dps, late>>
  PROVE  /\ CoreInv' /\ LedgerType'
         /\ Unresolved' = Unresolved
         /\ \A k \in Keys : Known(k)' = Known(k)
         /\ passes => next' = dps.next
         /\ runtime' \in {"Online", "Blocked"} /\ faults' \in 0 .. MaxFaults
<1> USE Bounds DEF TypeOK, LedgerType, ServerType, ShiftType
<1>1. next' = next \/ (used = 0 /\ next' = dps.next)
  BY DEF Preflight, Matches, Fresh
<1>2. /\ passes => next' = dps.next
      /\ runtime' \in {"Online", "Blocked"} /\ faults' \in 0 .. MaxFaults
  BY DEF Preflight, Fault
<1>3. CASE next' = next
  BY <1>3, <1>2, SameCore
<1>4. CASE used = 0 /\ next' = dps.next
  BY <1>4, <1>2 DEF CoreInv, Rows, LiveNumbers, LiveKeys, Accepted, NumberingInStep,
     ConfirmedIsAccepted, AcceptedIsKept, Unresolved, Known, Live
<1> QED BY <1>1, <1>3, <1>4

-----------------------------------------------------------------------------
(* The records of the worker.                                                 *)

Vias == {"none", "open_shift", "fiscalize", "resume", "reconcile"} \cup Handlers
HandlerType == handler \in [who : {"none"} \cup Handlers, shift : 0 .. MaxShifts]

LEMMA IdleOp == Idle \in Operation /\ Idle.pc = "idle" /\ NoHandler \in [who : {"none"} \cup Handlers, shift : 0 .. MaxShifts]
BY Bounds DEF Idle, Operation, Kinds, KeyKinds, ShiftKinds, NoHandler

\* An operation that ends releases the lock and leaves nothing to rely on.
LEMMA Ended ==
  ASSUME op' = Idle
  PROVE  op' \in Operation /\ Writing' /\ Waiting' /\ Closing'
BY IdleOp DEF Writing, Waiting, Closing

LEMMA WriteOp ==
  ASSUME NEW kind \in Kinds, NEW key \in Keys \cup {NoKey}, NEW via \in Vias,
         ToWrite(kind, key, via)
  PROVE  /\ op' \in Operation /\ op'.pc = "write" /\ op'.kind = kind /\ op'.key = key
         /\ op'.reply = "none" /\ Waiting' /\ Closing'
<1>1. op' \in Operation /\ op'.pc = "write" /\ op'.kind = kind /\ op'.key = key
  BY IdleOp DEF ToWrite, Operation, Vias
<1>2. op'.reply = "none"
  BY DEF ToWrite, Idle
<1> QED BY <1>1, <1>2 DEF Waiting, Closing

LEMMA FinalizeOp ==
  ASSUME NEW r \in 0 .. MaxReceipts, NEW via \in Vias, ToFinalize(r, via)
  PROVE  /\ op' \in Operation /\ op'.pc = "finalize" /\ op'.rid = r /\ op'.via = via
         /\ op'.reply = "none" /\ Writing' /\ Waiting'
<1>1. /\ op' \in Operation /\ op'.pc = "finalize" /\ op'.rid = r /\ op'.via = via
      /\ op'.reply = "none"
  BY Bounds DEF ToFinalize, Idle, Operation, Vias, Kinds, KeyKinds, ShiftKinds
<1> QED BY <1>1 DEF Writing, Waiting

LEMMA CaughtType ==
  ASSUME TypeOK, NEW via, Caught(via)
  PROVE  HandlerType'
BY DEF TypeOK, WorkerType, ShiftType, Caught, HandlerType

-----------------------------------------------------------------------------
(* One lemma per action: the invariant is inductive.                          *)

LEMMA OpenShiftStep ==
  ASSUME RegisterInvariant, NEW via \in {"fiscal_open_shift", "open_shift"}, OpenShift(via)
  PROVE  RegisterInvariant'
<1> USE Bounds DEF RegisterInvariant
<1>1. /\ Free /\ UNCHANGED <<ledger, used, shift, made, current, sync, dps, late>>
      /\ ShiftType /\ SyncType /\ ServerType /\ Syncing /\ HandlerType
  BY DEF OpenShift, rows, server, TypeOK, WorkerType, HandlerType
<1>2. SyncType' /\ ServerType' /\ Syncing'
  BY <1>1 DEF SyncType, ServerType, Syncing
<1>3. CASE CanOpen /\ Preflight(FALSE, TRUE) /\ used < MaxReceipts /\ made < MaxShifts
           /\ ToWrite("Open", NoKey, via) /\ UNCHANGED handler
  <2>1. CoreInv' /\ LedgerType' /\ Unresolved' = {} /\ next' = dps.next
        /\ runtime' \in {"Online", "Blocked"} /\ faults' \in 0 .. MaxFaults
    BY <1>1, <1>3, PreflightCore DEF CanOpen
  <2>2. /\ op' \in Operation /\ op'.pc = "write" /\ op'.kind = "Open" /\ op'.key = NoKey
        /\ Waiting' /\ Closing'
    BY <1>3, WriteOp DEF Kinds, ShiftKinds, Vias, Handlers
  <2>3. Writing'
    BY <1>1, <1>3, <2>1, <2>2 DEF Writing
  <2> QED BY <1>1, <1>2, <1>3, <2>1, <2>2, <2>3 DEF TypeOK, ShiftType, WorkerType, HandlerType
<1>4. CASE /\ UNCHANGED op /\ Caught(via)
           /\ Preflight(FALSE, TRUE) \/ Preflight(FALSE, FALSE) \/ UNCHANGED <<next, runtime, faults>>
  <2>1. CoreInv' /\ LedgerType' /\ runtime' \in {"Online", "Blocked"} /\ faults' \in 0 .. MaxFaults
    <3>1. CASE Preflight(FALSE, TRUE)   BY <1>1, <3>1, PreflightCore
    <3>2. CASE Preflight(FALSE, FALSE)  BY <1>1, <3>2, PreflightCore
    <3>3. CASE UNCHANGED <<next, runtime, faults>>
      BY <1>1, <3>3, SameCore DEF TypeOK, LedgerType, ShiftType
    <3> QED BY <1>4, <3>1, <3>2, <3>3
  <2>2. op'.pc = "idle" /\ op' \in Operation
    BY <1>1, <1>4 DEF Free, TypeOK, WorkerType
  <2>3. Writing' /\ Waiting' /\ Closing'
    BY <2>2 DEF Writing, Waiting, Closing
  <2> QED BY <1>1, <1>2, <1>4, <2>1, <2>2, <2>3, CaughtType DEF TypeOK, ShiftType, WorkerType, HandlerType
<1> QED BY <1>3, <1>4 DEF OpenShift

LEMMA FiscalizeStep ==
  ASSUME RegisterInvariant, NEW k \in Keys, Fiscalize(k)
  PROVE  RegisterInvariant'
<1> USE Bounds DEF RegisterInvariant
<1>1. /\ Free /\ Unresolved = {} /\ ~Known(k)
      /\ UNCHANGED <<ledger, used, shift, made, current, handler, sync, dps, late>>
      /\ SyncType' /\ ServerType' /\ Syncing' /\ HandlerType'
  BY DEF Fiscalize, rows, server, TypeOK, WorkerType, HandlerType, SyncType, ServerType, Syncing
<1>2. CASE Preflight(TRUE, TRUE) /\ used < MaxReceipts /\ ToWrite(KindOf[k], k, "fiscalize")
  <2>1. /\ CoreInv' /\ LedgerType' /\ Unresolved' = {} /\ next' = dps.next /\ ~Known(k)'
        /\ runtime' \in {"Online", "Blocked"} /\ faults' \in 0 .. MaxFaults
    BY <1>1, <1>2, PreflightCore
  <2>2. KindOf[k] \in KeyKinds
    BY ConstantsAssumption
  <2>3. /\ op' \in Operation /\ op'.pc = "write" /\ op'.kind = KindOf[k] /\ op'.key = k
        /\ Waiting' /\ Closing'
    BY <1>2, <2>2, WriteOp DEF Kinds, Vias
  <2>4. Writing'
    BY <1>1, <1>2, <2>1, <2>2, <2>3 DEF Writing, KeyKinds
  <2> QED BY <1>1, <1>2, <2>1, <2>3, <2>4 DEF TypeOK, ShiftType, WorkerType, HandlerType
<1>3. CASE Preflight(TRUE, FALSE) /\ UNCHANGED op
  <2>1. CoreInv' /\ LedgerType' /\ runtime' \in {"Online", "Blocked"} /\ faults' \in 0 .. MaxFaults
    BY <1>1, <1>3, PreflightCore
  <2>2. op'.pc = "idle" /\ op' \in Operation
    BY <1>1, <1>3 DEF Free, TypeOK, WorkerType
  <2>3. Writing' /\ Waiting' /\ Closing'
    BY <2>2 DEF Writing, Waiting, Closing
  <2> QED BY <1>1, <2>1, <2>2, <2>3 DEF TypeOK, ShiftType, WorkerType, HandlerType
<1> QED BY <1>2, <1>3 DEF Fiscalize

LEMMA CloseShiftStep ==
  ASSUME RegisterInvariant, CloseShift
  PROVE  RegisterInvariant'
<1> USE Bounds DEF RegisterInvariant
<1>1. /\ Free /\ UNCHANGED <<ledger, used, shift, made, current, sync, dps, late>>
      /\ SyncType' /\ ServerType' /\ Syncing' /\ HandlerType
  BY DEF CloseShift, rows, server, TypeOK, WorkerType, HandlerType, SyncType, ServerType, Syncing
<1> DEFINE via == "fiscal_close_shift"
<1>2. CASE Unresolved = {} /\ Preflight(TRUE, TRUE) /\ UNCHANGED handler
           /\ \/ \E z \in ZReports(current) : ToFinalize(z, via)
              \/ used < MaxReceipts /\ ToWrite("Z", NoKey, via)
  <2>1. /\ CoreInv' /\ LedgerType' /\ Unresolved' = {} /\ next' = dps.next
        /\ runtime' \in {"Online", "Blocked"} /\ faults' \in 0 .. MaxFaults
    BY <1>1, <1>2, PreflightCore
  <2>2. op' \in Operation /\ Writing' /\ Waiting' /\ Closing'
    <3>1. ASSUME NEW z \in ZReports(current), ToFinalize(z, via)
          PROVE  op' \in Operation /\ Writing' /\ Waiting' /\ Closing'
      <4>1. z \in 1 .. used /\ z \in 0 .. MaxReceipts /\ used > 0
        BY <3>1 DEF ZReports, TypeOK, LedgerType
      <4>2. /\ op' \in Operation /\ op'.pc = "finalize" /\ op'.rid = z
            /\ Writing' /\ Waiting'
        BY <3>1, <4>1, FinalizeOp DEF Vias, Handlers
      <4> QED BY <1>1, <2>1, <4>1, <4>2 DEF Closing
    <3>2. ASSUME used < MaxReceipts, ToWrite("Z", NoKey, via)
          PROVE  op' \in Operation /\ Writing' /\ Waiting' /\ Closing'
      <4>1. /\ op' \in Operation /\ op'.pc = "write" /\ op'.kind = "Z" /\ op'.key = NoKey
            /\ Waiting' /\ Closing'
        BY <3>2, WriteOp DEF Kinds, ShiftKinds, Vias, Handlers
      <4> QED BY <1>1, <2>1, <3>2, <4>1 DEF Writing
    <3> QED BY <1>2, <3>1, <3>2
  <2> QED BY <1>1, <1>2, <2>1, <2>2 DEF TypeOK, ShiftType, WorkerType, HandlerType
<1>3. CASE /\ UNCHANGED op /\ Caught(via)
           /\ Preflight(TRUE, FALSE) \/ UNCHANGED <<next, runtime, faults>>
  <2>1. CoreInv' /\ LedgerType' /\ runtime' \in {"Online", "Blocked"} /\ faults' \in 0 .. MaxFaults
    <3>1. CASE Preflight(TRUE, FALSE)  BY <1>1, <3>1, PreflightCore
    <3>2. CASE UNCHANGED <<next, runtime, faults>>
      BY <1>1, <3>2, SameCore DEF TypeOK, LedgerType, ShiftType
    <3> QED BY <1>3, <3>1, <3>2
  <2>2. op'.pc = "idle" /\ op' \in Operation
    BY <1>1, <1>3 DEF Free, TypeOK, WorkerType
  <2>3. Writing' /\ Waiting' /\ Closing'
    BY <2>2 DEF Writing, Waiting, Closing
  <2> QED BY <1>1, <1>3, <2>1, <2>2, <2>3, CaughtType DEF TypeOK, ShiftType, WorkerType, HandlerType
<1> QED BY <1>2, <1>3 DEF CloseShift

LEMMA CloseAfterZStep ==
  ASSUME RegisterInvariant, CloseAfterZ
  PROVE  RegisterInvariant'
<1> USE Bounds DEF RegisterInvariant
<1>1. /\ op.pc = "z_done" /\ Unresolved = {} /\ op.via \in Vias
      /\ UNCHANGED <<ledger, used, shift, made, current, sync, dps, late>>
      /\ SyncType' /\ ServerType' /\ Syncing' /\ HandlerType
  BY DEF CloseAfterZ, Closing, rows, server, TypeOK, WorkerType, Operation, Vias, HandlerType,
         SyncType, ServerType, Syncing
<1>2. CASE /\ Preflight(TRUE, TRUE) /\ UNCHANGED handler
           /\ \/ \E c \in Closings(ledger[op.rid].shift) : ToFinalize(c, op.via)
              \/ used < MaxReceipts /\ ToWrite("Close", NoKey, op.via)
  <2>1. /\ CoreInv' /\ LedgerType' /\ Unresolved' = {} /\ next' = dps.next
        /\ runtime' \in {"Online", "Blocked"} /\ faults' \in 0 .. MaxFaults
    BY <1>1, <1>2, PreflightCore
  <2>2. op' \in Operation /\ Writing' /\ Waiting' /\ Closing'
    <3>1. ASSUME NEW c \in Closings(ledger[op.rid].shift), ToFinalize(c, op.via)
          PROVE  op' \in Operation /\ Writing' /\ Waiting' /\ Closing'
      <4>1. c \in 1 .. used /\ c \in 0 .. MaxReceipts /\ used > 0
        BY <3>1 DEF Closings, TypeOK, LedgerType
      <4>2. /\ op' \in Operation /\ op'.pc = "finalize" /\ op'.rid = c
            /\ Writing' /\ Waiting'
        BY <1>1, <3>1, <4>1, FinalizeOp
      <4> QED BY <1>1, <2>1, <4>1, <4>2 DEF Closing
    <3>2. ASSUME used < MaxReceipts, ToWrite("Close", NoKey, op.via)
          PROVE  op' \in Operation /\ Writing' /\ Waiting' /\ Closing'
      <4>1. /\ op' \in Operation /\ op'.pc = "write" /\ op'.kind = "Close" /\ op'.key = NoKey
            /\ Waiting' /\ Closing'
        BY <1>1, <3>2, WriteOp DEF Kinds, ShiftKinds
      <4> QED BY <1>1, <2>1, <3>2, <4>1 DEF Writing
    <3> QED BY <1>2, <3>1, <3>2
  <2> QED BY <1>1, <1>2, <2>1, <2>2 DEF TypeOK, ShiftType, WorkerType, HandlerType
<1>3. CASE Preflight(TRUE, FALSE) /\ Caught(op.via) /\ op' = Idle
  <2>1. CoreInv' /\ LedgerType' /\ runtime' \in {"Online", "Blocked"} /\ faults' \in 0 .. MaxFaults
    BY <1>1, <1>3, PreflightCore
  <2> QED BY <1>1, <1>3, <2>1, Ended, CaughtType DEF TypeOK, ShiftType, WorkerType, HandlerType
<1> QED BY <1>2, <1>3 DEF CloseAfterZ

\* Opening a shift row keeps the types of the shifts.
LEMMA NewShiftType ==
  ASSUME TypeOK, made < MaxShifts, UNCHANGED <<current, runtime>>,
         NEW st \in {"Opening", "Error"}, NewShift(st)
  PROVE  ShiftType'
BY Bounds DEF TypeOK, ShiftType, NewShift, Shifts

LEMMA WriteDocumentStep ==
  ASSUME RegisterInvariant, WriteDocument
  PROVE  RegisterInvariant'
<1> USE Bounds DEF RegisterInvariant
<1>1. /\ op.pc = "write" /\ Append("Sending")
      /\ op' = [op EXCEPT !.pc = "wait", !.rid = used + 1, !.reply = "sent"]
      /\ UNCHANGED <<current, runtime, handler, sync, dps, late, faults>>
      /\ SyncType' /\ ServerType' /\ Syncing' /\ HandlerType'
  BY DEF WriteDocument, server, TypeOK, WorkerType, HandlerType, SyncType, ServerType, Syncing
<1>2. /\ CoreInv' /\ LedgerType' /\ used' = used + 1 /\ used' \notin dps.docs
      /\ ledger'[used'].status = "Sending"
  BY <1>1, AppendCore
<1>3. ShiftType'
  <2>1. CASE op.kind = "Open" /\ NewShift("Opening")
    BY <1>1, <2>1, NewShiftType DEF Writing
  <2>2. CASE op.kind # "Open" /\ UNCHANGED made
             /\ (shift' = [shift EXCEPT ![current] = "Closing"] \/ UNCHANGED shift)
    BY <1>1, <2>2 DEF TypeOK, ShiftType
  <2> QED BY <2>1, <2>2 DEF WriteDocument
<1>4. used \in Nat /\ used + 1 \in 0 .. MaxReceipts
  BY <1>1 DEF Writing, TypeOK, LedgerType
<1>5. op' \in Operation /\ op'.pc = "wait" /\ op'.rid = used + 1 /\ op'.reply = "sent"
  <2>1. op \in Operation
    BY DEF TypeOK, WorkerType
  <2>2. \A n \in 0 .. MaxReceipts :
           LET new == [op EXCEPT !.pc = "wait", !.rid = n, !.reply = "sent"]
           IN  new \in Operation /\ new.pc = "wait" /\ new.rid = n /\ new.reply = "sent"
    BY <2>1 DEF Operation
  <2> QED BY <1>1, <1>4, <2>2
<1>6. Writing' /\ Closing' /\ Waiting'
  BY <1>1, <1>2, <1>4, <1>5 DEF Writing, Closing, Waiting
<1> QED BY <1>1, <1>2, <1>3, <1>5, <1>6 DEF TypeOK, WorkerType, HandlerType

LEMMA SignerFailsStep ==
  ASSUME RegisterInvariant, SignerFails
  PROVE  RegisterInvariant'
<1> USE Bounds DEF RegisterInvariant
<1>1. /\ op.pc = "write" /\ Caught(op.via) /\ op' = Idle
      /\ UNCHANGED <<current, runtime, sync, dps, late>>
      /\ SyncType' /\ ServerType' /\ Syncing' /\ HandlerType' /\ faults' \in 0 .. MaxFaults
  BY CaughtType DEF SignerFails, server, Fault, TypeOK, SyncType, ServerType, Syncing
<1>2. CASE /\ Append("Draft")
           /\ IF op.kind = "Open" THEN NewShift("Error") ELSE UNCHANGED <<shift, made>>
  <2>1. CoreInv' /\ LedgerType'
    BY <1>1, <1>2, AppendCore
  <2>2. ShiftType'
    <3>1. CASE op.kind = "Open"
      BY <1>1, <1>2, <3>1, NewShiftType DEF Writing
    <3>2. CASE op.kind # "Open"
      BY <1>1, <1>2, <3>2 DEF TypeOK, ShiftType
    <3> QED BY <3>1, <3>2
  <2> QED BY <1>1, <2>1, <2>2, Ended DEF TypeOK, WorkerType, HandlerType
<1>3. CASE UNCHANGED <<ledger, used, next, shift, made>>
  BY <1>1, <1>3, SameCore, Ended DEF TypeOK, LedgerType, ShiftType, WorkerType, HandlerType
<1> QED BY <1>2, <1>3 DEF SignerFails

\* Raise leaves types and obligations in order, whatever happened to the ledger.
LEMMA RaiseFrame ==
  ASSUME RegisterInvariant, Raise
  PROVE  /\ UNCHANGED <<next, used, dps>>
         /\ ShiftType' /\ SyncType' /\ WorkerType'
         /\ Writing' /\ Waiting' /\ Closing' /\ Syncing'
<1>1. op' = Idle /\ Caught(op.via) /\ UNCHANGED <<next, used, made, current, runtime, sync, dps>>
  BY DEF Raise
<1>2. ShiftType'
  BY <1>1 DEF Raise, RegisterInvariant, TypeOK, ShiftType
<1>3. SyncType' /\ Syncing'
  BY <1>1 DEF RegisterInvariant, TypeOK, SyncType, Syncing
<1> QED BY <1>1, <1>2, <1>3, Ended, CaughtType DEF RegisterInvariant, WorkerType, HandlerType

LEMMA WaitingRow ==
  ASSUME RegisterInvariant, op.pc = "wait"
  PROVE  op.rid \in Unresolved /\ ledger[op.rid].status = "Sending"
BY DEF RegisterInvariant, Waiting, Unresolved, Unsettled

LEMMA AnswerStep ==
  ASSUME Punctual, RegisterInvariant, Rejection \/ HttpRefusal \/ NoUsableAnswer
  PROVE  RegisterInvariant'
<1>1. /\ op.pc = "wait" /\ op.rid \in Unresolved /\ Raise /\ late' = late
      /\ faults' \in 0 .. MaxFaults /\ RegisterInvariant
      /\ \/ Settle(op.rid, "Error", "Rejected") /\ op.reply # "accepted"
         \/ Settle(op.rid, "Error", "NotSent") /\ op.reply # "accepted"
         \/ Settle(op.rid, "Uncertain", "Uncertain")
  BY WaitingRow, Bounds DEF Rejection, HttpRefusal, NoUsableAnswer, Punctual, Fault, RegisterInvariant, TypeOK
<1>2. /\ UNCHANGED <<next, used, dps>>
      /\ ShiftType' /\ SyncType' /\ WorkerType'
      /\ Writing' /\ Waiting' /\ Closing' /\ Syncing'
  BY <1>1, RaiseFrame
<1>3. CoreInv' /\ LedgerType'
  <2>1. op.reply # "accepted" => op.rid \notin dps.docs
    BY <1>1 DEF RegisterInvariant, Waiting
  <2>2. CASE op.reply # "accepted" /\ \E state \in States : Settle(op.rid, "Error", state)
    BY <1>1, <1>2, <2>1, <2>2, SettleCore DEF RegisterInvariant
  <2>3. CASE Settle(op.rid, "Uncertain", "Uncertain")
    BY <1>1, <1>2, <2>3, SettleCore DEF RegisterInvariant, States
  <2> QED BY <1>1, <2>2, <2>3 DEF States
<1>4. ServerType'
  BY <1>1, <1>2 DEF RegisterInvariant, TypeOK, ServerType
<1> QED BY <1>1, <1>2, <1>3, <1>4 DEF RegisterInvariant, TypeOK

LEMMA TicketStep ==
  ASSUME RegisterInvariant, Ticket
  PROVE  RegisterInvariant'
<1>1. /\ op.rid \in Unresolved /\ op.rid \in dps.docs /\ op.rid \in 1 .. used
      /\ op.via \in Vias /\ op.rid \in 0 .. MaxReceipts
      /\ Settle(op.rid, "Fiscalized", "Confirmed")
      /\ UNCHANGED <<next, used, shift, made, current, runtime, handler, sync, dps, late, faults>>
      /\ ToFinalize(op.rid, op.via) \/ op' = Idle
  BY WaitingRow DEF Ticket, server, RegisterInvariant, Waiting, TypeOK, WorkerType, Operation, Vias
<1>2. CoreInv' /\ LedgerType' /\ Unresolved' = {}
  BY <1>1, SettleCore DEF RegisterInvariant, States
<1>3. op' \in Operation /\ Writing' /\ Waiting' /\ Closing'
  <2>1. CASE ToFinalize(op.rid, op.via)
    <3>1. /\ op' \in Operation /\ op'.pc = "finalize" /\ op'.rid = op.rid
          /\ Writing' /\ Waiting'
      BY <1>1, <2>1, FinalizeOp
    <3>2. used > 0
      BY <1>1, Bounds DEF RegisterInvariant, TypeOK, LedgerType
    <3> QED BY <1>1, <1>2, <3>1, <3>2 DEF Closing
  <2>2. CASE op' = Idle
    BY <2>2, Ended
  <2> QED BY <1>1, <2>1, <2>2
<1> QED BY <1>1, <1>2, <1>3 DEF RegisterInvariant, TypeOK, ShiftType, WorkerType, SyncType,
           ServerType, Syncing

LEMMA FinalizeStep ==
  ASSUME RegisterInvariant, Finalize
  PROVE  RegisterInvariant'
<1> USE Bounds DEF RegisterInvariant
<1>1. /\ op.pc = "finalize" /\ op \in Operation
      /\ UNCHANGED <<next, ledger, used, made, sync, dps, late, faults>>
      /\ ledger[op.rid].shift \in 0 .. MaxShifts
  BY DEF Finalize, server, TypeOK, LedgerType, WorkerType, Closing, Receipts, Row
<1>2. CoreInv' /\ LedgerType' /\ Unresolved' = Unresolved /\ SyncType' /\ ServerType' /\ Syncing'
  BY <1>1, SameCore DEF TypeOK, LedgerType, SyncType, ServerType, Syncing
<1>3. ShiftType'
  BY <1>1 DEF Finalize, FinalizeOpen, FinalizeZ, FinalizeClose, TypeOK, ShiftType
<1>4. HandlerType'
  <2>1. Caught(op.via) \/ UNCHANGED handler
    BY DEF Finalize, FinalizeOpen, FinalizeZ, FinalizeClose
  <2> QED BY <2>1, CaughtType DEF TypeOK, WorkerType, HandlerType
<1>5. op' \in Operation /\ Writing' /\ Waiting' /\ Closing'
  <2>1. CASE op' = Idle
    BY <2>1, Ended
  <2>2. CASE op.via = "fiscal_close_shift" /\ op' = [op EXCEPT !.pc = "z_done"]
    <3>1. op' \in Operation /\ op'.pc = "z_done"
      BY <1>1, <2>2 DEF Operation
    <3>2. Unresolved = {} /\ used > 0
      BY <1>1, <2>2 DEF Closing
    <3> QED BY <1>1, <1>2, <3>1, <3>2 DEF Writing, Waiting, Closing
  <2> QED BY <2>1, <2>2 DEF Finalize, FinalizeOpen, FinalizeZ, FinalizeClose
<1> QED BY <1>1, <1>2, <1>3, <1>4, <1>5 DEF TypeOK, WorkerType, HandlerType

\* The row DPS holds under the number of a live row is that row.
LEMMA HeldIsOwn ==
  ASSUME TypeOK, CoreInv, NEW r \in Unresolved, Holds(ledger[r].num)
  PROVE  r \in dps.docs
<1>1. PICK q \in dps.docs : ledger[q].num = ledger[r].num
  BY DEF Holds
<1>2. q \in 1 .. used /\ Live(q)
  BY DEF CoreInv, Accepted, AcceptedIsKept, Live
<1>3. r \in 1 .. used /\ Live(r)
  BY DEF Unresolved, Live, Unsettled
<1> QED BY <1>1, <1>2, <1>3 DEF CoreInv, LiveNumbers

LEMMA ReconcileCore ==
  ASSUME RegisterInvariant, NEW r \in 1 .. used, Reconcile(r), HandlerType'
  PROVE  RegisterInvariant'
<1> USE Bounds DEF RegisterInvariant
<1>1. /\ Free /\ UNCHANGED <<used, shift, made, current, sync, dps, late, faults>>
      /\ r \in 0 .. MaxReceipts /\ used > 0
      /\ SyncType' /\ ServerType' /\ Syncing'
  BY DEF Reconcile, server, TypeOK, LedgerType, SyncType, ServerType, Syncing
<1>2. CASE Confirm(r)
  <2>1. CoreInv' /\ LedgerType'
    <3>1. CASE UNCHANGED ledger
      BY <1>1, <1>2, <3>1, SameCore DEF Confirm, TypeOK, LedgerType
    <3>2. CASE /\ ledger[r].status \in {"Sending", "Uncertain", "Error"}
               /\ Holds(ledger[r].num) /\ Settle(r, "Fiscalized", "Confirmed")
      <4>1. r \in Unresolved
        BY <3>2 DEF Unresolved, Unsettled
      <4>2. r \in dps.docs
        BY <3>2, <4>1, HeldIsOwn
      <4> QED BY <1>1, <1>2, <3>2, <4>1, <4>2, SettleCore DEF Confirm, States
    <3> QED BY <1>2, <3>1, <3>2 DEF Confirm
  <2>2. op' \in Operation /\ Writing' /\ Waiting' /\ Closing'
    <3>1. CASE ToFinalize(r, "reconcile")
      <4>1. /\ op' \in Operation /\ op'.pc = "finalize" /\ op'.rid = r /\ op'.via = "reconcile"
            /\ Writing' /\ Waiting'
        BY <1>1, <3>1, FinalizeOp DEF Vias
      <4> QED BY <1>1, <4>1 DEF Closing
    <3>2. CASE UNCHANGED op
      <4>1. op'.pc = "idle" /\ op' \in Operation
        BY <1>1, <3>2 DEF Free, TypeOK, WorkerType
      <4> QED BY <4>1 DEF Writing, Waiting, Closing
    <3> QED BY <1>2, <3>1, <3>2 DEF Confirm
  <2> QED BY <1>1, <1>2, <2>1, <2>2 DEF Confirm, TypeOK, ShiftType, WorkerType, HandlerType
<1>3. CASE Release(r)
  <2>1. CoreInv' /\ LedgerType'
    BY <1>1, <1>3, ReleaseCore
  <2>2. op'.pc = "idle" /\ op' \in Operation /\ runtime' = "Online"
    BY <1>1, <1>3 DEF Release, Free, TypeOK, WorkerType
  <2>3. Writing' /\ Waiting' /\ Closing'
    BY <2>2 DEF Writing, Waiting, Closing
  <2> QED BY <1>1, <2>1, <2>2, <2>3 DEF TypeOK, ShiftType, WorkerType, HandlerType
<1> QED BY <1>2, <1>3 DEF Reconcile

LEMMA ReconcileStep ==
  ASSUME RegisterInvariant,
         \/ \E r \in Receipts : AutoReconcile(r) \/ DeskReconcile(r)
         \/ HandlerReconciles
  PROVE  RegisterInvariant'
<1>1. ASSUME NEW r \in Receipts, AutoReconcile(r) \/ DeskReconcile(r)
      PROVE  RegisterInvariant'
  <2>1. r \in 1 .. used /\ Reconcile(r) /\ UNCHANGED handler
    BY <1>1, Bounds DEF AutoReconcile, DeskReconcile, Unresolved, Receipts, RegisterInvariant, TypeOK, LedgerType
  <2>2. HandlerType'
    BY <2>1 DEF HandlerType, RegisterInvariant, TypeOK, WorkerType
  <2> QED BY <2>1, <2>2, ReconcileCore
<1>2. CASE HandlerReconciles
  <2>1. HandlerType' /\ handler' = NoHandler /\ Free
    BY <1>2, IdleOp DEF HandlerReconciles, HandlerType
  <2>2. ASSUME NEW r \in Suspects, Reconcile(r)
        PROVE  RegisterInvariant'
    <3>1. r \in 1 .. used
      BY DEF Suspects
    <3> QED BY <2>1, <2>2, <3>1, ReconcileCore
  <2>3. ASSUME UNCHANGED <<local, op, sync, server, faults>>
        PROVE  RegisterInvariant'
    <3>1. /\ UNCHANGED <<next, ledger, used, shift, made, current, runtime, op, sync, dps, late, faults>>
      BY <2>3 DEF local, server
    <3>2. CoreInv'
      BY <3>1, SameCore DEF RegisterInvariant
    <3>3. Writing' /\ Waiting' /\ Closing'
      BY <2>1, <3>1 DEF Free, Writing, Waiting, Closing
    <3> QED BY <2>1, <3>1, <3>2, <3>3 DEF RegisterInvariant, TypeOK, LedgerType, ShiftType, WorkerType,
               SyncType, ServerType, HandlerType, Syncing
  <2> QED BY <1>2, <2>2, <2>3 DEF HandlerReconciles
<1> QED BY <1>1, <1>2

LEMMA ResumeStep ==
  ASSUME RegisterInvariant, NEW r \in Receipts, Resume(r)
  PROVE  RegisterInvariant'
<1> USE Bounds DEF RegisterInvariant
<1>1. /\ Free /\ r \in Unresolved /\ r \in 1 .. used /\ r \in 0 .. MaxReceipts
      /\ UNCHANGED <<next, used, shift, made, current, handler, sync, dps, late, faults>>
      /\ SyncType' /\ ServerType' /\ Syncing' /\ HandlerType'
  BY DEF Resume, Unresolved, Receipts, server, TypeOK, LedgerType, WorkerType, HandlerType,
         SyncType, ServerType, Syncing
<1>2. CASE /\ dps.next = ledger[r].num /\ Settle(r, "Sending", "NotSent") /\ UNCHANGED runtime
           /\ op' = [Idle EXCEPT !.pc = "wait", !.rid = r, !.reply = "sent", !.via = "resume"]
  <2>1. r \notin dps.docs
    BY <1>1, <1>2 DEF CoreInv, NumberingInStep, TypeOK, ServerType
  <2>2. CoreInv' /\ LedgerType' /\ ledger'[r].status = "Sending"
    BY <1>1, <1>2, <2>1, SettleCore DEF States
  <2>3. op' \in Operation /\ op'.pc = "wait" /\ op'.rid = r /\ op'.reply = "sent"
    BY <1>1, <1>2, IdleOp DEF Operation
  <2>4. Writing' /\ Waiting' /\ Closing'
    BY <1>1, <2>1, <2>2, <2>3 DEF Writing, Waiting, Closing
  <2> QED BY <1>1, <1>2, <2>2, <2>3, <2>4 DEF TypeOK, ShiftType, WorkerType, HandlerType
<1>3. CASE runtime' = "Blocked" /\ UNCHANGED <<ledger, op>>
  <2>1. CoreInv' /\ LedgerType'
    BY <1>1, <1>3, SameCore DEF TypeOK, LedgerType
  <2>2. op'.pc = "idle" /\ op' \in Operation
    BY <1>1, <1>3 DEF Free, TypeOK, WorkerType
  <2>3. Writing' /\ Waiting' /\ Closing'
    BY <2>2 DEF Writing, Waiting, Closing
  <2> QED BY <1>1, <1>3, <2>1, <2>2, <2>3 DEF TypeOK, ShiftType, WorkerType, HandlerType
<1> QED BY <1>2, <1>3 DEF Resume

\* Whoever moves nothing the invariant speaks of keeps it.
LEMMA StillInv ==
  ASSUME RegisterInvariant, UNCHANGED <<next, ledger, used, made, op, handler, dps, late, faults>>,
         ShiftType', SyncType', Syncing'
  PROVE  RegisterInvariant'
<1>1. CoreInv' /\ Unresolved' = Unresolved /\ \A k \in Keys : Known(k)' = Known(k)
  BY SameCore DEF RegisterInvariant
<1>2. Writing' /\ Waiting' /\ Closing'
  <2>1. op \in Operation
    BY DEF RegisterInvariant, TypeOK, WorkerType
  <2>2. op.key \in Keys \cup {NoKey}
    BY <2>1 DEF Operation
  <2> QED BY <1>1, <2>2 DEF RegisterInvariant, Writing, Waiting, Closing
<1> QED BY <1>1, <1>2 DEF RegisterInvariant, TypeOK, LedgerType, ShiftType, WorkerType, ServerType

LEMMA SyncStep ==
  ASSUME Punctual, RegisterInvariant, SyncLoad \/ SyncQuery \/ SyncApply
  PROVE  RegisterInvariant'
<1>1. UNCHANGED <<next, ledger, used, shift, made, current, op, handler, dps, late, faults>>
  BY DEF SyncLoad, SyncQuery, SyncApply, local, rows, server, RegisterInvariant, Syncing
<1>2. ShiftType'
  BY <1>1 DEF SyncLoad, SyncQuery, SyncApply, local, RegisterInvariant, TypeOK, ShiftType
<1>3. SyncType' /\ Syncing'
  <2>1. CASE SyncLoad
    BY <2>1 DEF SyncLoad, Fresh, Punctual, RegisterInvariant, TypeOK, LedgerType, ShiftType, SyncType, Syncing
  <2>2. CASE SyncQuery
    BY <2>2 DEF SyncQuery, RegisterInvariant, TypeOK, ServerType, SyncType, Syncing
  <2>3. CASE SyncApply
    BY <2>3 DEF SyncApply, NoSync, SyncType, Syncing
  <2> QED BY <2>1, <2>2, <2>3
<1> QED BY <1>1, <1>2, <1>3, StillInv

LEMMA ServerStep ==
  ASSUME RegisterInvariant, ServerAccepts \/ ServerRejects \/ RequestLost
  PROVE  RegisterInvariant'
<1> USE Bounds DEF RegisterInvariant
<1>1. /\ op.pc = "wait" /\ op.reply = "sent" /\ op \in Operation
      /\ op.rid \in Unresolved /\ op.rid \in 1 .. used /\ ledger[op.rid].status = "Sending"
      /\ op.rid \notin dps.docs
      /\ UNCHANGED <<next, ledger, used, shift, made, current, runtime, handler, sync, late>>
      /\ faults' \in 0 .. MaxFaults
  BY WaitingRow DEF ServerAccepts, ServerRejects, RequestLost, local, server, Fault, Waiting, TypeOK, WorkerType
<1>2. LedgerType' /\ ShiftType' /\ SyncType' /\ Syncing' /\ HandlerType'
  BY <1>1 DEF TypeOK, LedgerType, ShiftType, SyncType, Syncing, WorkerType, HandlerType
<1>3. CASE Acceptable(op.rid) /\ Take(op.rid) /\ op' = [op EXCEPT !.reply = "accepted"]
  <2>1. CoreInv' /\ ServerType' /\ op.rid \in dps'.docs
    BY <1>1, <1>3, TakeCore
  <2>2. op' \in Operation /\ op'.pc = "wait" /\ op'.reply = "accepted" /\ op'.rid = op.rid
    BY <1>1, <1>3 DEF Operation
  <2>3. Writing' /\ Waiting' /\ Closing'
    BY <1>1, <2>1, <2>2 DEF Writing, Waiting, Closing
  <2> QED BY <1>1, <1>2, <2>1, <2>2, <2>3 DEF TypeOK, WorkerType, HandlerType
<1>4. CASE /\ UNCHANGED dps
           /\ op' = [op EXCEPT !.reply = "rejected"] \/ op' = [op EXCEPT !.reply = "lost"]
  <2>1. CoreInv' /\ ServerType'
    BY <1>1, <1>4, SameCore DEF TypeOK, ServerType
  <2>2. op' \in Operation /\ op'.pc = "wait" /\ op'.reply \in {"rejected", "lost"} /\ op'.rid = op.rid
    BY <1>1, <1>4 DEF Operation
  <2>3. Writing' /\ Waiting' /\ Closing'
    BY <1>1, <1>4, <2>2 DEF Writing, Waiting, Closing
  <2> QED BY <1>1, <1>2, <2>1, <2>2, <2>3 DEF TypeOK, WorkerType, HandlerType
<1> QED BY <1>1, <1>3, <1>4 DEF ServerAccepts, ServerRejects, RequestLost, server

LEMMA RepairClosingStep ==
  ASSUME RegisterInvariant, NEW s \in Shifts, RepairClosing(s)
  PROVE  RegisterInvariant'
<1>1. ShiftType'
  BY Bounds DEF RepairClosing, RegisterInvariant, TypeOK, ShiftType
<1>2. SyncType' /\ Syncing'
  BY DEF RepairClosing, RegisterInvariant, TypeOK, SyncType, Syncing
<1> QED BY <1>1, <1>2, StillInv DEF RepairClosing, server

LEMMA CrashStep ==
  ASSUME Punctual, RegisterInvariant, Crash
  PROVE  RegisterInvariant'
<1>1. /\ UNCHANGED <<next, ledger, used, shift, made, current, runtime, sync, dps, late>>
      /\ op' = Idle /\ handler' = NoHandler /\ faults' \in 0 .. MaxFaults
  BY Bounds DEF Crash, local, Punctual, Fault, RegisterInvariant, TypeOK
<1>2. CoreInv'
  BY <1>1, SameCore DEF RegisterInvariant
<1> QED BY <1>1, <1>2, Ended, IdleOp DEF RegisterInvariant, TypeOK, LedgerType, ShiftType, WorkerType,
           SyncType, ServerType, Syncing

-----------------------------------------------------------------------------
(* The invariant and what follows from it.                                    *)

LEMMA InitInv == Init => RegisterInvariant
<1> SUFFICES ASSUME Init PROVE RegisterInvariant
  OBVIOUS
<1> USE Bounds, ConstantsAssumption
<1>1. op = Idle /\ used = 0 /\ Unresolved = {} /\ dps.docs = {} /\ late = {} /\ sync = NoSync
  BY DEF Init, Unresolved
<1>2. NoReceipt \in Row /\ NoReceipt.status = "None"
  BY DEF NoReceipt, Row, Kinds, Statuses, Unsettled
<1>3. TypeOK
  <2>1. LedgerType /\ ShiftType /\ ServerType /\ faults \in 0 .. MaxFaults
    BY <1>2 DEF Init, LedgerType, ShiftType, ServerType
  <2>2. WorkerType /\ SyncType
    BY IdleOp DEF Init, WorkerType, SyncType, NoSync
  <2> QED BY <2>1, <2>2 DEF TypeOK
<1>4. CoreInv
  BY <1>1, <1>2 DEF Init, CoreInv, Rows, LiveNumbers, LiveKeys, Accepted, NumberingInStep,
                    ConfirmedIsAccepted, AcceptedIsKept
<1>5. Writing /\ Waiting /\ Closing /\ Syncing
  BY <1>1, IdleOp DEF Writing, Waiting, Closing, Syncing, NoSync
<1> QED BY <1>3, <1>4, <1>5 DEF RegisterInvariant

LEMMA StepInv ==
  ASSUME Punctual
  PROVE  RegisterInvariant /\ [Next]_vars => RegisterInvariant'
<1> SUFFICES ASSUME RegisterInvariant, [Next]_vars PROVE RegisterInvariant'
  OBVIOUS
<1>1. ASSUME NEW via \in Entry \cap {"fiscal_open_shift", "open_shift"}, OpenShift(via)
      PROVE  RegisterInvariant'
  BY <1>1, OpenShiftStep
<1>2. ASSUME NEW k \in Keys, Fiscalize(k) PROVE RegisterInvariant'
  BY <1>2, FiscalizeStep
<1>3. CASE CloseShift \/ CloseAfterZ
  BY <1>3, CloseShiftStep, CloseAfterZStep
<1>4. CASE Exchange
  BY <1>4, WriteDocumentStep, SignerFailsStep, TicketStep, AnswerStep, ServerStep DEF Exchange
<1>5. CASE Finalize
  BY <1>5, FinalizeStep
<1>6. ASSUME NEW r \in Receipts, AutoReconcile(r) \/ Resume(r) \/ DeskReconcile(r)
      PROVE  RegisterInvariant'
  BY <1>6, ReconcileStep, ResumeStep
<1>7. CASE HandlerReconciles
  BY <1>7, ReconcileStep
<1>8. CASE SyncLoad \/ SyncQuery \/ SyncApply
  BY <1>8, SyncStep
<1>9. ASSUME NEW r \in late PROVE FALSE
  BY DEF RegisterInvariant, CoreInv, Accepted
<1>10. CASE Crash
  BY <1>10, CrashStep
<1>11. ASSUME NEW s \in Shifts, RepairClosing(s) PROVE RegisterInvariant'
  BY <1>11, RepairClosingStep
<1>12. CASE UNCHANGED vars
  BY <1>12, StillInv DEF vars, local, server, RegisterInvariant, TypeOK, ShiftType, SyncType, Syncing
<1> QED BY <1>1, <1>2, <1>3, <1>4, <1>5, <1>6, <1>7, <1>8, <1>9, <1>10, <1>11, <1>12 DEF Next

\* The ledger, the lock holder and DPS fit together in every reachable state.
THEOREM RegisterIsSound ==
  ASSUME Punctual
  PROVE  Spec => []RegisterInvariant
<1>1. RegisterInvariant /\ [Next]_vars => RegisterInvariant'
  BY StepInv
<1> QED BY <1>1, InitInv, PTL DEF Spec

\* Every variable keeps its type.
THEOREM TypeCorrect ==
  ASSUME Punctual
  PROVE  Spec => []TypeOK
<1>1. RegisterInvariant => TypeOK
  BY DEF RegisterInvariant
<1> QED BY <1>1, RegisterIsSound, PTL

\* However often documents are lost, refused, retried and cancelled, at most one is
\* in doubt and the numbering of the register and of DPS agree but for that one.
THEOREM NumberingStaysInStep ==
  ASSUME Punctual
  PROVE  Spec => []NumberingInStep
<1>1. RegisterInvariant => NumberingInStep
  BY DEF RegisterInvariant, CoreInv
<1> QED BY <1>1, RegisterIsSound, PTL

\* The ledger never calls a document fiscalized that DPS does not hold.
THEOREM ConfirmedWasAccepted ==
  ASSUME Punctual
  PROVE  Spec => []ConfirmedIsAccepted
<1>1. RegisterInvariant => ConfirmedIsAccepted
  BY DEF RegisterInvariant, CoreInv
<1> QED BY <1>1, RegisterIsSound, PTL

\* A document DPS holds is never given up by the ledger.
THEOREM AcceptedStaysKept ==
  ASSUME Punctual
  PROVE  Spec => []AcceptedIsKept
<1>1. RegisterInvariant => AcceptedIsKept
  BY DEF RegisterInvariant, CoreInv
<1> QED BY <1>1, RegisterIsSound, PTL

\* Ledger and DPS hold the same documents but for the one in doubt.
THEOREM LedgerFollowsServer ==
  ASSUME Punctual
  PROVE  Spec => []LedgerMatchesServer
<1>1. RegisterInvariant => LedgerMatchesServer
  BY DEF RegisterInvariant, CoreInv, LedgerMatchesServer
<1> QED BY <1>1, RegisterIsSound, PTL

LEMMA InvOnce ==
  ASSUME RegisterInvariant
  PROVE  AcceptedOnce
<1> SUFFICES ASSUME NEW r \in dps.docs, NEW q \in dps.docs,
                    ledger[r].key = ledger[q].key, ledger[r].key # NoKey
             PROVE  r = q
  BY DEF AcceptedOnce
<1>1. r \in 1 .. used /\ q \in 1 .. used
  BY DEF RegisterInvariant, CoreInv, Accepted
<1>2. Live(r) /\ Live(q)
  BY DEF RegisterInvariant, CoreInv, AcceptedIsKept, Live
<1> QED BY <1>1, <1>2 DEF RegisterInvariant, CoreInv, LiveKeys

\* DPS accepts at most one document for an idempotency key.
THEOREM ExactlyOnce ==
  ASSUME Punctual
  PROVE  Spec => []AcceptedOnce
<1>1. RegisterInvariant => AcceptedOnce
  BY InvOnce
<1> QED BY <1>1, RegisterIsSound, PTL

-----------------------------------------------------------------------------
(* The immutability of the ledger.                                            *)

\* All that any step does to the ledger: append a row, or settle an unsettled one.
LEMMA LedgerMoves ==
  ASSUME RegisterInvariant, [Next]_vars
  PROVE  \/ UNCHANGED ledger
         \/ op.pc = "write" /\ \E st \in {"Sending", "Draft"} : Append(st)
         \/ \E r \in Unresolved, st \in Statuses, state \in States : Settle(r, st, state)
<1> DEFINE Moved == \/ UNCHANGED ledger
                    \/ op.pc = "write" /\ \E st \in {"Sending", "Draft"} : Append(st)
                    \/ \E r \in Unresolved, st \in Statuses, state \in States : Settle(r, st, state)
<1> SUFFICES Moved
  OBVIOUS
<1> USE DEF rows, local
<1>1. ASSUME NEW r \in 1 .. used, Reconcile(r) PROVE Moved
  <2>1. CASE Confirm(r)
    BY <2>1 DEF Confirm, Unresolved, Unsettled, Statuses, States
  <2>2. CASE Release(r)
    <3>1. ledger[r].state \in States
      BY <2>2 DEF Release, Releasable, States
    <3> QED BY <2>2, <3>1 DEF Release, Releasable, Unresolved, Unsettled, Statuses
  <2> QED BY <1>1, <2>1, <2>2 DEF Reconcile
<1>2. ASSUME NEW via, OpenShift(via) PROVE Moved
  BY <1>2 DEF OpenShift
<1>3. ASSUME NEW k \in Keys, Fiscalize(k) PROVE Moved
  BY <1>3 DEF Fiscalize
<1>4. CASE CloseShift \/ CloseAfterZ \/ Finalize \/ Crash \/ SyncLoad \/ SyncQuery \/ SyncApply
  BY <1>4 DEF CloseShift, CloseAfterZ, Finalize, Crash, SyncLoad, SyncQuery, SyncApply
<1>5. CASE Exchange
  <2>1. CASE WriteDocument \/ SignerFails
    BY <2>1 DEF WriteDocument, SignerFails
  <2>2. CASE Ticket \/ Rejection \/ HttpRefusal \/ NoUsableAnswer
    <3>1. op.rid \in Unresolved
      BY <2>2, WaitingRow DEF Ticket, Rejection, HttpRefusal, NoUsableAnswer
    <3> QED BY <2>2, <3>1 DEF Ticket, Rejection, HttpRefusal, NoUsableAnswer, Statuses, Unsettled, States
  <2>3. CASE ServerAccepts \/ ServerRejects \/ RequestLost
    BY <2>3 DEF ServerAccepts, ServerRejects, RequestLost
  <2> QED BY <1>5, <2>1, <2>2, <2>3 DEF Exchange
<1>6. ASSUME NEW r \in Receipts, AutoReconcile(r) \/ DeskReconcile(r) PROVE Moved
  <2>1. r \in 1 .. used /\ Reconcile(r)
    BY <1>6, Bounds DEF AutoReconcile, DeskReconcile, Unresolved, Receipts, RegisterInvariant, TypeOK, LedgerType
  <2> QED BY <2>1, <1>1
<1>7. CASE HandlerReconciles
  <2>1. ASSUME NEW r \in Suspects, Reconcile(r) PROVE Moved
    <3>1. r \in 1 .. used
      BY DEF Suspects
    <3> QED BY <2>1, <3>1, <1>1
  <2> QED BY <1>7, <2>1 DEF HandlerReconciles
<1>8. ASSUME NEW r \in Receipts, Resume(r) PROVE Moved
  BY <1>8 DEF Resume, Statuses, Unsettled, States
<1>9. ASSUME NEW r \in late, LateArrival(r) PROVE Moved
  BY <1>9 DEF LateArrival
<1>10. ASSUME NEW s \in Shifts, RepairClosing(s) PROVE Moved
  BY <1>10 DEF RepairClosing
<1>11. CASE UNCHANGED vars
  BY <1>11 DEF vars
<1> HIDE DEF Moved
<1> QED BY <1>2, <1>3, <1>4, <1>5, <1>6, <1>7, <1>8, <1>9, <1>10, <1>11 DEF Next

\* What a step may do to row r of the ledger.
RowKept(r) ==
    /\ ledger[r].status \in {"Fiscalized", "Cancelled"} => ledger'[r] = ledger[r]
    /\ ledger'[r].num = ledger[r].num /\ ledger'[r].key = ledger[r].key

LEMMA SettleKeepsRows ==
  ASSUME TypeOK, NEW r \in Unresolved, NEW st \in Statuses, NEW state \in States,
         Settle(r, st, state), NEW q \in 1 .. used
  PROVE  RowKept(q)
<1>1. /\ r \in Receipts /\ q \in Receipts
      /\ ledger[r].status \notin {"Fiscalized", "Cancelled"}
  BY Bounds DEF Unresolved, Unsettled, Receipts, TypeOK, LedgerType
<1>2. /\ ledger'[q].num = ledger[q].num /\ ledger'[q].key = ledger[q].key
      /\ q # r => ledger'[q] = ledger[q]
  BY <1>1, SettleRow
<1> QED BY <1>1, <1>2 DEF RowKept

LEMMA RowsKept ==
  ASSUME RegisterInvariant, [Next]_vars, NEW q \in 1 .. used
  PROVE  RowKept(q)
<1>1. CASE UNCHANGED ledger
  BY <1>1 DEF RowKept
<1>2. ASSUME NEW st, Append(st) PROVE RowKept(q)
  BY <1>2, Bounds DEF Append, RowKept, RegisterInvariant, TypeOK, LedgerType, Receipts
<1>3. ASSUME NEW r \in Unresolved, NEW st \in Statuses, NEW state \in States, Settle(r, st, state)
      PROVE  RowKept(q)
  BY <1>3, SettleKeepsRows DEF RegisterInvariant
<1> QED BY <1>1, <1>2, <1>3, LedgerMoves

\* PRRO Receipt is an immutable ledger: a settled row never changes again, and no
\* row ever changes its number or its key.
THEOREM LedgerStaysImmutable ==
  ASSUME Punctual
  PROVE  Spec => LedgerIsImmutable
<1> DEFINE Kept == \A r \in 1 .. used :
              /\ ledger[r].status \in {"Fiscalized", "Cancelled"} => ledger'[r] = ledger[r]
              /\ ledger'[r].num = ledger[r].num /\ ledger'[r].key = ledger[r].key
<1>1. RegisterInvariant /\ [Next]_vars => [Kept]_vars
  BY RowsKept DEF RowKept
<1> QED BY <1>1, RegisterIsSound, PTL DEF Spec, LedgerIsImmutable

-----------------------------------------------------------------------------
(* One Z report and one closing per shift.                                    *)

\* Both of its parts speak only of the ledger, the lock holder and the current shift.
LEMMA SameClosing ==
  ASSUME OneClosing, UNCHANGED <<ledger, used>>
  PROVE  /\ OneClosing'
         /\ \A s : ZReports(s)' = ZReports(s) /\ Closings(s)' = Closings(s)
BY DEF OneClosing, ZBefore, ZReports, Closings, Live

LEMMA CloserIdle ==
  ASSUME op'.pc = "idle"
  PROVE  Closer'
BY DEF Closer

\* Settling a row makes no row live and no confirmed row disappear.
LEMMA SettleClosing ==
  ASSUME TypeOK, OneClosing, NEW r \in Unresolved, NEW st \in Statuses, NEW state \in States,
         Settle(r, st, state), UNCHANGED used
  PROVE  OneClosing'
<1>1. r \in 1 .. used /\ r \in Receipts /\ ledger[r].status \in Unsettled /\ 1 .. used \subseteq Receipts
  BY Bounds DEF Unresolved, Receipts, TypeOK, LedgerType
<1>2. \A q \in Receipts : /\ ledger'[q].num = ledger[q].num /\ ledger'[q].kind = ledger[q].kind
                          /\ ledger'[q].shift = ledger[q].shift
                          /\ q # r => ledger'[q] = ledger[q]
  BY <1>1, SettleRow
<1>3. \A q \in 1 .. used : Live(q)' => Live(q)
  BY <1>1, <1>2 DEF Live, Unsettled
<1>6. ASSUME NEW c \in 1 .. used, ledger'[c].kind = "Close"
      PROVE  ZBefore(ledger[c].shift, ledger[c].num)'
  <2>1. ledger[c].kind = "Close" /\ ledger'[c].shift = ledger[c].shift /\ ledger'[c].num = ledger[c].num
    BY <1>1, <1>2, <1>6
  <2>2. PICK z \in 1 .. used : /\ ledger[z].kind = "Z" /\ ledger[z].shift = ledger[c].shift
                               /\ ledger[z].status = "Fiscalized" /\ ledger[z].num < ledger[c].num
    BY <2>1 DEF OneClosing, ZBefore
  <2>3. z # r /\ ledger'[z] = ledger[z]
    BY <1>1, <1>2, <2>2 DEF Unsettled
  <2> QED BY <2>1, <2>2, <2>3 DEF ZBefore
<1>7. \A p, q \in 1 .. used :
         /\ Live(p)' /\ Live(q)' /\ ledger'[p].kind \in {"Z", "Close"}
         /\ ledger'[p].kind = ledger'[q].kind /\ ledger'[p].shift = ledger'[q].shift
         => p = q
  BY <1>1, <1>2, <1>3 DEF OneClosing
<1> QED BY <1>6, <1>7 DEF OneClosing

\* A new row repeats no Z report and no closing of its shift.
LEMMA AppendClosing ==
  ASSUME TypeOK, CoreInv, OneClosing, Closer, Writing, op.pc = "write",
         NEW st \in {"Sending", "Draft"}, Append(st)
  PROVE  /\ OneClosing' /\ used' = used + 1
         /\ ledger'[used + 1].kind = op.kind
         /\ op.kind = "Z" => ledger'[used + 1].shift = current
<1> DEFINE new == used + 1
<1> USE Bounds DEF TypeOK, LedgerType, Receipts
<1>1. new \in Receipts /\ used' = new /\ Unresolved = {} /\ 1 .. used \subseteq Receipts
      /\ new \notin 1 .. used /\ \A q \in 1 .. new : q = new \/ q \in 1 .. used
  BY DEF Append, Writing
<1>2. /\ NewRow(st).status = st /\ NewRow(st).num = next /\ NewRow(st).kind = op.kind
      /\ op.kind \in {"Z", "Close"} => NewRow(st).shift = current
  BY DEF NewRow
<1>3. /\ ledger'[new] = NewRow(st)
      /\ \A q \in 1 .. used : ledger'[q] = ledger[q]
  BY <1>1 DEF Append
<1>4. \A q \in 1 .. used : Live(q) => ledger[q].status = "Fiscalized"
  BY <1>1 DEF Unresolved, Live, Statuses, Row
<1>5. \A q \in 1 .. used : Live(q)' = Live(q)
  BY <1>3 DEF Live
<1>7. ASSUME NEW c \in 1 .. new, ledger'[c].kind = "Close"
      PROVE  ZBefore(ledger[c].shift, ledger[c].num)'
  <2>1. PICK z \in 1 .. used : /\ ledger[z].kind = "Z" /\ ledger[z].shift = ledger'[c].shift
                               /\ ledger[z].status = "Fiscalized" /\ ledger[z].num < ledger'[c].num
    <3>1. CASE c \in 1 .. used
      BY <3>1, <1>3, <1>7 DEF OneClosing, ZBefore
    <3>2. CASE c = new
      <4>1. PICK z \in ZReports(current) : TRUE
        BY <3>2, <1>2, <1>3, <1>7 DEF Closer
      <4>2. z \in 1 .. used /\ ledger[z].num < next
        BY DEF ZReports, CoreInv, LiveNumbers, Live
      <4> QED BY <3>2, <1>2, <1>3, <1>7, <4>2 DEF ZReports
    <3> QED BY <1>1, <3>1, <3>2
  <2> QED BY <1>1, <1>3, <2>1 DEF ZBefore
<1>8. ASSUME NEW q \in 1 .. used, Live(q), ledger[q].kind \in {"Z", "Close"},
             ledger[q].kind = op.kind, ledger[q].shift = current
      PROVE  FALSE
  <2>1. q \in ZReports(current) \/ q \in Closings(current)
    BY <1>4, <1>8 DEF ZReports, Closings
  <2> QED BY <1>8, <2>1 DEF Closer, ZReports, Closings
<1>9. \A p, q \in 1 .. new :
         /\ Live(p)' /\ Live(q)' /\ ledger'[p].kind \in {"Z", "Close"}
         /\ ledger'[p].kind = ledger'[q].kind /\ ledger'[p].shift = ledger'[q].shift
         => p = q
  <2> TAKE p, q \in 1 .. new
  <2> HAVE /\ Live(p)' /\ Live(q)' /\ ledger'[p].kind \in {"Z", "Close"}
           /\ ledger'[p].kind = ledger'[q].kind /\ ledger'[p].shift = ledger'[q].shift
  <2>1. CASE p \in 1 .. used /\ q \in 1 .. used
    BY <2>1, <1>3, <1>5 DEF OneClosing
  <2>2. CASE p = new /\ q \in 1 .. used
    BY <2>2, <1>2, <1>3, <1>5, <1>8
  <2>3. CASE p \in 1 .. used /\ q = new
    BY <2>3, <1>2, <1>3, <1>5, <1>8
  <2> QED BY <1>1, <2>1, <2>2, <2>3
<1> QED BY <1>1, <1>2, <1>3, <1>7, <1>9 DEF OneClosing

\* A confirmed Z report of the shift excludes that another one is on its way.
LEMMA OnlyZ ==
  ASSUME OneClosing, NEW r \in 1 .. used, Live(r), ledger[r].kind = "Z",
         NEW z \in ZReports(ledger[r].shift)
  PROVE  z = r
BY DEF OneClosing, ZReports, Live

LEMMA OpenClosing ==
  ASSUME ClosingInvariant, NEW via, OpenShift(via) \/ \E k \in Keys : Fiscalize(k)
  PROVE  OneClosing' /\ Closer'
<1>1. OneClosing'
  BY SameClosing DEF OpenShift, Fiscalize, rows, ClosingInvariant
<1>2. op'.pc = "idle" \/ (op'.pc = "write" /\ op'.kind \notin {"Z", "Close"})
  <2>1. CASE OpenShift(via)
    BY <2>1 DEF OpenShift, ToWrite, Idle, Free
  <2>2. ASSUME NEW k \in Keys, Fiscalize(k) PROVE <1>2!2 \/ op'.pc = "idle"
    <3>1. KindOf[k] \in KeyKinds
      BY ConstantsAssumption
    <3> QED BY <2>2, <3>1 DEF Fiscalize, ToWrite, Idle, Free, KeyKinds
  <2> QED BY <2>1, <2>2
<1> QED BY <1>1, <1>2 DEF Closer

LEMMA CloseClosing ==
  ASSUME ClosingInvariant, CloseShift \/ CloseAfterZ
  PROVE  OneClosing' /\ Closer'
<1>1. UNCHANGED <<ledger, used, current>>
  BY DEF CloseShift, CloseAfterZ, rows
<1>2. OneClosing' /\ \A s : ZReports(s)' = ZReports(s) /\ Closings(s)' = Closings(s)
  BY <1>1, SameClosing DEF ClosingInvariant
<1>3. CASE op'.pc = "idle"
  BY <1>2, <1>3, CloserIdle
<1>4. CASE /\ op'.pc = "write" /\ op'.kind = "Z" /\ ZReports(current) = {}
  BY <1>1, <1>2, <1>4 DEF Closer
<1>5. CASE /\ op'.pc = "write" /\ op'.kind = "Close" /\ op.pc = "z_done"
           /\ Closings(ledger[op.rid].shift) = {}
  <2>1. KnowsZ
    BY <1>5 DEF ClosingInvariant, Closer
  <2>2. ledger[op.rid].shift = current /\ op.rid \in ZReports(current)
    BY <1>5, <2>1 DEF KnowsZ, ZReports
  <2> QED BY <1>1, <1>2, <1>5, <2>2 DEF Closer
<1>6. CASE op'.pc = "finalize" /\ op'.rid \in ZReports(current)
  <2>1. KnowsZ'
    BY <1>1, <1>2, <1>6 DEF KnowsZ, ZReports
  <2> QED BY <1>2, <1>6, <2>1 DEF Closer
<1>7. CASE op'.pc = "finalize" /\ op'.rid \in Closings(ledger[op.rid].shift)
  <2>1. ledger'[op'.rid].kind = "Close"
    BY <1>1, <1>7 DEF Closings
  <2> QED BY <1>2, <1>7, <2>1 DEF Closer
<1>8. \/ op'.pc = "idle"
      \/ op'.pc = "write" /\ op'.kind = "Z" /\ ZReports(current) = {}
      \/ op'.pc = "finalize" /\ op'.rid \in ZReports(current)
      \/ /\ op'.pc = "write" /\ op'.kind = "Close" /\ op.pc = "z_done"
         /\ Closings(ledger[op.rid].shift) = {}
      \/ op'.pc = "finalize" /\ op'.rid \in Closings(ledger[op.rid].shift)
  <2>1. CASE CloseShift
    BY <2>1 DEF CloseShift, Free, ToWrite, ToFinalize, Idle
  <2>2. CASE CloseAfterZ
    <3>1. /\ op.pc = "z_done"
          /\ \/ \E c \in Closings(ledger[op.rid].shift) : ToFinalize(c, op.via)
             \/ Closings(ledger[op.rid].shift) = {} /\ ToWrite("Close", NoKey, op.via)
             \/ op' = Idle
      BY <2>2 DEF CloseAfterZ
    <3>2. ASSUME NEW c \in Closings(ledger[op.rid].shift), ToFinalize(c, op.via)
          PROVE  op'.pc = "finalize" /\ op'.rid = c
      BY <3>2 DEF ToFinalize, Idle
    <3>3. ASSUME ToWrite("Close", NoKey, op.via) PROVE op'.pc = "write" /\ op'.kind = "Close"
      BY <3>3 DEF ToWrite, Idle
    <3>4. Idle.pc = "idle"
      BY DEF Idle
    <3> QED BY <3>1, <3>2, <3>3, <3>4
  <2> QED BY <2>1, <2>2
<1> QED BY <1>3, <1>4, <1>5, <1>6, <1>7, <1>8

LEMMA WriteClosing ==
  ASSUME ClosingInvariant, WriteDocument \/ SignerFails
  PROVE  OneClosing' /\ Closer'
<1>1. CASE WriteDocument
  <2>1. /\ op.pc = "write" /\ Append("Sending") /\ UNCHANGED current
        /\ op' = [op EXCEPT !.pc = "wait", !.rid = used + 1, !.reply = "sent"]
    BY <1>1 DEF WriteDocument
  <2>2. /\ OneClosing' /\ ledger'[used + 1].kind = op.kind
        /\ op.kind = "Z" => ledger'[used + 1].shift = current
    BY <2>1, AppendClosing DEF ClosingInvariant, RegisterInvariant
  <2>3. op'.pc = "wait" /\ op'.rid = used + 1
    BY <2>1 DEF ClosingInvariant, RegisterInvariant, TypeOK, WorkerType, Operation
  <2> QED BY <2>1, <2>2, <2>3 DEF Closer
<1>2. CASE SignerFails
  <2>1. op'.pc = "idle"
    BY <1>2 DEF SignerFails, Idle
  <2>2. OneClosing'
    BY <1>2, AppendClosing, SameClosing DEF SignerFails, ClosingInvariant, RegisterInvariant
  <2> QED BY <2>1, <2>2, CloserIdle
<1> QED BY <1>1, <1>2

LEMMA AnswerClosing ==
  ASSUME ClosingInvariant, Ticket \/ Rejection \/ HttpRefusal \/ NoUsableAnswer
  PROVE  OneClosing' /\ Closer'
<1>1. /\ op.rid \in Unresolved /\ UNCHANGED <<used, current>> /\ op.pc = "wait"
      /\ \E st \in Statuses, state \in States : Settle(op.rid, st, state)
  BY WaitingRow DEF ClosingInvariant, Ticket, Rejection, HttpRefusal, NoUsableAnswer, Raise,
                    Statuses, Unsettled, States
<1>2. OneClosing'
  BY <1>1, SettleClosing DEF ClosingInvariant, RegisterInvariant
<1>3. CASE op'.pc = "idle"
  BY <1>2, <1>3, CloserIdle
<1>4. CASE Ticket /\ ToFinalize(op.rid, op.via)
  <2>1. op'.pc = "finalize" /\ op'.rid = op.rid
    BY <1>4 DEF ToFinalize, Idle
  <2>2. op.rid \in 1 .. used /\ op.rid \in Receipts
    BY <1>1, Bounds DEF Unresolved, Receipts, ClosingInvariant, RegisterInvariant, TypeOK, LedgerType
  <2>3. /\ ledger'[op.rid].status = "Fiscalized" /\ ledger'[op.rid].kind = ledger[op.rid].kind
        /\ ledger'[op.rid].shift = ledger[op.rid].shift
    BY <1>4, <2>2, SettleRow DEF Ticket, Statuses, States, ClosingInvariant, RegisterInvariant
  <2>4. ASSUME ledger[op.rid].kind = "Z" PROVE KnowsZ'
    BY <1>1, <2>1, <2>2, <2>3, <2>4 DEF KnowsZ, ClosingInvariant, Closer
  <2> QED BY <1>2, <2>1, <2>3, <2>4 DEF Closer
<1>5. op'.pc = "idle" \/ (Ticket /\ ToFinalize(op.rid, op.via))
  BY DEF Ticket, Rejection, HttpRefusal, NoUsableAnswer, Raise, Idle
<1> QED BY <1>3, <1>4, <1>5

LEMMA FinalizeClosing ==
  ASSUME ClosingInvariant, Finalize
  PROVE  OneClosing' /\ Closer'
<1>1. /\ UNCHANGED <<ledger, used>> /\ op.pc = "finalize"
      /\ OneClosing' /\ \A s : ZReports(s)' = ZReports(s) /\ Closings(s)' = Closings(s)
  BY SameClosing DEF Finalize, ClosingInvariant
<1>2. CASE op'.pc = "idle"
  BY <1>1, <1>2, CloserIdle
<1>3. CASE /\ ledger[op.rid].kind = "Z" /\ op.via = "fiscal_close_shift"
           /\ op' = [op EXCEPT !.pc = "z_done"] /\ UNCHANGED current
  <2>1. op'.pc = "z_done" /\ op'.rid = op.rid
    BY <1>3 DEF ClosingInvariant, RegisterInvariant, TypeOK, WorkerType, Operation
  <2>2. KnowsZ
    BY <1>1, <1>3 DEF ClosingInvariant, Closer
  <2>3. KnowsZ'
    BY <1>1, <1>3, <2>1, <2>2 DEF KnowsZ
  <2> QED BY <1>1, <2>1, <2>3 DEF Closer
<1>4. op'.pc = "idle" \/ <1>3!1
  BY DEF Finalize, FinalizeOpen, FinalizeZ, FinalizeClose, Idle
<1> QED BY <1>2, <1>3, <1>4

LEMMA ReconcileClosing ==
  ASSUME ClosingInvariant, NEW r \in 1 .. used, Reconcile(r)
  PROVE  OneClosing' /\ Closer'
<1>1. Free /\ UNCHANGED <<used, current>>
  BY DEF Reconcile
<1>2. OneClosing'
  <2>1. CASE UNCHANGED ledger
    BY <1>1, <2>1, SameClosing DEF ClosingInvariant
  <2>2. CASE \E st \in Statuses, state \in States : r \in Unresolved /\ Settle(r, st, state)
    BY <1>1, <2>2, SettleClosing DEF ClosingInvariant, RegisterInvariant
  <2>3. CASE Confirm(r)
    BY <2>1, <2>2, <2>3 DEF Confirm, Unresolved, Unsettled, Statuses, States
  <2>4. CASE Release(r)
    <3>1. ledger[r].state \in States
      BY <2>4 DEF Release, Releasable, States
    <3> QED BY <2>2, <2>4, <3>1 DEF Release, Releasable, Unresolved, Unsettled, Statuses
  <2> QED BY <2>3, <2>4 DEF Reconcile
<1>3. op'.pc = "idle" \/ (op'.pc = "finalize" /\ op'.via = "reconcile")
  BY <1>1 DEF Reconcile, Confirm, Release, Free, ToFinalize, Idle
<1> QED BY <1>2, <1>3 DEF Closer

LEMMA ResumeClosing ==
  ASSUME ClosingInvariant, NEW r \in Receipts, Resume(r)
  PROVE  OneClosing' /\ Closer'
<1>1. /\ Free /\ r \in Unresolved /\ ledger[r].kind \in SaleKinds /\ UNCHANGED <<used, current>>
  BY DEF Resume
<1>2. CASE /\ Settle(r, "Sending", "NotSent")
           /\ op' = [Idle EXCEPT !.pc = "wait", !.rid = r, !.reply = "sent", !.via = "resume"]
  <2>1. OneClosing'
    BY <1>1, <1>2, SettleClosing DEF Statuses, Unsettled, States, ClosingInvariant, RegisterInvariant
  <2>2. ledger'[r].kind = ledger[r].kind
    BY <1>2, SettleRow DEF Statuses, Unsettled, States, ClosingInvariant, RegisterInvariant
  <2>3. op'.pc = "wait" /\ op'.rid = r
    BY <1>2 DEF Idle
  <2> QED BY <1>1, <2>1, <2>2, <2>3 DEF Closer, SaleKinds
<1>3. CASE UNCHANGED <<ledger, op>>
  BY <1>1, <1>3, SameClosing DEF ClosingInvariant, Closer, Free
<1> QED BY <1>2, <1>3 DEF Resume

\* The repair takes a shift away only from a closing that has nothing left to write.
LEMMA RepairClosingKeeps ==
  ASSUME ClosingInvariant, NEW s \in Shifts, RepairClosing(s)
  PROVE  OneClosing' /\ Closer'
<1>1. /\ UNCHANGED <<ledger, used, op>> /\ OneClosing'
      /\ \A t : ZReports(t)' = ZReports(t) /\ Closings(t)' = Closings(t)
  BY SameClosing DEF RepairClosing, ClosingInvariant
<1>2. CASE UNCHANGED current
  BY <1>1, <1>2 DEF ClosingInvariant, Closer, KnowsZ
<1>3. CASE current = s
  <2>1. PICK z \in Newest("Z", s), c \in Newest("Close", s) :
           ledger[z].status = "Fiscalized" /\ ledger[c].status = "Fiscalized"
    BY DEF RepairClosing
  <2>2. z \in ZReports(current) /\ c \in Closings(current)
    BY <1>3, <2>1 DEF Newest, ZReports, Closings
  <2>3. ~(op.pc = "write" /\ op.kind \in {"Z", "Close"})
    BY <2>2 DEF ClosingInvariant, Closer
  <2>4. ~(op.pc = "wait" /\ ledger[op.rid].kind = "Z")
    <3> SUFFICES ASSUME op.pc = "wait", ledger[op.rid].kind = "Z" PROVE FALSE
      OBVIOUS
    <3>1. /\ op.rid \in 1 .. used /\ ledger[op.rid].status = "Sending" /\ Live(op.rid)
          /\ ledger[op.rid].shift = current
      BY DEF ClosingInvariant, RegisterInvariant, Waiting, Closer, Live
    <3>2. z = op.rid
      BY <2>2, <3>1, OnlyZ DEF ClosingInvariant
    <3> QED BY <2>1, <3>1, <3>2
  <2>5. KnowsZ => KnowsZ'
    BY <1>1, <2>2 DEF KnowsZ
  <2> QED BY <1>1, <2>3, <2>4, <2>5 DEF ClosingInvariant, Closer
<1> QED BY <1>2, <1>3 DEF RepairClosing

\* Steps that touch neither the ledger nor the current shift.
LEMMA ElseClosing ==
  ASSUME ClosingInvariant, UNCHANGED <<ledger, used, current>>,
         \/ op'.pc = "idle"
         \/ UNCHANGED op
         \/ op.pc = "wait" /\ op'.pc = "wait" /\ op'.rid = op.rid
  PROVE  OneClosing' /\ Closer'
<1>1. OneClosing' /\ \A s : ZReports(s)' = ZReports(s) /\ Closings(s)' = Closings(s)
  BY SameClosing DEF ClosingInvariant
<1> QED BY <1>1 DEF ClosingInvariant, Closer, KnowsZ

LEMMA ClosingStep ==
  ASSUME ClosingInvariant, [Next]_vars
  PROVE  OneClosing' /\ Closer'
<1> DEFINE Kept == OneClosing' /\ Closer'
<1> SUFFICES Kept
  OBVIOUS
<1>1. ASSUME NEW via, OpenShift(via) PROVE Kept
  BY <1>1, OpenClosing
<1>2. ASSUME NEW k \in Keys, Fiscalize(k) PROVE Kept
  BY <1>2, OpenClosing
<1>3. CASE CloseShift \/ CloseAfterZ
  BY <1>3, CloseClosing
<1>4. CASE ServerAccepts \/ ServerRejects \/ RequestLost
  <2>1. op.pc = "wait" /\ op'.pc = "wait" /\ op'.rid = op.rid /\ UNCHANGED <<ledger, used, current>>
    BY <1>4 DEF ServerAccepts, ServerRejects, RequestLost, local, ClosingInvariant,
                RegisterInvariant, TypeOK, WorkerType, Operation
  <2> QED BY <2>1, ElseClosing
<1>5. CASE Exchange
  BY <1>4, <1>5, WriteClosing, AnswerClosing DEF Exchange
<1>6. CASE Finalize
  BY <1>6, FinalizeClosing
<1>7. ASSUME NEW r \in 1 .. used, Reconcile(r) PROVE Kept
  BY <1>7, ReconcileClosing
<1>8. ASSUME NEW r \in Receipts, AutoReconcile(r) \/ DeskReconcile(r) PROVE Kept
  <2>1. r \in 1 .. used /\ Reconcile(r)
    BY <1>8, Bounds DEF AutoReconcile, DeskReconcile, Unresolved, Receipts, ClosingInvariant,
                        RegisterInvariant, TypeOK, LedgerType
  <2> QED BY <2>1, <1>7
<1>9. CASE HandlerReconciles
  <2>1. ASSUME NEW r \in Suspects, Reconcile(r) PROVE Kept
    <3>1. r \in 1 .. used
      BY DEF Suspects
    <3> QED BY <2>1, <3>1, <1>7
  <2>2. CASE UNCHANGED <<local, op>>
    BY <2>2, ElseClosing DEF local
  <2> QED BY <1>9, <2>1, <2>2 DEF HandlerReconciles
<1>10. ASSUME NEW r \in Receipts, Resume(r) PROVE Kept
  BY <1>10, ResumeClosing
<1>11. ASSUME NEW s \in Shifts, RepairClosing(s) PROVE Kept
  BY <1>11, RepairClosingKeeps
<1>12. CASE SyncLoad \/ SyncQuery \/ SyncApply \/ Crash \/ (\E r \in late : LateArrival(r)) \/ UNCHANGED vars
  <2>1. UNCHANGED <<ledger, used, current>> /\ (op' = op \/ op' = Idle)
    BY <1>12 DEF SyncLoad, SyncQuery, SyncApply, Crash, LateArrival, vars, local, rows
  <2> QED BY <2>1, ElseClosing DEF Idle
<1> HIDE DEF Kept
<1> QED BY <1>1, <1>2, <1>3, <1>5, <1>6, <1>8, <1>9, <1>10, <1>11, <1>12 DEF Next

\* Nothing is being closed at first.
LEMMA InitClosing == Init => ClosingInvariant
<1>1. Init => used = 0 /\ op.pc = "idle"
  BY DEF Init, Idle
<1>2. Init => OneClosing /\ Closer
  BY <1>1 DEF OneClosing, Closer
<1> QED BY <1>2, InitInv DEF ClosingInvariant

\* DPS gets one Z report and one Close Shift of a shift, in this order.
THEOREM OneClosingPerShift ==
  ASSUME Punctual
  PROVE  Spec => []OneZBeforeClose
<1>2. ClosingInvariant /\ [Next]_vars => ClosingInvariant'
  BY StepInv, ClosingStep DEF ClosingInvariant
<1>3. ClosingInvariant => OneZBeforeClose
  <2> SUFFICES ASSUME ClosingInvariant PROVE OneZBeforeClose
    OBVIOUS
  <2>1. \A r \in dps.docs : r \in 1 .. used /\ Live(r)
    BY DEF ClosingInvariant, RegisterInvariant, CoreInv, Accepted, AcceptedIsKept, Live
  <2>3. \A c \in dps.docs : ledger[c].kind = "Close" => ZBefore(ledger[c].shift, ledger[c].num)
    BY <2>1 DEF ClosingInvariant, OneClosing
  <2>4. \A z, q \in dps.docs :
           /\ ledger[z].kind \in {"Z", "Close"} /\ ledger[z].kind = ledger[q].kind
           /\ ledger[z].shift = ledger[q].shift
           => z = q
    BY <2>1 DEF ClosingInvariant, OneClosing
  <2>5. \A z \in 1 .. used : ledger[z].status = "Fiscalized" => z \in dps.docs
    BY Bounds DEF Receipts, ClosingInvariant, RegisterInvariant, CoreInv, ConfirmedIsAccepted, TypeOK, LedgerType
  <2> QED BY <2>3, <2>4, <2>5 DEF OneZBeforeClose, ZBefore
<1> QED BY InitClosing, <1>2, <1>3, PTL DEF Spec

-----------------------------------------------------------------------------
(* The shift of the register and the shift of DPS.                            *)

\* Rows are added and confirmed, never taken back.
RowsGrow ==
    /\ used \in 1 .. used' \/ used = 0
    /\ \A r \in 1 .. used :
          /\ r \in 1 .. used'
          /\ ledger'[r].kind = ledger[r].kind /\ ledger'[r].shift = ledger[r].shift
          /\ ledger[r].status = "Fiscalized" => ledger'[r].status = "Fiscalized"

\* What was opened or closed stays so.
LEMMA GrowFacts ==
  ASSUME RowsGrow
  PROVE  /\ \A s : (Opened(s) => Opened(s)') /\ (Closings(s) # {} => Closings(s)' # {})
         /\ ClosedOne => ClosedOne'
<1>1. ASSUME NEW s, Opened(s) PROVE Opened(s)'
  BY <1>1 DEF RowsGrow, Opened
<1>2. ASSUME NEW s, Closings(s) # {} PROVE Closings(s)' # {}
  <2>1. PICK r \in Closings(s) : TRUE
    BY <1>2
  <2>2. r \in Closings(s)'
    BY DEF RowsGrow, Closings
  <2> QED BY <2>2
<1>3. ClosedOne => ClosedOne'
  BY DEF RowsGrow, ClosedOne
<1> QED BY <1>1, <1>2, <1>3

\* A ledger that stays has its rows.
LEMMA GrowSame ==
  ASSUME UNCHANGED <<ledger, used>>, RegisterInvariant
  PROVE  RowsGrow
BY Bounds DEF RowsGrow, RegisterInvariant, TypeOK, LedgerType

\* A row that settles is confirmed, or was not.
LEMMA GrowSettled ==
  ASSUME RegisterInvariant, NEW r \in Unresolved, NEW st \in Statuses, NEW state \in States,
         Settle(r, st, state), UNCHANGED used
  PROVE  RowsGrow /\ ledger'[r].status = st /\ \A q \in 1 .. used : q # r => ledger'[q] = ledger[q]
<1>1. r \in 1 .. used /\ r \in Receipts /\ ledger[r].status \in Unsettled /\ 1 .. used \subseteq Receipts
  BY Bounds DEF Unresolved, Receipts, RegisterInvariant, TypeOK, LedgerType
<1>2. /\ ledger'[r].status = st
      /\ \A q \in Receipts : /\ ledger'[q].kind = ledger[q].kind /\ ledger'[q].shift = ledger[q].shift
                             /\ q # r => ledger'[q] = ledger[q]
  BY <1>1, SettleRow DEF RegisterInvariant
<1>3. \A q \in 1 .. used : ledger[q].status = "Fiscalized" => ledger'[q].status = "Fiscalized"
  BY <1>1, <1>2 DEF Unsettled
<1>4. used \in 1 .. used \/ used = 0
  BY Bounds DEF RegisterInvariant, TypeOK, LedgerType
<1> QED BY <1>1, <1>2, <1>3, <1>4 DEF RowsGrow

\* What is said of the rows of shifts outlives growth and confirmation.
LEMMA ShiftRowsStand ==
  ASSUME ShiftRows, RowsGrow, UNCHANGED <<used, made>>
  PROVE  ShiftRows'
<1>1. \A s : Opened(s) => Opened(s)'
  BY GrowFacts
<1>2. \A r \in 1 .. used : ledger'[r].kind = ledger[r].kind /\ ledger'[r].shift = ledger[r].shift
  BY DEF RowsGrow
<1> QED BY <1>1, <1>2 DEF ShiftRows

\* The rows DPS accepted keep kind and shift.
LEMMA ServerStands ==
  ASSUME RegisterInvariant, OneOpenAtServer, RowsGrow, UNCHANGED dps
  PROVE  OneOpenAtServer' /\ OpenAtServer' = OpenAtServer
<1>1. \A r \in dps.docs : ledger'[r].kind = ledger[r].kind /\ ledger'[r].shift = ledger[r].shift
  BY DEF RowsGrow, RegisterInvariant, CoreInv, Accepted
<1>2. OpenAtServer' = OpenAtServer
  BY <1>1 DEF OpenAtServer
<1> QED BY <1>2 DEF OneOpenAtServer

\* Steps that leave the shifts alone.
LEMMA ShiftsStand ==
  ASSUME RegisterInvariant, ShiftInvariant, RowsGrow, UNCHANGED <<used, made, shift, current, dps>>,
         Applying'
  PROVE  ShiftInvariant'
<1>1. ShiftRows' /\ OneOpenAtServer'
  BY ShiftRowsStand, ServerStands DEF ShiftInvariant
<1>2. \A r \in 1 .. used : ledger'[r].kind = ledger[r].kind /\ ledger'[r].shift = ledger[r].shift
  BY DEF RowsGrow
<1>3. ShiftStates'
  BY <1>2, GrowFacts DEF ShiftInvariant, ShiftStates
<1>4. Followed'
  BY GrowFacts DEF ShiftInvariant, Followed, ClosedOne
<1> QED BY <1>1, <1>3, <1>4 DEF ShiftInvariant

\* Nothing is written or applied next.
LEMMA ApplyingNothing ==
  ASSUME op'.pc \notin {"write", "finalize"}
  PROVE  Applying'
BY DEF Applying

\* A shift that was opened is one of those made.
LEMMA OpenedIsMade ==
  ASSUME RegisterInvariant, ShiftInvariant, NEW s, Opened(s)
  PROVE  s \in 1 .. made /\ s \in Shifts /\ s # 0
BY Bounds DEF Opened, ShiftInvariant, ShiftRows, RegisterInvariant, TypeOK, ShiftType, Shifts

\* Operations that start, up to the document they write.
LEMMA StartShifts ==
  ASSUME ClosingInvariant, ShiftInvariant,
         \/ \E via : OpenShift(via)
         \/ \E k \in Keys : Fiscalize(k)
         \/ CloseShift \/ CloseAfterZ
  PROVE  ShiftInvariant'
<1>1. UNCHANGED <<ledger, used, made, shift, current, dps>> /\ RegisterInvariant
  BY DEF OpenShift, Fiscalize, CloseShift, CloseAfterZ, rows, server, ClosingInvariant
<1>2. RowsGrow
  BY <1>1, GrowSame
<1>3. ASSUME NEW via, OpenShift(via) PROVE Applying'
  BY <1>3 DEF OpenShift, ToWrite, Idle, Free, Applying
<1>4. ASSUME NEW k \in Keys, Fiscalize(k) PROVE Applying'
  <2>1. KindOf[k] \in KeyKinds
    BY ConstantsAssumption
  <2>2. op'.pc = "idle" \/ (op'.pc = "write" /\ op'.kind = KindOf[k])
    BY <1>4 DEF Fiscalize, ToWrite, Idle, Free
  <2> QED BY <2>1, <2>2 DEF Applying, KeyKinds
<1>5. ASSUME op'.pc = "finalize", op'.rid \in ZReports(current) \/ \E s : op'.rid \in Closings(s)
      PROVE  Applying'
  BY <1>1, <1>5 DEF Applying, ZReports, Closings
<1>6. ASSUME op'.pc = "write", current # 0 PROVE Applying'
  BY <1>1, <1>6 DEF Applying
<1>7. ASSUME CloseShift PROVE Applying'
  <2>1. \/ op'.pc = "idle"
        \/ op'.pc = "write" /\ current # 0
        \/ op'.pc = "finalize" /\ op'.rid \in ZReports(current)
    BY <1>7 DEF CloseShift, Free, ToWrite, ToFinalize, Idle
  <2> QED BY <2>1, <1>5, <1>6, ApplyingNothing
<1>8. ASSUME CloseAfterZ PROVE Applying'
  <2> DEFINE s == ledger[op.rid].shift
  <2>1. /\ op.pc = "z_done"
        /\ \/ \E c \in Closings(s) : ToFinalize(c, op.via)
           \/ Closings(s) = {} /\ ToWrite("Close", NoKey, op.via)
           \/ op' = Idle
    BY <1>8 DEF CloseAfterZ
  <2>2. CASE \E c \in Closings(s) : ToFinalize(c, op.via)
    <3>1. op'.pc = "finalize" /\ op'.rid \in Closings(s)
      BY <2>2 DEF ToFinalize, Idle
    <3> QED BY <3>1, <1>5
  <2>3. CASE Closings(s) = {} /\ ToWrite("Close", NoKey, op.via)
    <3>1. KnowsZ
      BY <2>1 DEF ClosingInvariant, Closer
    <3>2. Opened(s) /\ s = current
      BY <2>3, <3>1 DEF KnowsZ, ShiftInvariant, ShiftRows
    <3>3. current # 0
      BY <1>1, <3>2, OpenedIsMade
    <3>4. op'.pc = "write"
      BY <2>3 DEF ToWrite, Idle
    <3> QED BY <3>3, <3>4, <1>6
  <2>4. CASE op' = Idle
    BY <2>4, ApplyingNothing DEF Idle
  <2> QED BY <2>1, <2>2, <2>3, <2>4
<1> QED BY <1>1, <1>2, <1>3, <1>4, <1>7, <1>8, ShiftsStand

\* The ticket and what reconciliation settles.
LEMMA SettleShifts ==
  ASSUME RegisterInvariant, ShiftInvariant, NEW r \in Unresolved, NEW st \in Statuses,
         NEW state \in States, Settle(r, st, state), UNCHANGED <<used, made, shift, current, dps>>,
         \/ op'.pc = "finalize" /\ op'.rid = r /\ st = "Fiscalized"
         \/ op'.pc \notin {"write", "finalize"}
  PROVE  ShiftInvariant'
<1>1. RowsGrow /\ ledger'[r].status = st
  BY GrowSettled
<1>2. Applying'
  BY <1>1 DEF Applying
<1> QED BY <1>1, <1>2, ShiftsStand

\* An opening that was not confirmed marks its own shift, which is not the current one.
LEMMA RaiseShifts ==
  ASSUME RegisterInvariant, ShiftInvariant, op.pc = "wait", NEW st \in Statuses \ {"Fiscalized"},
         NEW state \in States, Settle(op.rid, st, state), Raise
  PROVE  ShiftInvariant'
<1>1. op.rid \in Unresolved /\ ledger[op.rid].status = "Sending" /\ op.rid \in 1 .. used
  BY WaitingRow DEF Unresolved
<1>2. UNCHANGED <<used, made, current, dps>> /\ op' = Idle
  BY DEF Raise
<1>3. RowsGrow
  BY <1>1, <1>2, GrowSettled
<1>4. Applying'
  BY <1>2, ApplyingNothing DEF Idle
<1>5. CASE ledger[op.rid].kind # "Open"
  BY <1>2, <1>3, <1>4, <1>5, ShiftsStand DEF Raise
<1>6. CASE ledger[op.rid].kind = "Open"
  <2>1. PICK e : e = ledger[op.rid].shift
    OBVIOUS
  <2>2. shift' = [shift EXCEPT ![e] = "Error"] /\ ~Opened(e)
    BY <1>1, <1>6, <2>1 DEF Raise, Opened, ShiftInvariant, ShiftRows
  <2>3. ShiftRows' /\ OneOpenAtServer'
    BY <1>2, <1>3, ShiftRowsStand, ServerStands DEF ShiftInvariant
  <2>4. \A s : s # e => shift'[s] = shift[s]
    BY <2>2
  <2>5. \A s \in Shifts : shift'[s] = shift[s] \/ shift'[s] = "Error"
    BY <2>2 DEF RegisterInvariant, TypeOK, ShiftType
  <2>6. \A r \in 1 .. used : ledger'[r].kind = ledger[r].kind /\ ledger'[r].shift = ledger[r].shift
    BY <1>3 DEF RowsGrow
  <2>7. ShiftStates'
    <3>1. current' # 0 => Opened(current)' /\ shift'[current'] \in {"Open", "Closing"}
      BY <1>2, <1>3, <2>2, <2>4, GrowFacts DEF ShiftInvariant, ShiftStates
    <3>2. \A r \in 1 .. used' : ledger'[r].kind \in {"Z", "Close"} =>
             shift'[ledger'[r].shift] \in {"Open", "Closing", "Closed"}
      BY <1>2, <2>2, <2>4, <2>6 DEF ShiftInvariant, ShiftStates, ShiftRows
    <3>3. \A s \in Shifts : shift'[s] = "Closed" => Closings(s)' # {}
      BY <1>3, <2>5, GrowFacts DEF ShiftInvariant, ShiftStates
    <3> QED BY <3>1, <3>2, <3>3 DEF ShiftStates
  <2>8. Followed'
    BY <1>2, <1>3, <2>5, GrowFacts DEF ShiftInvariant, Followed
  <2> QED BY <1>4, <2>3, <2>7, <2>8 DEF ShiftInvariant
<1> QED BY <1>5, <1>6

\* A confirmed opening makes its shift the current one, unless there is another.
LEMMA FinalizeOpenShifts ==
  ASSUME RegisterInvariant, ShiftInvariant, NEW r \in 1 .. used, ledger[r].status = "Fiscalized",
         FinalizeOpen(r), UNCHANGED <<ledger, used, made, dps>>
  PROVE  ShiftInvariant'
<1>1. PICK s : s = ledger[r].shift
  OBVIOUS
<1>2. RowsGrow
  BY GrowSame
<1>3. op' = Idle /\ ledger[r].kind = "Open"
  BY DEF FinalizeOpen
<1>4. Applying'
  BY <1>3, ApplyingNothing DEF Idle
<1>5. CASE UNCHANGED <<shift, current>>
  BY <1>2, <1>4, <1>5, ShiftsStand
<1>6. CASE current \in {0, s} /\ shift' = [shift EXCEPT ![s] = "Open"] /\ current' = s
  <2>1. Opened(s) /\ Opened(s)' /\ s \in Shifts /\ s # 0
    BY <1>1, <1>2, <1>3, OpenedIsMade, GrowFacts DEF Opened
  <2>2. shift'[s] = "Open" /\ \A t : t # s => shift'[t] = shift[t]
    BY <1>6, <2>1 DEF RegisterInvariant, TypeOK, ShiftType
  <2>3. ShiftRows' /\ OneOpenAtServer'
    BY <1>2, ShiftRowsStand, ServerStands DEF ShiftInvariant
  <2>4. ShiftStates'
    <3>1. current' # 0 => Opened(current)' /\ shift'[current'] \in {"Open", "Closing"}
      BY <1>6, <2>1, <2>2
    <3>2. \A q \in 1 .. used' : ledger'[q].kind \in {"Z", "Close"} =>
             shift'[ledger'[q].shift] \in {"Open", "Closing", "Closed"}
      BY <2>2 DEF ShiftInvariant, ShiftStates
    <3>3. \A t \in Shifts : shift'[t] = "Closed" => Closings(t)' # {}
      BY <1>2, <2>2, GrowFacts DEF ShiftInvariant, ShiftStates
    <3> QED BY <3>1, <3>2, <3>3 DEF ShiftStates
  <2>5. Followed'
    <3>1. ClosedOne => ClosedOne'
      BY <1>2, GrowFacts
    <3>2. \A t \in Shifts : t # 0
      BY DEF Shifts
    <3>3. \A t \in Shifts \ {s} : shift'[t] \in {"Open", "Closing"} => ClosedOne
      BY <1>6, <2>2, <3>2 DEF ShiftInvariant, Followed
    <3> QED BY <1>6, <3>1, <3>3 DEF Followed
  <2> QED BY <1>4, <2>3, <2>4, <2>5 DEF ShiftInvariant
<1> QED BY <1>1, <1>5, <1>6 DEF FinalizeOpen

\* A confirmed Z report finds its shift open, closing or closed.
LEMMA FinalizeZShifts ==
  ASSUME RegisterInvariant, ShiftInvariant, NEW r \in 1 .. used, ledger[r].status = "Fiscalized",
         op.pc = "finalize", FinalizeZ(r), UNCHANGED <<ledger, used, made, dps>>
  PROVE  ShiftInvariant'
<1>1. PICK s : s = ledger[r].shift
  OBVIOUS
<1>2. RowsGrow
  BY GrowSame
<1>3. ledger[r].kind = "Z" /\ UNCHANGED current
  BY DEF FinalizeZ
<1>4. Applying'
  <2>1. op'.pc \in {"idle", "z_done"}
    BY DEF FinalizeZ, Idle, RegisterInvariant, TypeOK, WorkerType, Operation
  <2> QED BY <2>1, ApplyingNothing
<1>5. Opened(s) /\ s \in Shifts /\ shift[s] \in {"Open", "Closing", "Closed"}
  BY <1>1, <1>3, OpenedIsMade DEF ShiftInvariant, ShiftRows, ShiftStates
<1>6. /\ shift'[s] \in {"Closing", "Closed"} /\ (shift'[s] = "Closed" <=> shift[s] = "Closed")
      /\ \A t : t # s => shift'[t] = shift[t]
  BY <1>1, <1>5 DEF FinalizeZ, RegisterInvariant, TypeOK, ShiftType
<1>7. ShiftRows' /\ OneOpenAtServer'
  BY <1>2, ShiftRowsStand, ServerStands DEF ShiftInvariant
<1>8. ShiftStates'
  <2>1. current' # 0 => Opened(current)' /\ shift'[current'] \in {"Open", "Closing"}
    BY <1>2, <1>3, <1>6, GrowFacts DEF ShiftInvariant, ShiftStates
  <2>2. \A q \in 1 .. used' : ledger'[q].kind \in {"Z", "Close"} =>
           shift'[ledger'[q].shift] \in {"Open", "Closing", "Closed"}
    BY <1>6 DEF ShiftInvariant, ShiftStates
  <2>3. \A t \in Shifts : shift'[t] = "Closed" => Closings(t)' # {}
    BY <1>2, <1>6, GrowFacts DEF ShiftInvariant, ShiftStates
  <2> QED BY <2>1, <2>2, <2>3 DEF ShiftStates
<1>9. Followed'
  <2>1. \A t \in Shifts : shift'[t] \in {"Open", "Closing"} => shift[t] \in {"Open", "Closing"}
    BY <1>5, <1>6
  <2> QED BY <1>2, <1>3, <2>1, GrowFacts DEF ShiftInvariant, Followed
<1> QED BY <1>4, <1>7, <1>8, <1>9 DEF ShiftInvariant

\* A shift that has a confirmed closing may be closed, by the worker or the repair.
LEMMA ClosedShifts ==
  ASSUME RegisterInvariant, ShiftInvariant, NEW s \in Shifts, Closings(s) # {},
         shift' = [shift EXCEPT ![s] = "Closed"], current' = current \/ current' = 0, current' # s,
         UNCHANGED <<ledger, used, made, dps>>, Applying'
  PROVE  ShiftInvariant'
<1>1. RowsGrow
  BY GrowSame
<1>2. shift'[s] = "Closed" /\ \A t : t # s => shift'[t] = shift[t]
  BY DEF RegisterInvariant, TypeOK, ShiftType
<1>3. ShiftRows' /\ OneOpenAtServer'
  BY <1>1, ShiftRowsStand, ServerStands DEF ShiftInvariant
<1>4. ShiftStates'
  <2>1. current' # 0 => Opened(current)' /\ shift'[current'] \in {"Open", "Closing"}
    BY <1>1, <1>2, GrowFacts DEF ShiftInvariant, ShiftStates
  <2>2. \A q \in 1 .. used' : ledger'[q].kind \in {"Z", "Close"} =>
           shift'[ledger'[q].shift] \in {"Open", "Closing", "Closed"}
    BY <1>2 DEF ShiftInvariant, ShiftStates
  <2>3. \A t \in Shifts : shift'[t] = "Closed" => Closings(t)' # {}
    BY <1>1, <1>2, GrowFacts DEF ShiftInvariant, ShiftStates
  <2> QED BY <2>1, <2>2, <2>3 DEF ShiftStates
<1>5. Followed'
  BY <1>1, GrowFacts DEF Followed, ClosedOne, Closings
<1> QED BY <1>3, <1>4, <1>5 DEF ShiftInvariant

\* Whatever is confirmed is applied to the shift it belongs to.
LEMMA FinalizeShifts ==
  ASSUME ClosingInvariant, ShiftInvariant, Finalize
  PROVE  ShiftInvariant'
<1>1. /\ RegisterInvariant /\ op.pc = "finalize" /\ op.rid \in 1 .. used
      /\ ledger[op.rid].status = "Fiscalized"
      /\ UNCHANGED <<ledger, used, made, dps>>
  BY DEF Finalize, server, ClosingInvariant, RegisterInvariant, Closing, ShiftInvariant, Applying
<1>2. CASE FinalizeClose(op.rid)
  <2>1. PICK s : s = ledger[op.rid].shift
    OBVIOUS
  <2>2. ledger[op.rid].kind = "Close" /\ op.rid \in Closings(s)
    BY <1>1, <1>2, <2>1 DEF FinalizeClose, Closings
  <2>3. s \in Shifts /\ s # 0
    BY <1>1, <2>1, <2>2, OpenedIsMade DEF ShiftInvariant, ShiftRows
  <2>4. shift' = [shift EXCEPT ![s] = "Closed"] /\ current' = 0 /\ op' = Idle
    BY <1>2, <2>1 DEF FinalizeClose
  <2>5. Applying'
    BY <2>4, ApplyingNothing DEF Idle
  <2> QED BY <1>1, <2>2, <2>3, <2>4, <2>5, ClosedShifts
<1> QED BY <1>1, <1>2, FinalizeOpenShifts, FinalizeZShifts DEF Finalize

\* The repair finds what closes a shift, and no worker that still writes for it.
LEMMA RepairShifts ==
  ASSUME ClosingInvariant, ShiftInvariant, NEW s \in Shifts, RepairClosing(s)
  PROVE  ShiftInvariant'
<1>1. /\ RegisterInvariant /\ UNCHANGED <<ledger, used, made, dps, op>>
      /\ shift' = [shift EXCEPT ![s] = "Closed"]
      /\ current' = IF current = s THEN 0 ELSE current
  BY DEF RepairClosing, server, ClosingInvariant
<1>2. PICK z \in Newest("Z", s), c \in Newest("Close", s) :
         ledger[z].status = "Fiscalized" /\ ledger[c].status = "Fiscalized"
  BY DEF RepairClosing
<1>3. z \in ZReports(s) /\ c \in Closings(s)
  BY <1>2 DEF Newest, ZReports, Closings
<1>4. Applying'
  <2>1. op.pc = "write" /\ op.kind \in {"Z", "Close"} => current # s
    BY <1>3 DEF ClosingInvariant, Closer
  <2> QED BY <1>1, <2>1 DEF ShiftInvariant, Applying
<1>5. s # 0
  BY DEF Shifts
<1> QED BY <1>1, <1>3, <1>4, <1>5, ClosedShifts

\* A new row opens a shift of its own, or belongs to the current one.
LEMMA AppendShifts ==
  ASSUME RegisterInvariant, ShiftInvariant, op.pc = "write", NEW st \in {"Sending", "Draft"}, Append(st),
         \/ op.kind = "Open" /\ \E x \in {"Opening", "Error"} : NewShift(x)
         \/ op.kind = "Z" /\ shift' = [shift EXCEPT ![current] = "Closing"] /\ UNCHANGED made
         \/ op.kind # "Open" /\ UNCHANGED <<shift, made>>,
         UNCHANGED <<current, dps>>, op'.pc \notin {"write", "finalize"}
  PROVE  ShiftInvariant'
<1> DEFINE new == used + 1
<1>1. /\ new \in Receipts /\ used' = new /\ 1 .. used \subseteq Receipts /\ new \notin 1 .. used
      /\ \A q \in 1 .. new : q = new \/ q \in 1 .. used
      /\ 1 .. used \subseteq 1 .. new /\ (used \in 1 .. new \/ used = 0)
  BY Bounds DEF Append, RegisterInvariant, Writing, TypeOK, LedgerType, Receipts
<1>2. /\ NewRow(st).status = st /\ NewRow(st).kind = op.kind
      /\ NewRow(st).shift = IF op.kind = "Open" THEN made + 1 ELSE current
  BY DEF NewRow
<1>3. /\ ledger'[new] = NewRow(st)
      /\ \A q \in 1 .. used : ledger'[q] = ledger[q]
  BY <1>1 DEF Append, RegisterInvariant, TypeOK, LedgerType
<1> HIDE DEF new
<1>4. RowsGrow
  BY <1>1, <1>3 DEF RowsGrow
<1>5. Applying'
  BY ApplyingNothing
<1>6. OneOpenAtServer'
  BY <1>4, ServerStands DEF ShiftInvariant
<1>7. made \in Nat /\ current \in Nat /\ \A s : Opened(s) => s \in 1 .. made /\ s \in Shifts
  BY OpenedIsMade, Bounds DEF RegisterInvariant, TypeOK, ShiftType
<1>8. /\ made' \in Nat /\ 1 .. made \subseteq 1 .. made'
      /\ op.kind = "Open" => made + 1 \in 1 .. made' /\ made + 1 \notin 1 .. made
  BY <1>7 DEF NewShift
<1>9. op.kind \in {"Z", "Close"} => Opened(current) /\ shift[current] \in {"Open", "Closing"}
  BY DEF ShiftInvariant, ShiftStates, Applying
<1>10. \A s \in 1 .. made : shift'[s] = shift[s] \/ (shift'[s] = "Closing" /\ shift[s] \in {"Open", "Closing"})
  <2>1. CASE op.kind = "Open" /\ \E x \in {"Opening", "Error"} : NewShift(x)
    BY <2>1, <1>8 DEF NewShift
  <2>2. CASE op.kind = "Z" /\ shift' = [shift EXCEPT ![current] = "Closing"]
    BY <2>2, <1>7, <1>9 DEF RegisterInvariant, TypeOK, ShiftType
  <2> QED BY <2>1, <2>2
<1>11. \A s \in Shifts : s \notin 1 .. made => shift'[s] = shift[s] \/ shift'[s] \in {"Opening", "Error"}
  <2>1. CASE op.kind = "Open" /\ \E x \in {"Opening", "Error"} : NewShift(x)
    BY <2>1 DEF NewShift, RegisterInvariant, TypeOK, ShiftType
  <2>2. CASE op.kind = "Z" /\ shift' = [shift EXCEPT ![current] = "Closing"]
    BY <2>2, <1>7, <1>9 DEF RegisterInvariant, TypeOK, ShiftType
  <2> QED BY <2>1, <2>2
<1>12. ShiftRows'
  <2>1. \A q \in 1 .. new : ledger'[q].kind = "Open" => ledger'[q].shift \in 1 .. made'
    BY <1>1, <1>2, <1>3, <1>8 DEF ShiftInvariant, ShiftRows
  <2>2. \A q \in 1 .. used : ledger[q].kind = "Open" => ledger[q].shift \in 1 .. made
    BY DEF ShiftInvariant, ShiftRows
  <2>3. \A p, q \in 1 .. new :
           ledger'[p].kind = "Open" /\ ledger'[q].kind = "Open" /\ ledger'[p].shift = ledger'[q].shift
           => p = q
    <3> TAKE p, q \in 1 .. new
    <3> HAVE ledger'[p].kind = "Open" /\ ledger'[q].kind = "Open" /\ ledger'[p].shift = ledger'[q].shift
    <3>1. CASE p \in 1 .. used /\ q \in 1 .. used
      BY <3>1, <1>3 DEF ShiftInvariant, ShiftRows
    <3>2. CASE p = new /\ q \in 1 .. used
      BY <3>2, <1>2, <1>3, <1>8, <2>2
    <3>3. CASE p \in 1 .. used /\ q = new
      BY <3>3, <1>2, <1>3, <1>8, <2>2
    <3> QED BY <1>1, <3>1, <3>2, <3>3
  <2>4. \A q \in 1 .. new : ledger'[q].kind \in {"Z", "Close"} => Opened(ledger[q].shift)'
    <3>1. \A s : Opened(s) => Opened(s)'
      BY <1>4, GrowFacts
    <3>2. \A q \in 1 .. used : ledger'[q].kind \in {"Z", "Close"} => Opened(ledger'[q].shift)
      BY <1>3 DEF ShiftInvariant, ShiftRows
    <3>3. ledger'[new].kind \in {"Z", "Close"} => Opened(ledger'[new].shift)
      BY <1>2, <1>3, <1>9
    <3> QED BY <1>1, <3>1, <3>2, <3>3
  <2> QED BY <1>1, <2>1, <2>3, <2>4 DEF ShiftRows
<1>13. ShiftStates'
  <2>1. current' # 0 => Opened(current)' /\ shift'[current'] \in {"Open", "Closing"}
    BY <1>4, <1>7, <1>10, GrowFacts DEF ShiftInvariant, ShiftStates
  <2>2. \A q \in 1 .. used' : ledger'[q].kind \in {"Z", "Close"} =>
           shift'[ledger'[q].shift] \in {"Open", "Closing", "Closed"}
    <3>1. \A q \in 1 .. used : ledger[q].kind \in {"Z", "Close"} =>
             /\ ledger[q].shift \in 1 .. made
             /\ shift[ledger[q].shift] \in {"Open", "Closing", "Closed"}
      BY <1>7 DEF ShiftInvariant, ShiftRows, ShiftStates
    <3>2. \A q \in 1 .. used : ledger'[q].kind \in {"Z", "Close"} =>
             shift'[ledger'[q].shift] \in {"Open", "Closing", "Closed"}
      BY <1>3, <1>10, <3>1
    <3>3. ledger'[new].kind \in {"Z", "Close"} => shift'[ledger'[new].shift] \in {"Open", "Closing", "Closed"}
      BY <1>2, <1>3, <1>7, <1>9, <1>10
    <3> QED BY <1>1, <3>2, <3>3
  <2>3. \A t \in Shifts : shift'[t] = "Closed" => Closings(t)' # {}
    <3>1. \A t \in Shifts : shift'[t] = "Closed" => shift[t] = "Closed"
      BY <1>10, <1>11
    <3> QED BY <1>4, <3>1, GrowFacts DEF ShiftInvariant, ShiftStates
  <2> QED BY <2>1, <2>2, <2>3 DEF ShiftStates
<1>14. Followed'
  <2>1. \A t \in Shifts : shift'[t] \in {"Open", "Closing"} => shift[t] \in {"Open", "Closing"}
    BY <1>10, <1>11
  <2> QED BY <1>4, <2>1, GrowFacts DEF ShiftInvariant, Followed
<1> QED BY <1>5, <1>6, <1>12, <1>13, <1>14 DEF ShiftInvariant

\* The document is written, or only kept as a draft, or not at all.
LEMMA WriteShifts ==
  ASSUME RegisterInvariant, ShiftInvariant, WriteDocument \/ SignerFails
  PROVE  ShiftInvariant'
<1>1. CASE WriteDocument
  <2>1. op'.pc = "wait"
    BY <1>1 DEF WriteDocument, RegisterInvariant, TypeOK, WorkerType, Operation
  <2>2. /\ op.pc = "write" /\ Append("Sending") /\ UNCHANGED <<current, dps>>
        /\ \/ op.kind = "Open" /\ \E x \in {"Opening", "Error"} : NewShift(x)
           \/ op.kind = "Z" /\ shift' = [shift EXCEPT ![current] = "Closing"] /\ UNCHANGED made
           \/ op.kind # "Open" /\ UNCHANGED <<shift, made>>
    BY <1>1 DEF WriteDocument, server
  <2> QED BY <2>1, <2>2, AppendShifts
<1>2. CASE SignerFails
  <2>1. op.pc = "write" /\ op'.pc = "idle" /\ UNCHANGED <<current, dps>>
    BY <1>2 DEF SignerFails, Idle, server
  <2>2. CASE UNCHANGED <<ledger, used, shift, made>>
    BY <2>1, <2>2, GrowSame, ApplyingNothing, ShiftsStand
  <2>3. CASE Append("Draft") /\ (IF op.kind = "Open" THEN NewShift("Error") ELSE UNCHANGED <<shift, made>>)
    BY <2>1, <2>3, AppendShifts
  <2> QED BY <1>2, <2>2, <2>3 DEF SignerFails
<1> QED BY <1>1, <1>2

\* DPS opens a shift of its own number only when it has none open, and closes only
\* the one it has.
LEMMA TakeShifts ==
  ASSUME ClosingInvariant, ShiftInvariant, ServerAccepts
  PROVE  ShiftInvariant'
<1>1. PICK r : r = op.rid
  OBVIOUS
<1>2. /\ RegisterInvariant /\ r \in 1 .. used /\ r \notin dps.docs /\ ledger[r].status = "Sending"
      /\ Acceptable(r) /\ Take(r) /\ Live(r)
      /\ UNCHANGED <<ledger, used, made, shift, current>>
  BY <1>1, WaitingRow DEF ServerAccepts, local, ClosingInvariant, RegisterInvariant, Waiting, Live
<1>3. op'.pc = "wait"
  BY <1>2 DEF ServerAccepts, RegisterInvariant, TypeOK, WorkerType, Operation
<1>4. PICK s : s = ledger[r].shift
  OBVIOUS
<1>5. dps'.docs = dps.docs \cup {r} /\ (dps'.open <=> ledger[r].kind # "Close")
  BY <1>2 DEF Take
<1>6. \A q \in dps.docs : q \in 1 .. used /\ Live(q)
  BY <1>2 DEF RegisterInvariant, CoreInv, Accepted, AcceptedIsKept, Live
<1>7. ShiftRows /\ ShiftStates /\ Followed /\ OneOpenAtServer
  BY DEF ShiftInvariant
<1>8. OneOpenAtServer'
  <2>1. CASE ledger[r].kind \notin {"Open", "Close"}
    <3>1. OpenAtServer' = OpenAtServer
      BY <1>2, <1>5, <2>1 DEF OpenAtServer
    <3> QED BY <1>2, <1>5, <1>7, <2>1, <3>1 DEF OneOpenAtServer, Acceptable
  <2>2. CASE ledger[r].kind = "Open"
    <3>1. OpenAtServer = {}
      BY <1>2, <1>7, <2>2 DEF OneOpenAtServer, Acceptable
    <3>2. ~Opened(s) /\ s \in Shifts
      BY <1>2, <1>4, <1>7, <2>2, Bounds DEF Opened, ShiftRows, RegisterInvariant, TypeOK, ShiftType, Shifts
    <3>3. \A q \in dps.docs : ledger[q].kind = "Close" => ledger[q].shift # s
      BY <1>6, <1>7, <3>2 DEF ShiftRows
    <3>4. OpenAtServer' = {s}
      BY <1>2, <1>4, <1>5, <2>2, <3>1, <3>2, <3>3 DEF OpenAtServer
    <3> QED BY <1>5, <2>2, <3>4 DEF OneOpenAtServer
  <2>3. CASE ledger[r].kind = "Close"
    <3>1. Opened(s)
      BY <1>2, <1>4, <1>7, <2>3 DEF ShiftRows
    <3>2. s \in Shifts
      BY <1>2, <3>1, OpenedIsMade
    <3>3. PICK o \in dps.docs : ledger[o].kind = "Open" /\ ledger[o].shift = s
      BY <1>2, <3>1, Bounds DEF Opened, RegisterInvariant, CoreInv, ConfirmedIsAccepted, TypeOK, LedgerType, Receipts
    <3>4. \A q \in dps.docs : ledger[q].kind = "Close" => ledger[q].shift # s
      BY <1>2, <1>4, <1>6, <2>3 DEF ClosingInvariant, OneClosing
    <3>5. s \in OpenAtServer
      BY <3>2, <3>3, <3>4 DEF OpenAtServer
    <3>6. OpenAtServer = {s}
      BY <1>7, <3>5 DEF OneOpenAtServer
    <3>7. OpenAtServer' = {}
      BY <1>2, <1>4, <1>5, <2>3, <3>6 DEF OpenAtServer
    <3> QED BY <1>5, <2>3, <3>7 DEF OneOpenAtServer
  <2> QED BY <2>1, <2>2, <2>3
<1>9. RowsGrow
  BY <1>2, GrowSame
<1>10. ShiftRows'
  BY <1>2, <1>7, <1>9, ShiftRowsStand
<1>11. ShiftStates' /\ Followed'
  BY <1>2, <1>7, <1>9, GrowFacts DEF ShiftStates, Followed
<1> QED BY <1>3, <1>8, <1>10, <1>11, ApplyingNothing DEF ShiftInvariant

\* Reconciliation, by whoever calls it.
LEMMA ReconcileShifts ==
  ASSUME RegisterInvariant, ShiftInvariant, NEW r \in 1 .. used, Reconcile(r)
  PROVE  ShiftInvariant'
<1>1. Free /\ UNCHANGED <<used, made, shift, current, dps>>
  BY DEF Reconcile, server
<1>2. CASE Confirm(r)
  <2>1. \/ op'.pc = "finalize" /\ op'.rid = r
        \/ op'.pc = "idle"
    BY <1>1, <1>2 DEF Confirm, ToFinalize, Idle, Free
  <2>2. CASE ledger[r].status = "Fiscalized" /\ UNCHANGED ledger
    <3>1. Applying'
      BY <2>1, <2>2 DEF Applying
    <3> QED BY <1>1, <2>2, <3>1, GrowSame, ShiftsStand
  <2>3. CASE r \in Unresolved /\ Settle(r, "Fiscalized", "Confirmed")
    BY <1>1, <2>1, <2>3, SettleShifts DEF Statuses, States
  <2> QED BY <1>2, <2>2, <2>3 DEF Confirm, Unresolved, Unsettled
<1>3. CASE Release(r)
  <2>1. ledger[r].state \in States /\ r \in Unresolved /\ Settle(r, "Cancelled", ledger[r].state) /\ UNCHANGED op
    BY <1>3 DEF Release, Releasable, States, Unresolved, Unsettled
  <2>2. op'.pc = "idle"
    BY <1>1, <2>1 DEF Free
  <2> QED BY <1>1, <2>1, <2>2, SettleShifts DEF Statuses
<1> QED BY <1>2, <1>3 DEF Reconcile

\* Every step of the register keeps the invariant of the shifts.
LEMMA ShiftStep ==
  ASSUME ClosingInvariant, ShiftInvariant, [Next]_vars
  PROVE  ShiftInvariant'
<1> DEFINE Kept == ShiftInvariant'
<1> SUFFICES Kept
  OBVIOUS
<1>1. RegisterInvariant
  BY DEF ClosingInvariant
<1>2. CASE \/ \E via : OpenShift(via)
           \/ \E k \in Keys : Fiscalize(k)
           \/ CloseShift \/ CloseAfterZ
  BY <1>2, StartShifts
<1>3. CASE Exchange
  <2>1. CASE Ticket
    <3>1. op.rid \in Unresolved /\ Settle(op.rid, "Fiscalized", "Confirmed")
      BY <1>1, <2>1, WaitingRow DEF Ticket
    <3>2. \/ op'.pc = "finalize" /\ op'.rid = op.rid
          \/ op'.pc = "idle"
      <4>1. ToFinalize(op.rid, op.via) \/ op' = Idle
        BY <2>1 DEF Ticket
      <4>2. CASE ToFinalize(op.rid, op.via)
        BY <4>2 DEF ToFinalize, Idle
      <4>3. CASE op' = Idle
        BY <4>3 DEF Idle
      <4> QED BY <4>1, <4>2, <4>3
    <3>3. UNCHANGED <<used, made, shift, current, dps>>
      BY <2>1 DEF Ticket, server
    <3> QED BY <1>1, <3>1, <3>2, <3>3, SettleShifts DEF Statuses, States
  <2>2. CASE Rejection \/ HttpRefusal \/ NoUsableAnswer
    <3>1. op.pc = "wait" /\ Raise
      BY <2>2 DEF Rejection, HttpRefusal, NoUsableAnswer
    <3>2. \E st \in Statuses \ {"Fiscalized"}, state \in States : Settle(op.rid, st, state)
      BY <2>2 DEF Rejection, HttpRefusal, NoUsableAnswer, Statuses, Unsettled, States
    <3> QED BY <1>1, <3>1, <3>2, RaiseShifts
  <2>3. CASE ServerRejects \/ RequestLost
    <3>1. op'.pc = "wait"
      BY <1>1, <2>3 DEF ServerRejects, RequestLost, RegisterInvariant, TypeOK, WorkerType, Operation
    <3>2. UNCHANGED <<ledger, used, made, shift, current, dps>>
      BY <2>3 DEF ServerRejects, RequestLost, local, server
    <3> QED BY <1>1, <3>1, <3>2, GrowSame, ApplyingNothing, ShiftsStand
  <2> QED BY <1>1, <1>3, <2>1, <2>2, <2>3, WriteShifts, TakeShifts DEF Exchange
<1>4. CASE Finalize
  BY <1>4, FinalizeShifts
<1>5. ASSUME NEW r \in 1 .. used, Reconcile(r) PROVE Kept
  BY <1>1, <1>5, ReconcileShifts
<1>6. ASSUME NEW r \in Receipts, AutoReconcile(r) \/ DeskReconcile(r) PROVE Kept
  <2>1. r \in 1 .. used /\ Reconcile(r)
    BY <1>1, <1>6, Bounds DEF AutoReconcile, DeskReconcile, Unresolved, Receipts,
                              RegisterInvariant, TypeOK, LedgerType
  <2> QED BY <2>1, <1>5
<1>7. ASSUME UNCHANGED <<ledger, used, made, shift, current, dps>>, op' = op \/ op' = Idle
      PROVE  Kept
  <2>1. Applying'
    BY <1>7 DEF Applying, Idle, ShiftInvariant
  <2> QED BY <1>1, <1>7, <2>1, GrowSame, ShiftsStand
<1>8. CASE HandlerReconciles
  <2>1. ASSUME NEW r \in Suspects, Reconcile(r) PROVE Kept
    <3>1. r \in 1 .. used
      BY DEF Suspects
    <3> QED BY <2>1, <3>1, <1>5
  <2>2. CASE UNCHANGED <<local, op, server>>
    BY <1>7, <2>2 DEF local, server
  <2> QED BY <1>8, <2>1, <2>2 DEF HandlerReconciles
<1>9. ASSUME NEW r \in Receipts, Resume(r) PROVE Kept
  <2>1. r \in Unresolved /\ Free /\ UNCHANGED <<used, made, shift, current, dps>>
    BY <1>9 DEF Resume, server
  <2>2. CASE UNCHANGED <<ledger, op>>
    BY <1>7, <2>1, <2>2
  <2>3. CASE Settle(r, "Sending", "NotSent") /\ op'.pc = "wait"
    BY <1>1, <2>1, <2>3, SettleShifts DEF Statuses, Unsettled, States
  <2> QED BY <1>9, <2>2, <2>3 DEF Resume, Idle
<1>10. ASSUME NEW s \in Shifts, RepairClosing(s) PROVE Kept
  BY <1>10, RepairShifts
<1>11. CASE SyncLoad \/ SyncQuery \/ SyncApply \/ Crash \/ UNCHANGED vars
  <2>1. UNCHANGED <<ledger, used, made, shift, current, dps>> /\ (op' = op \/ op' = Idle)
    BY <1>11 DEF SyncLoad, SyncQuery, SyncApply, Crash, vars, local, rows, server
  <2> QED BY <2>1, <1>7
<1>12. ASSUME NEW r \in late PROVE FALSE
  BY <1>1 DEF RegisterInvariant, CoreInv, Accepted
<1> HIDE DEF Kept
<1> QED BY <1>2, <1>3, <1>4, <1>6, <1>8, <1>9, <1>10, <1>11, <1>12 DEF Next

\* A register without documents has no shift, nor has DPS.
LEMMA InitShifts == Init => ShiftInvariant
<1> SUFFICES ASSUME Init PROVE ShiftInvariant
  OBVIOUS
<1>1. /\ used = 0 /\ current = 0 /\ op.pc = "idle" /\ dps.docs = {} /\ dps.open = FALSE
      /\ \A s \in Shifts : shift[s] = "None"
  BY DEF Init, Idle
<1>2. 1 .. used = {}
  BY <1>1
<1>3. ShiftRows /\ ShiftStates /\ Applying /\ Followed
  BY <1>1, <1>2 DEF ShiftRows, ShiftStates, Applying, Followed
<1>4. OneOpenAtServer
  BY <1>1 DEF OneOpenAtServer, OpenAtServer
<1> QED BY <1>3, <1>4 DEF ShiftInvariant

\* Shifts, documents and the shift state of DPS fit together in every reachable state.
THEOREM ShiftsAreSound ==
  ASSUME Punctual
  PROVE  Spec => [](ClosingInvariant /\ ShiftInvariant)
<1>1. ClosingInvariant /\ ShiftInvariant /\ [Next]_vars => (ClosingInvariant /\ ShiftInvariant)'
  BY StepInv, ClosingStep, ShiftStep DEF ClosingInvariant
<1> QED BY <1>1, InitClosing, InitShifts, PTL DEF Spec

\* What the invariant says once nothing is in doubt and nothing waits to be applied.
LEMMA ShiftsThenAgree ==
  ASSUME ClosingInvariant, ShiftInvariant
  PROVE  ShiftAgreesWithServer
<1> SUFFICES ASSUME Unresolved = {}, Applied
             PROVE  IF dps.open
                    THEN \E s \in Shifts : /\ OpenAtServer = {s} /\ shift[s] \in {"Open", "Closing"}
                                           /\ current = s \/ (current = 0 /\ ClosedBefore(s))
                    ELSE OpenAtServer = {} /\ current = 0
  BY DEF ShiftAgreesWithServer
<1>1. /\ RegisterInvariant /\ ShiftRows /\ ShiftStates /\ OneOpenAtServer /\ Followed
      /\ dps.docs \subseteq 1 .. used /\ 1 .. used \subseteq Receipts
  BY Bounds DEF ClosingInvariant, ShiftInvariant, RegisterInvariant, CoreInv, Accepted, TypeOK,
                LedgerType, Receipts
<1>2. \A r \in 1 .. used : r \in dps.docs <=> ledger[r].status = "Fiscalized"
  <2>1. \A r \in dps.docs : ledger[r].status = "Fiscalized"
    BY <1>1 DEF RegisterInvariant, CoreInv, AcceptedIsKept, Unresolved, Unsettled
  <2> QED BY <1>1, <2>1 DEF RegisterInvariant, CoreInv, ConfirmedIsAccepted
<1>3. \A s \in Shifts : s \in OpenAtServer <=> Opened(s) /\ Closings(s) = {}
  BY <1>1, <1>2 DEF OpenAtServer, Opened, Closings
<1>4. current # 0 => current \in OpenAtServer
  <2> SUFFICES ASSUME current # 0 PROVE current \in OpenAtServer
    OBVIOUS
  <2>1. Opened(current) /\ shift[current] \in {"Open", "Closing"} /\ current \in Shifts
    BY <1>1, OpenedIsMade DEF ShiftStates
  <2>2. Closings(current) = {}
    BY <1>1, <2>1 DEF Closings, Applied
  <2> QED BY <1>3, <2>1, <2>2
<1>5. CASE ~dps.open
  BY <1>1, <1>4, <1>5 DEF OneOpenAtServer
<1>6. CASE dps.open
  <2>1. PICK s \in OpenAtServer : OpenAtServer = {s}
    BY <1>1, <1>6 DEF OneOpenAtServer
  <2>2. s \in Shifts /\ Opened(s) /\ Closings(s) = {}
    BY <1>3 DEF OpenAtServer
  <2>3. shift[s] \in {"Open", "Closing"}
    <3>1. shift[s] \in {"Open", "Closing", "Closed"}
      BY <1>1, <2>2 DEF Opened, Applied
    <3> QED BY <1>1, <2>2, <3>1 DEF ShiftStates
  <2>4. current = s \/ current = 0
    BY <1>4, <2>1
  <2>5. ClosedOne => ClosedBefore(s)
    BY <1>1, <2>2 DEF ClosedOne, ClosedBefore, Closings
  <2>6. current = s \/ (current = 0 /\ ClosedBefore(s))
    BY <1>1, <2>2, <2>3, <2>4, <2>5 DEF Followed
  <2> QED BY <1>6, <2>1, <2>2, <2>3, <2>6
<1> QED BY <1>5, <1>6

\* The shift DPS has open is the one the register works in, unless the closing of another
\* shift took it away.
THEOREM ShiftFollowsServer ==
  ASSUME Punctual
  PROVE  Spec => []ShiftAgreesWithServer
<1>1. ClosingInvariant /\ ShiftInvariant => ShiftAgreesWithServer
  BY ShiftsThenAgree
<1> QED BY <1>1, ShiftsAreSound, PTL

-----------------------------------------------------------------------------
(* What holds even if requests arrive after their senders gave up.            *)

Numbered == Rows /\ LiveNumbers /\ Returned
Steady   == ~sync.fresh /\ (sync.pc = "queried" => sync.seen # 0)

\* Nothing of this depends on the next number while the ledger is empty.
LEMMA LateSame ==
  ASSUME Numbered, Consumed, UNCHANGED <<ledger, used, dps, late>>, next' = next \/ used = 0
  PROVE  Numbered' /\ Consumed'
BY DEF Numbered, Rows, LiveNumbers, Returned, SaleBefore, Consumed, Live, Holds

LEMMA PreflightLate ==
  ASSUME TypeOK, NEW expected, NEW passes, Preflight(expected, passes)
  PROVE  /\ next' \in Nat \ {0} /\ (next' = next \/ used = 0)
         /\ runtime' \in {"Online", "Blocked"} /\ faults' \in 0 .. MaxFaults
BY Bounds DEF Preflight, Matches, Fresh, Fault, TypeOK, LedgerType, ShiftType, ServerType

\* A step of a lock holder that writes nothing to the ledger yet.
LEMMA LateLocked ==
  ASSUME LateInvariant, UNCHANGED <<ledger, used, made, current, sync, dps, late>>,
         next' \in Nat \ {0}, next' = next \/ used = 0,
         ShiftType', faults' \in 0 .. MaxFaults, HandlerType', op' \in Operation, Worker'
  PROVE  LateInvariant'
<1>1. Numbered' /\ Consumed'
  BY LateSame DEF LateInvariant, Numbered
<1>2. TypeOK'
  BY DEF LateInvariant, TypeOK, LedgerType, WorkerType, HandlerType, SyncType, ServerType
<1> QED BY <1>1, <1>2 DEF LateInvariant, Numbered

LEMMA WorkerEnds ==
  ASSUME op' = Idle
  PROVE  Worker'
BY DEF Worker, Idle

LEMMA WorkerStill ==
  ASSUME LateInvariant, Free, UNCHANGED op
  PROVE  Worker'
BY DEF Worker, Free, LateInvariant

LEMMA OpenLate ==
  ASSUME LateInvariant, NEW via \in {"fiscal_open_shift", "open_shift"}, OpenShift(via)
  PROVE  LateInvariant'
<1>1. /\ UNCHANGED <<ledger, used, shift, made, current, sync, dps, late>> /\ Free
      /\ TypeOK /\ op \in Operation
  BY DEF OpenShift, rows, server, LateInvariant, TypeOK, WorkerType
<1>2. /\ next' \in Nat \ {0} /\ (next' = next \/ used = 0)
      /\ runtime' \in {"Online", "Blocked"} /\ faults' \in 0 .. MaxFaults
  BY <1>1, PreflightLate DEF OpenShift, TypeOK, LedgerType, ShiftType
<1>3. HandlerType'
  BY <1>1, CaughtType DEF OpenShift, TypeOK, WorkerType, HandlerType
<1>4. op' \in Operation /\ Worker'
  <2>1. CASE used < MaxReceipts /\ made < MaxShifts /\ ToWrite("Open", NoKey, via)
    <3>1. op' \in Operation /\ op'.pc = "write" /\ op'.kind = "Open" /\ op'.key = NoKey
          /\ op'.reply = "none"
      BY <2>1, WriteOp DEF Kinds, ShiftKinds, Vias, Handlers
    <3> QED BY <1>1, <2>1, <3>1 DEF Worker
  <2>2. CASE UNCHANGED op
    BY <1>1, <2>2, WorkerStill
  <2> QED BY <2>1, <2>2 DEF OpenShift
<1>5. ShiftType'
  BY <1>1, <1>2 DEF TypeOK, ShiftType
<1> QED BY <1>1, <1>2, <1>3, <1>4, <1>5, LateLocked

LEMMA FiscalizeLate ==
  ASSUME LateInvariant, NEW k \in Keys, Fiscalize(k)
  PROVE  LateInvariant'
<1>1. /\ UNCHANGED <<ledger, used, shift, made, current, handler, sync, dps, late>> /\ Free
      /\ TypeOK /\ op \in Operation
  BY DEF Fiscalize, rows, server, LateInvariant, TypeOK, WorkerType
<1>2. /\ next' \in Nat \ {0} /\ (next' = next \/ used = 0)
      /\ runtime' \in {"Online", "Blocked"} /\ faults' \in 0 .. MaxFaults
  BY <1>1, PreflightLate DEF Fiscalize
<1>3. ShiftType' /\ HandlerType'
  BY <1>1, <1>2 DEF TypeOK, ShiftType, WorkerType, HandlerType
<1>4. op' \in Operation /\ Worker'
  <2>1. CASE used < MaxReceipts /\ ToWrite(KindOf[k], k, "fiscalize")
    <3>1. KindOf[k] \in KeyKinds /\ KindOf[k] \in Kinds
      BY ConstantsAssumption DEF Kinds
    <3>2. op' \in Operation /\ op'.pc = "write" /\ op'.kind = KindOf[k] /\ op'.key = k
          /\ op'.reply = "none"
      BY <2>1, <3>1, WriteOp DEF Vias
    <3>3. ASSUME KindOf[k] = "Return" PROVE SaleBefore(k, next)'
      <4>1. PICK q \in Receipts : ledger[q].key = OriginalOf[k] /\ ledger[q].status = "Fiscalized"
        BY <3>3 DEF Fiscalize
      <4>2. q \in 1 .. used
        <5>1. q \in Nat /\ q >= 1 /\ used \in Nat
          BY <1>1, Bounds DEF Receipts, TypeOK, LedgerType
        <5>2. ~(q > used)
          BY <4>1 DEF LateInvariant, Rows, NoReceipt
        <5> QED BY <5>1, <5>2
      <4>3. ledger[q].num < next
        BY <4>1, <4>2 DEF LateInvariant, LiveNumbers, Live
      <4>4. next' = next
        BY <1>1, <1>2, <4>2 DEF TypeOK, LedgerType
      <4> QED BY <1>1, <4>1, <4>2, <4>3, <4>4 DEF SaleBefore
    <3> QED BY <1>1, <2>1, <3>1, <3>2, <3>3 DEF Worker, KeyKinds
  <2>2. CASE UNCHANGED op
    BY <1>1, <2>2, WorkerStill
  <2> QED BY <2>1, <2>2 DEF Fiscalize
<1> QED BY <1>1, <1>2, <1>3, <1>4, LateLocked

LEMMA CloseLate ==
  ASSUME LateInvariant, CloseShift \/ CloseAfterZ
  PROVE  LateInvariant'
<1>1. /\ UNCHANGED <<ledger, used, shift, made, current, sync, dps, late>>
      /\ TypeOK /\ op \in Operation /\ op.via \in Vias
  BY DEF CloseShift, CloseAfterZ, rows, server, LateInvariant, TypeOK, WorkerType, Operation, Vias
<1>2. /\ next' \in Nat \ {0} /\ (next' = next \/ used = 0)
      /\ runtime' \in {"Online", "Blocked"} /\ faults' \in 0 .. MaxFaults
  BY <1>1, PreflightLate DEF CloseShift, CloseAfterZ, TypeOK, LedgerType, ShiftType
<1>3. ShiftType'
  BY <1>1, <1>2 DEF TypeOK, ShiftType
<1>4. HandlerType'
  BY <1>1, CaughtType DEF CloseShift, CloseAfterZ, TypeOK, WorkerType, HandlerType
<1>5. op' \in Operation /\ Worker'
  <2>1. ASSUME NEW kind \in {"Z", "Close"}, NEW via \in Vias, used < MaxReceipts,
               ToWrite(kind, NoKey, via)
        PROVE  op' \in Operation /\ Worker'
    <3>1. op' \in Operation /\ op'.pc = "write" /\ op'.kind = kind /\ op'.reply = "none"
      BY <2>1, WriteOp DEF Kinds, ShiftKinds
    <3> QED BY <1>1, <2>1, <3>1 DEF Worker
  <2>2. ASSUME NEW r \in 1 .. used, NEW via \in Vias, ToFinalize(r, via)
        PROVE  op' \in Operation /\ Worker'
    <3>1. r \in 0 .. MaxReceipts
      BY <1>1, Bounds DEF TypeOK, LedgerType
    <3>2. op' \in Operation /\ op'.pc = "finalize" /\ op'.rid = r /\ op'.reply = "none"
      BY <2>2, <3>1, FinalizeOp
    <3> QED BY <1>1, <3>2 DEF Worker
  <2>3. CASE op' = Idle \/ (Free /\ UNCHANGED op)
    BY <1>1, <2>3, IdleOp, WorkerEnds, WorkerStill
  <2>4. \A s : ZReports(s) \subseteq 1 .. used /\ Closings(s) \subseteq 1 .. used
    BY DEF ZReports, Closings
  <2>5. CASE CloseShift
    BY <1>1, <2>1, <2>2, <2>3, <2>4, <2>5 DEF CloseShift, Vias, Handlers
  <2>6. CASE CloseAfterZ
    BY <1>1, <2>1, <2>2, <2>3, <2>4, <2>6 DEF CloseAfterZ
  <2> QED BY <2>5, <2>6
<1> QED BY <1>1, <1>2, <1>3, <1>4, <1>5, LateLocked

\* The new row takes the next number, and a return comes after its sale.
LEMMA LateAppend ==
  ASSUME LateInvariant, op.pc = "write", NEW st \in {"Sending", "Draft"}, Append(st),
         UNCHANGED <<dps, late>>
  PROVE  Numbered' /\ Consumed' /\ LedgerType' /\ used' = used + 1 /\ ledger'[used + 1].status = st
<1> DEFINE new == used + 1
<1> USE Bounds DEF TypeOK, LedgerType, ServerType, Receipts, LateInvariant
<1>1. /\ new \in Receipts /\ used' = new /\ next' = next + 1 /\ next \in Nat \ {0}
      /\ 1 .. used \subseteq Receipts
      /\ new \notin 1 .. used /\ 1 .. used \subseteq 1 .. new
      /\ \A q \in 1 .. new : q = new \/ q \in 1 .. used
  BY DEF Append, Worker
<1>2. /\ NewRow(st) \in Row /\ NewRow(st).status = st /\ NewRow(st).num = next
      /\ NewRow(st).key = op.key /\ NewRow(st).kind = op.kind
  BY DEF NewRow, Row, Statuses, Unsettled, Worker, WorkerType, Operation, ShiftType
<1>3. /\ ledger' \in [Receipts -> Row] /\ ledger'[new] = NewRow(st)
      /\ \A q \in Receipts : q # new => ledger'[q] = ledger[q]
  BY <1>1, <1>2 DEF Append
<1>4. \A q \in 1 .. used : ledger'[q] = ledger[q] /\ ledger[q].num \in Nat
  BY <1>1, <1>3 DEF Row
<1>5. Rows'
  BY <1>1, <1>2, <1>3 DEF Rows
<1>6. LiveNumbers'
  <2>1. \A q \in 1 .. used : Live(q)' = Live(q)
    BY <1>4 DEF Live
  <2>2. \A q \in 1 .. used : Live(q) => ledger[q].num < next
    BY DEF LiveNumbers
  <2>3. /\ \A q \in 1 .. used : Live(q)' => ledger'[q].num < next
        /\ \A p, q \in 1 .. used : Live(p)' /\ Live(q)' /\ ledger'[p].num = ledger'[q].num => p = q
    BY <2>1, <2>2, <1>4 DEF LiveNumbers
  <2>4. ledger'[new].num = next
    BY <1>2, <1>3
  <2>5. ASSUME NEW p \in 1 .. new, NEW q \in 1 .. new, Live(p)', Live(q)', ledger'[p].num = ledger'[q].num
        PROVE  p = q
    <3>1. \A o \in 1 .. used : Live(o)' => ledger'[o].num # next
      <4> SUFFICES ASSUME NEW o \in 1 .. used, Live(o)' PROVE ledger'[o].num # next
        OBVIOUS
      <4>1. ledger'[o].num < next /\ ledger'[o].num \in Nat
        BY <2>3, <1>4
      <4> QED BY <4>1, <1>1
    <3>2. CASE p \in 1 .. used /\ q \in 1 .. used
      BY <2>3, <2>5, <3>2
    <3>3. CASE p = new /\ q \in 1 .. used
      BY <2>4, <2>5, <3>1, <3>3
    <3>4. CASE p \in 1 .. used /\ q = new
      BY <2>4, <2>5, <3>1, <3>4
    <3> QED BY <1>1, <3>2, <3>3, <3>4
  <2>6. ASSUME NEW q \in 1 .. new, Live(q)' PROVE ledger'[q].num < next'
    BY <1>1, <1>4, <2>3, <2>4, <2>6
  <2> QED BY <1>1, <2>5, <2>6 DEF LiveNumbers
<1>7. Returned'
  <2>1. ASSUME NEW k, NEW n, SaleBefore(k, n) PROVE SaleBefore(k, n)'
    BY <1>1, <1>4, <2>1 DEF SaleBefore
  <2>2. ASSUME NEW r \in 1 .. new, ledger'[r].kind = "Return"
        PROVE  \E q \in 1 .. new : /\ ledger'[q].key = OriginalOf[ledger'[r].key]
                                   /\ ledger'[q].status = "Fiscalized" /\ ledger'[q].num < ledger'[r].num
    <3>1. CASE r \in 1 .. used
      <4>1. SaleBefore(ledger[r].key, ledger[r].num)
        BY <3>1, <2>2, <1>4 DEF Returned
      <4> QED BY <3>1, <4>1, <1>1, <1>4 DEF SaleBefore
    <3>2. CASE r = new
      <4>1. SaleBefore(op.key, next)
        BY <3>2, <2>2, <1>2, <1>3 DEF Worker
      <4> QED BY <3>2, <4>1, <1>1, <1>2, <1>3, <1>4 DEF SaleBefore
    <3> QED BY <1>1, <3>1, <3>2
  <2> QED BY <1>1, <2>2 DEF Returned, SaleBefore
<1>8. Consumed'
  <2>1. dps.docs \subseteq 1 .. used /\ late \subseteq 1 .. used
    BY DEF Consumed
  <2>2. \A r \in 1 .. new : ledger'[r].status = "Fiscalized" => r \in 1 .. used
    BY <1>1, <1>2, <1>3
  <2>3. ASSUME NEW r \in 1 .. new, ledger'[r].status = "Fiscalized"
        PROVE  \E q \in dps.docs : ledger'[q].num = ledger'[r].num
    <3>1. PICK q \in dps.docs : ledger[q].num = ledger[r].num
      BY <2>2, <2>3, <1>4 DEF Consumed, Holds
    <3> QED BY <2>1, <2>2, <2>3, <3>1, <1>4
  <2> QED BY <1>1, <2>1, <2>3 DEF Consumed, Holds
<1> QED BY <1>1, <1>2, <1>3, <1>5, <1>6, <1>7, <1>8 DEF Numbered

\* Settling a live row: confirmed only under a number that DPS holds.
LEMMA LateSettle ==
  ASSUME TypeOK, Numbered, Consumed, NEW r \in 1 .. used, Live(r),
         ledger[r].status # "Fiscalized",
         NEW st \in {"Sending", "Uncertain", "Error", "Fiscalized"}, NEW state \in States,
         st = "Fiscalized" => Holds(ledger[r].num),
         Settle(r, st, state), UNCHANGED <<next, used, dps>>, late' \subseteq 1 .. used
  PROVE  Numbered' /\ Consumed' /\ LedgerType' /\ ledger'[r].status = st
<1>1. r \in Receipts /\ 1 .. used \subseteq Receipts /\ \A q \in Receipts : q > used => q # r
  BY Bounds DEF TypeOK, LedgerType, Receipts
<1>2. /\ ledger' \in [Receipts -> Row] /\ ledger'[r].status = st
      /\ \A q \in Receipts : /\ ledger'[q].num = ledger[q].num /\ ledger'[q].key = ledger[q].key
                             /\ ledger'[q].kind = ledger[q].kind
                             /\ q # r => ledger'[q] = ledger[q]
  BY <1>1, SettleRow DEF Statuses, Unsettled
<1>3. \A q \in 1 .. used : Live(q)' = Live(q)
  BY <1>1, <1>2 DEF Live
<1>4. Rows' /\ LiveNumbers'
  BY <1>1, <1>2, <1>3 DEF Numbered, Rows, LiveNumbers
<1>5. Returned'
  <2>1. ASSUME NEW q \in 1 .. used, ledger'[q].kind = "Return"
        PROVE  \E o \in 1 .. used : /\ ledger'[o].key = OriginalOf[ledger'[q].key]
                                    /\ ledger'[o].status = "Fiscalized" /\ ledger'[o].num < ledger'[q].num
    <3>1. PICK o \in 1 .. used : /\ ledger[o].key = OriginalOf[ledger[q].key]
                                 /\ ledger[o].status = "Fiscalized" /\ ledger[o].num < ledger[q].num
      BY <1>1, <1>2, <2>1 DEF Numbered, Returned, SaleBefore
    <3> QED BY <1>1, <1>2, <3>1
  <2> QED BY <2>1 DEF Returned, SaleBefore
<1>6. Consumed'
  <2>1. \A n : Holds(n)' = Holds(n)
    BY <1>1, <1>2 DEF Holds, Consumed
  <2>2. \A q \in 1 .. used : ledger'[q].status = "Fiscalized" => \E d \in dps.docs : ledger'[d].num = ledger'[q].num
    BY <1>1, <1>2 DEF Consumed, Holds
  <2> QED BY <2>2 DEF Consumed, Holds
<1> QED BY <1>2, <1>4, <1>5, <1>6 DEF Numbered, LedgerType, TypeOK

\* Giving back the number of a document that never counted.
LEMMA LateRelease ==
  ASSUME TypeOK, Numbered, Consumed, NEW r \in 1 .. used, Release(r), UNCHANGED <<used, dps, late>>
  PROVE  Numbered' /\ Consumed' /\ LedgerType'
<1>1. /\ r \in Receipts /\ 1 .. used \subseteq Receipts /\ ledger[r].status = "Error"
      /\ next = ledger[r].num + 1 /\ next' = ledger[r].num
      /\ Settle(r, "Cancelled", ledger[r].state) /\ ledger[r].state \in States
      /\ \A q \in Receipts : ledger[q].num \in Nat /\ (q > used => q # r)
  BY Bounds DEF Release, Releasable, TypeOK, LedgerType, Receipts, Row, States
<1>2. /\ ledger' \in [Receipts -> Row] /\ ledger'[r].status = "Cancelled"
      /\ \A q \in Receipts : /\ ledger'[q].num = ledger[q].num /\ ledger'[q].key = ledger[q].key
                             /\ ledger'[q].kind = ledger[q].kind
                             /\ q # r => ledger'[q] = ledger[q]
  BY <1>1, SettleRow DEF Statuses
<1>3. Rows' /\ next' \in Nat \ {0}
  BY <1>1, <1>2 DEF Numbered, Rows
<1>4. /\ ~Live(r)' /\ Live(r)
      /\ \A q \in 1 .. used : q # r => Live(q)' = Live(q)
  BY <1>1, <1>2 DEF Live
<1>5. LiveNumbers'
  <2>1. \A q \in 1 .. used : q # r /\ Live(q) => ledger[q].num < ledger[r].num
    BY <1>1, <1>4 DEF Numbered, LiveNumbers
  <2> QED BY <2>1, <1>1, <1>2, <1>4 DEF Numbered, LiveNumbers
<1>6. Returned'
  <2>1. ASSUME NEW q \in 1 .. used, ledger'[q].kind = "Return"
        PROVE  \E o \in 1 .. used : /\ ledger'[o].key = OriginalOf[ledger'[q].key]
                                    /\ ledger'[o].status = "Fiscalized" /\ ledger'[o].num < ledger'[q].num
    <3>1. PICK o \in 1 .. used : /\ ledger[o].key = OriginalOf[ledger[q].key]
                                 /\ ledger[o].status = "Fiscalized" /\ ledger[o].num < ledger[q].num
      BY <1>1, <1>2, <2>1 DEF Numbered, Returned, SaleBefore
    <3> QED BY <1>1, <1>2, <3>1
  <2> QED BY <2>1 DEF Returned, SaleBefore
<1>7. Consumed'
  <2>1. \A q \in 1 .. used : ledger'[q].status = "Fiscalized" => \E d \in dps.docs : ledger'[d].num = ledger'[q].num
    BY <1>1, <1>2 DEF Consumed, Holds
  <2> QED BY <2>1 DEF Consumed, Holds
<1> QED BY <1>2, <1>3, <1>5, <1>6, <1>7 DEF Numbered, LedgerType, TypeOK

LEMMA WriteLate ==
  ASSUME LateInvariant, WriteDocument \/ SignerFails
  PROVE  LateInvariant'
<1> USE Bounds
<1>1. /\ op.pc = "write" /\ UNCHANGED <<current, runtime, sync, dps, late>>
      /\ TypeOK /\ op \in Operation /\ faults' \in 0 .. MaxFaults /\ used \in Nat
      /\ SyncType' /\ ServerType'
  BY DEF WriteDocument, SignerFails, Fault, server, LateInvariant, TypeOK, LedgerType, WorkerType, SyncType, ServerType
<1>2. HandlerType'
  BY <1>1, CaughtType DEF WriteDocument, SignerFails, TypeOK, WorkerType, HandlerType
<1>3. ShiftType'
  <2>1. ASSUME NEW st \in {"Opening", "Error"}, op.kind = "Open", NewShift(st) PROVE ShiftType'
    BY <1>1, <2>1, NewShiftType DEF LateInvariant, Worker
  <2>2. CASE UNCHANGED made /\ (shift' = [shift EXCEPT ![current] = "Closing"] \/ UNCHANGED shift)
    BY <1>1, <2>2 DEF TypeOK, ShiftType
  <2> QED BY <2>1, <2>2 DEF WriteDocument, SignerFails
<1>4. CASE WriteDocument
  <2>1. /\ Numbered' /\ Consumed' /\ LedgerType' /\ used' = used + 1 /\ ledger'[used + 1].status = "Sending"
        /\ op' = [op EXCEPT !.pc = "wait", !.rid = used + 1, !.reply = "sent"]
    BY <1>1, <1>4, LateAppend DEF WriteDocument
  <2>2. used + 1 \in 0 .. MaxReceipts
    BY <1>1 DEF LateInvariant, Worker
  <2>3. op' \in Operation /\ op'.pc = "wait" /\ op'.rid = used + 1 /\ op'.reply = "sent"
    <3>1. \A n \in 0 .. MaxReceipts :
             LET new == [op EXCEPT !.pc = "wait", !.rid = n, !.reply = "sent"]
             IN  new \in Operation /\ new.pc = "wait" /\ new.rid = n /\ new.reply = "sent"
      BY <1>1 DEF Operation
    <3> QED BY <2>1, <2>2, <3>1
  <2>4. Worker'
    BY <1>1, <2>1, <2>3 DEF Worker
  <2> QED BY <1>1, <1>2, <1>3, <2>1, <2>3, <2>4 DEF LateInvariant, Numbered, TypeOK, WorkerType, HandlerType
<1>5. CASE SignerFails
  <2>1. op' = Idle /\ op' \in Operation /\ Worker'
    BY <1>5, IdleOp, WorkerEnds DEF SignerFails
  <2>2. Numbered' /\ Consumed' /\ LedgerType'
    <3>1. CASE Append("Draft")
      BY <1>1, <3>1, LateAppend
    <3>2. CASE UNCHANGED <<ledger, used, next>>
      BY <1>1, <3>2, LateSame DEF LateInvariant, Numbered, TypeOK, LedgerType
    <3> QED BY <1>5, <3>1, <3>2 DEF SignerFails
  <2> QED BY <1>1, <1>2, <1>3, <2>1, <2>2 DEF LateInvariant, Numbered, TypeOK, WorkerType, HandlerType
<1> QED BY <1>4, <1>5

LEMMA AnswerLate ==
  ASSUME LateInvariant, Ticket \/ Rejection \/ HttpRefusal \/ NoUsableAnswer
  PROVE  LateInvariant'
<1> USE Bounds
<1>1. /\ op.pc = "wait" /\ UNCHANGED <<next, used, made, current, runtime, sync, dps>>
      /\ TypeOK /\ op \in Operation /\ faults' \in 0 .. MaxFaults
      /\ op.rid \in 1 .. used /\ op.rid \in 0 .. MaxReceipts /\ ledger[op.rid].status = "Sending"
      /\ op.via \in Vias
  BY DEF Ticket, Rejection, HttpRefusal, NoUsableAnswer, Raise, Fault, server, LateInvariant,
         TypeOK, LedgerType, WorkerType, Worker, Operation, Vias
<1>2. late' \subseteq 1 .. used
  BY <1>1 DEF Ticket, Rejection, HttpRefusal, NoUsableAnswer, server, LateInvariant, Consumed
<1>3. Numbered' /\ Consumed' /\ LedgerType' /\ (Ticket => ledger'[op.rid].status = "Fiscalized")
  <2>1. Live(op.rid)
    BY <1>1 DEF Live
  <2>2. ASSUME Ticket PROVE Holds(ledger[op.rid].num)
    BY <1>1, <2>2 DEF Ticket, LateInvariant, Worker, Holds
  <2>3. \E st \in {"Sending", "Uncertain", "Error", "Fiscalized"}, state \in States :
           /\ Settle(op.rid, st, state) /\ (st = "Fiscalized" => Ticket)
    BY DEF Ticket, Rejection, HttpRefusal, NoUsableAnswer, States
  <2>4. Numbered' /\ Consumed' /\ LedgerType'
    BY <1>1, <1>2, <2>1, <2>2, <2>3, LateSettle DEF LateInvariant, Numbered
  <2>5. ASSUME Ticket PROVE ledger'[op.rid].status = "Fiscalized"
    BY <1>1, <1>2, <2>1, <2>2, <2>5, LateSettle DEF Ticket, States, LateInvariant, Numbered
  <2> QED BY <2>4, <2>5
<1>4. HandlerType' /\ ShiftType' /\ SyncType' /\ ServerType'
  <2>1. HandlerType'
    BY <1>1, CaughtType DEF Ticket, Rejection, HttpRefusal, NoUsableAnswer, Raise, TypeOK, WorkerType, HandlerType
  <2>2. ShiftType'
    BY <1>1 DEF Ticket, Rejection, HttpRefusal, NoUsableAnswer, Raise, TypeOK, ShiftType
  <2>3. SyncType' /\ ServerType'
    BY <1>1, <1>2 DEF TypeOK, LedgerType, SyncType, ServerType, Receipts
  <2> QED BY <2>1, <2>2, <2>3
<1>5. op' \in Operation /\ Worker'
  <2>1. CASE op' = Idle
    BY <2>1, IdleOp, WorkerEnds
  <2>2. CASE ToFinalize(op.rid, op.via)
    <3>1. op' \in Operation /\ op'.pc = "finalize" /\ op'.rid = op.rid /\ op'.reply = "none"
      BY <1>1, <2>2, FinalizeOp
    <3> QED BY <1>1, <3>1 DEF Worker
  <2> QED BY <2>1, <2>2 DEF Ticket, Rejection, HttpRefusal, NoUsableAnswer, Raise
<1> QED BY <1>1, <1>3, <1>4, <1>5 DEF LateInvariant, Numbered, TypeOK, WorkerType, HandlerType

LEMMA FinalizeLate ==
  ASSUME LateInvariant, Finalize
  PROVE  LateInvariant'
<1>1. /\ op.pc = "finalize" /\ UNCHANGED <<next, ledger, used, made, sync, dps, late, faults>>
      /\ TypeOK /\ op \in Operation /\ op.rid \in 1 .. used /\ op.rid \in Receipts
  BY Bounds DEF Finalize, server, LateInvariant, Worker, TypeOK, WorkerType, LedgerType, Receipts
<1>2. ledger[op.rid].shift \in 0 .. MaxShifts
  BY <1>1 DEF TypeOK, LedgerType, Row
<1>3. ShiftType'
  BY <1>1, <1>2, Bounds DEF Finalize, FinalizeOpen, FinalizeZ, FinalizeClose, TypeOK, ShiftType
<1>4. HandlerType'
  BY <1>1, CaughtType DEF Finalize, FinalizeOpen, FinalizeZ, FinalizeClose, TypeOK, WorkerType, HandlerType
<1>5. op' \in Operation /\ Worker'
  <2>1. CASE op' = Idle
    BY <2>1, IdleOp, WorkerEnds
  <2>2. CASE op' = [op EXCEPT !.pc = "z_done"]
    <3>1. op' \in Operation /\ op'.pc = "z_done" /\ op'.rid = op.rid /\ op'.reply = op.reply
      BY <1>1, <2>2 DEF Operation
    <3> QED BY <1>1, <3>1 DEF Worker, LateInvariant
  <2> QED BY <2>1, <2>2 DEF Finalize, FinalizeOpen, FinalizeZ, FinalizeClose
<1>6. Numbered' /\ Consumed'
  BY <1>1, LateSame DEF LateInvariant, Numbered
<1> QED BY <1>1, <1>3, <1>4, <1>5, <1>6 DEF LateInvariant, Numbered, TypeOK, LedgerType, WorkerType,
           HandlerType, SyncType, ServerType

LEMMA ReconcileLate ==
  ASSUME LateInvariant, NEW r \in 1 .. used, Reconcile(r), HandlerType'
  PROVE  LateInvariant'
<1> USE Bounds
<1>1. /\ Free /\ UNCHANGED <<used, shift, made, current, sync, dps, late, faults>>
      /\ TypeOK /\ op \in Operation /\ r \in 0 .. MaxReceipts /\ late \subseteq 1 .. used
      /\ SyncType' /\ ServerType'
  BY DEF Reconcile, server, LateInvariant, Consumed, TypeOK, LedgerType, WorkerType, SyncType, ServerType
<1>2. Numbered' /\ Consumed' /\ LedgerType' /\ ShiftType'
  <2>1. CASE Confirm(r) /\ UNCHANGED ledger
    BY <1>1, <2>1, LateSame DEF Confirm, LateInvariant, Numbered, TypeOK, LedgerType, ShiftType
  <2>2. CASE /\ Confirm(r) /\ ledger[r].status \in {"Sending", "Uncertain", "Error"}
             /\ Holds(ledger[r].num) /\ Settle(r, "Fiscalized", "Confirmed")
    <3>1. Live(r) /\ UNCHANGED <<next, runtime>>
      BY <2>2 DEF Live, Confirm
    <3>2. Numbered' /\ Consumed' /\ LedgerType'
      BY <1>1, <2>2, <3>1, LateSettle DEF States, LateInvariant, Numbered
    <3> QED BY <1>1, <3>1, <3>2 DEF TypeOK, ShiftType
  <2>3. CASE Release(r)
    <3>1. Numbered' /\ Consumed' /\ LedgerType'
      BY <1>1, <2>3, LateRelease DEF LateInvariant, Numbered
    <3> QED BY <1>1, <2>3, <3>1 DEF Release, TypeOK, ShiftType
  <2> QED BY <2>1, <2>2, <2>3 DEF Reconcile, Confirm
<1>3. op' \in Operation /\ Worker'
  <2>1. CASE ToFinalize(r, "reconcile")
    <3>1. op' \in Operation /\ op'.pc = "finalize" /\ op'.rid = r /\ op'.reply = "none"
      BY <1>1, <2>1, FinalizeOp DEF Vias
    <3> QED BY <1>1, <3>1 DEF Worker
  <2>2. CASE UNCHANGED op
    BY <1>1, <2>2, WorkerStill
  <2> QED BY <2>1, <2>2 DEF Reconcile, Confirm, Release
<1> QED BY <1>1, <1>2, <1>3 DEF LateInvariant, Numbered, TypeOK, WorkerType, HandlerType

LEMMA ResumeLate ==
  ASSUME LateInvariant, NEW r \in Receipts, Resume(r)
  PROVE  LateInvariant'
<1> USE Bounds
<1>1. /\ Free /\ r \in 1 .. used /\ ledger[r].status \in Unsettled /\ ledger[r].status # "Error"
      /\ UNCHANGED <<next, used, shift, made, current, handler, sync, dps, late, faults>>
      /\ TypeOK /\ op \in Operation /\ r \in 0 .. MaxReceipts /\ late \subseteq 1 .. used
  BY DEF Resume, Unresolved, server, LateInvariant, Consumed, TypeOK, LedgerType, WorkerType
<1>2. SyncType' /\ ServerType' /\ HandlerType'
  BY <1>1 DEF TypeOK, SyncType, ServerType, WorkerType, HandlerType
<1>3. CASE /\ Settle(r, "Sending", "NotSent") /\ UNCHANGED runtime
           /\ op' = [Idle EXCEPT !.pc = "wait", !.rid = r, !.reply = "sent", !.via = "resume"]
  <2>1. Numbered' /\ Consumed' /\ LedgerType' /\ ledger'[r].status = "Sending"
    <3>1. Live(r) /\ ledger[r].status # "Fiscalized"
      BY <1>1 DEF Live, Unsettled
    <3> QED BY <1>1, <1>3, <3>1, LateSettle DEF States, LateInvariant, Numbered
  <2>2. op' \in Operation /\ op'.pc = "wait" /\ op'.rid = r /\ op'.reply = "sent"
    BY <1>1, <1>3, IdleOp DEF Operation
  <2>3. Worker'
    BY <1>1, <2>1, <2>2 DEF Worker
  <2> QED BY <1>1, <1>2, <1>3, <2>1, <2>2, <2>3 DEF LateInvariant, Numbered, TypeOK, ShiftType, WorkerType, HandlerType
<1>4. CASE runtime' = "Blocked" /\ UNCHANGED <<ledger, op>>
  <2>1. Worker'
    BY <1>1, <1>4, WorkerStill
  <2>2. ShiftType' /\ next' \in Nat \ {0} /\ faults' \in 0 .. MaxFaults
    BY <1>1, <1>4 DEF TypeOK, LedgerType, ShiftType
  <2> QED BY <1>1, <1>2, <1>4, <2>1, <2>2, LateLocked
<1> QED BY <1>3, <1>4 DEF Resume

\* A request that DPS takes, now or late, keeps every number it holds.
LEMMA TakeLate ==
  ASSUME TypeOK, Numbered, Consumed, NEW r \in 1 .. used, Take(r),
         UNCHANGED <<next, ledger, used>>, late' \subseteq late
  PROVE  Numbered' /\ Consumed' /\ ServerType' /\ dps.docs \subseteq dps'.docs /\ r \in dps'.docs
<1>1. dps'.docs = dps.docs \cup {r} /\ r \in Receipts
  BY Bounds DEF Take, TypeOK, LedgerType, Receipts
<1>2. ServerType'
  BY <1>1 DEF Take, TypeOK, ServerType
<1>3. Numbered'
  BY DEF Numbered, Rows, LiveNumbers, Returned, SaleBefore, Live
<1>4. Consumed'
  BY <1>1 DEF Consumed, Holds
<1> QED BY <1>1, <1>2, <1>3, <1>4

LEMMA ServerLate ==
  ASSUME LateInvariant, ServerAccepts \/ ServerRejects \/ RequestLost
  PROVE  LateInvariant'
<1> USE Bounds
<1>1. /\ op.pc = "wait" /\ op.reply = "sent" /\ TypeOK /\ op \in Operation
      /\ op.rid \in 1 .. used /\ ledger[op.rid].status = "Sending"
      /\ UNCHANGED <<next, ledger, used, shift, made, current, runtime, handler, sync, late>>
      /\ faults' \in 0 .. MaxFaults
  BY DEF ServerAccepts, ServerRejects, RequestLost, local, server, Fault, LateInvariant, Worker, TypeOK, WorkerType
<1>2. LedgerType' /\ ShiftType' /\ SyncType' /\ HandlerType'
  BY <1>1 DEF TypeOK, LedgerType, ShiftType, SyncType, WorkerType, HandlerType
<1>3. CASE Take(op.rid) /\ op' = [op EXCEPT !.reply = "accepted"]
  <2>1. Numbered' /\ Consumed' /\ ServerType' /\ op.rid \in dps'.docs
    BY <1>1, <1>3, TakeLate DEF LateInvariant, Numbered
  <2>2. op' \in Operation /\ op'.pc = "wait" /\ op'.reply = "accepted" /\ op'.rid = op.rid
    BY <1>1, <1>3 DEF Operation
  <2>3. Worker'
    BY <1>1, <2>1, <2>2 DEF Worker
  <2> QED BY <1>1, <1>2, <2>1, <2>2, <2>3 DEF LateInvariant, Numbered, TypeOK, WorkerType, HandlerType
<1>4. CASE /\ UNCHANGED dps
           /\ op' = [op EXCEPT !.reply = "rejected"] \/ op' = [op EXCEPT !.reply = "lost"]
  <2>1. op' \in Operation /\ op'.pc = "wait" /\ op'.reply \in {"rejected", "lost"} /\ op'.rid = op.rid
    BY <1>1, <1>4 DEF Operation
  <2>2. Worker'
    BY <1>1, <2>1 DEF Worker
  <2>3. next' \in Nat \ {0}
    BY <1>1 DEF TypeOK, LedgerType
  <2> QED BY <1>1, <1>2, <1>4, <2>1, <2>2, <2>3, LateLocked
<1> QED BY <1>3, <1>4 DEF ServerAccepts, ServerRejects, RequestLost, server

LEMMA ArrivalLate ==
  ASSUME LateInvariant, NEW r \in late, LateArrival(r)
  PROVE  LateInvariant'
<1>1. /\ UNCHANGED <<next, ledger, used, shift, made, current, runtime, op, handler, sync, faults>>
      /\ TypeOK /\ r \in 1 .. used /\ late' \subseteq late /\ late' \subseteq Receipts
  BY DEF LateArrival, local, LateInvariant, Consumed, TypeOK, ServerType
<1>2. Numbered' /\ Consumed' /\ ServerType' /\ dps.docs \subseteq dps'.docs
  <2>1. CASE Take(r)
    BY <1>1, <2>1, TakeLate DEF LateInvariant, Numbered
  <2>2. CASE UNCHANGED dps
    BY <1>1, <2>2 DEF LateInvariant, Numbered, Rows, LiveNumbers, Returned, SaleBefore, Live,
                      Consumed, Holds, TypeOK, ServerType
  <2> QED BY <2>1, <2>2 DEF LateArrival
<1>3. Worker'
  BY <1>1, <1>2 DEF LateInvariant, Worker, SaleBefore
<1> QED BY <1>1, <1>2, <1>3 DEF LateInvariant, Numbered, TypeOK, LedgerType, ShiftType, WorkerType, SyncType

LEMMA SyncLate ==
  ASSUME ~FreshSync, LateInvariant, SyncLoad \/ SyncQuery \/ SyncApply
  PROVE  LateInvariant'
<1>1. UNCHANGED <<next, ledger, used, shift, made, current, op, handler, dps, late, faults>>
  BY DEF SyncLoad, SyncQuery, SyncApply, local, rows, server, LateInvariant
<1>2. ShiftType'
  BY <1>1 DEF SyncLoad, SyncQuery, SyncApply, local, LateInvariant, TypeOK, ShiftType
<1>3. SyncType' /\ Steady'
  <2>1. CASE SyncLoad
    BY <2>1 DEF SyncLoad, Fresh, LateInvariant, TypeOK, LedgerType, ShiftType, SyncType, Steady
  <2>2. CASE SyncQuery
    BY <2>2 DEF SyncQuery, LateInvariant, TypeOK, ServerType, SyncType, Steady
  <2>3. CASE SyncApply
    BY <2>3 DEF SyncApply, NoSync, SyncType, Steady
  <2> QED BY <2>1, <2>2, <2>3
<1>4. Numbered' /\ Consumed' /\ Worker'
  BY <1>1, LateSame DEF LateInvariant, Numbered, Worker, SaleBefore
<1> QED BY <1>1, <1>2, <1>3, <1>4 DEF LateInvariant, Numbered, Steady, TypeOK, LedgerType, WorkerType, ServerType

LEMMA RestLate ==
  ASSUME LateInvariant, Crash \/ (\E s \in Shifts : RepairClosing(s)) \/ UNCHANGED vars
  PROVE  LateInvariant'
<1>1. /\ UNCHANGED <<next, ledger, used, made, sync, dps>> /\ TypeOK
      /\ late' \subseteq 1 .. used /\ faults' \in 0 .. MaxFaults
  <2>1. /\ TypeOK /\ faults \in 0 .. MaxFaults /\ late \subseteq 1 .. used /\ op \in Operation
        /\ op.pc = "wait" => op.rid \in 1 .. used
    BY DEF LateInvariant, Consumed, Worker, TypeOK, WorkerType
  <2>2. CASE Crash
    <3>1. op.reply = "sent" => op.pc = "wait"
      BY DEF LateInvariant, Worker
    <3>2. late' \subseteq 1 .. used
      BY <2>1, <2>2, <3>1 DEF Crash
    <3>3. faults' \in 0 .. MaxFaults /\ UNCHANGED <<next, ledger, used, made, sync, dps>>
      BY <2>1, <2>2, Bounds DEF Crash, Fault, local
    <3> QED BY <2>1, <3>2, <3>3
  <2>3. CASE (\E s \in Shifts : RepairClosing(s)) \/ UNCHANGED vars
    BY <2>1, <2>3 DEF RepairClosing, vars, local, server
  <2> QED BY <2>2, <2>3
<1>2. ShiftType'
  BY <1>1, Bounds DEF Crash, RepairClosing, vars, local, TypeOK, ShiftType
<1>3. WorkerType' /\ Worker'
  <2>1. CASE op' = Idle /\ handler' = NoHandler
    BY <2>1, IdleOp, WorkerEnds DEF WorkerType
  <2>2. CASE UNCHANGED <<op, handler>>
    BY <1>1, <2>2 DEF TypeOK, WorkerType, LateInvariant, Worker, SaleBefore
  <2> QED BY <2>1, <2>2 DEF Crash, RepairClosing, vars
<1>4. Numbered' /\ Consumed'
  BY <1>1 DEF LateInvariant, Numbered, Rows, LiveNumbers, Returned, SaleBefore, Live, Consumed, Holds
<1>5. ServerType'
  BY <1>1, Bounds DEF TypeOK, ServerType, LedgerType, Receipts
<1> QED BY <1>1, <1>2, <1>3, <1>4, <1>5 DEF LateInvariant, Numbered, TypeOK, LedgerType, SyncType

LEMMA LateStep ==
  ASSUME ~FreshSync
  PROVE  LateInvariant /\ [Next]_vars => LateInvariant'
<1> SUFFICES ASSUME LateInvariant, [Next]_vars PROVE LateInvariant'
  OBVIOUS
<1>1. ASSUME NEW via \in Entry \cap {"fiscal_open_shift", "open_shift"}, OpenShift(via)
      PROVE  LateInvariant'
  BY <1>1, OpenLate
<1>2. ASSUME NEW k \in Keys, Fiscalize(k) PROVE LateInvariant'
  BY <1>2, FiscalizeLate
<1>3. CASE CloseShift \/ CloseAfterZ
  BY <1>3, CloseLate
<1>4. CASE Exchange
  BY <1>4, WriteLate, AnswerLate, ServerLate DEF Exchange
<1>5. CASE Finalize
  BY <1>5, FinalizeLate
<1>6. ASSUME NEW r \in Receipts, AutoReconcile(r) \/ DeskReconcile(r) PROVE LateInvariant'
  <2>1. r \in 1 .. used /\ Reconcile(r) /\ UNCHANGED handler
    BY <1>6, Bounds DEF AutoReconcile, DeskReconcile, Unresolved, Receipts, LateInvariant, TypeOK, LedgerType
  <2>2. HandlerType'
    BY <2>1 DEF HandlerType, LateInvariant, TypeOK, WorkerType
  <2> QED BY <2>1, <2>2, ReconcileLate
<1>7. CASE HandlerReconciles
  <2>1. HandlerType' /\ Free
    BY <1>7, IdleOp DEF HandlerReconciles, HandlerType
  <2>2. ASSUME NEW r \in Suspects, Reconcile(r) PROVE LateInvariant'
    <3>1. r \in 1 .. used
      BY DEF Suspects
    <3> QED BY <2>1, <2>2, <3>1, ReconcileLate
  <2>3. ASSUME UNCHANGED <<local, op, sync, server, faults>> PROVE LateInvariant'
    <3>1. UNCHANGED <<next, ledger, used, shift, made, current, runtime, op, sync, dps, late, faults>>
      BY <2>3 DEF local, server
    <3>2. Worker' /\ next' \in Nat \ {0} /\ ShiftType' /\ faults' \in 0 .. MaxFaults /\ op' \in Operation
      BY <2>1, <3>1, WorkerStill DEF LateInvariant, TypeOK, LedgerType, ShiftType, WorkerType
    <3> QED BY <2>1, <3>1, <3>2, LateLocked
  <2> QED BY <1>7, <2>2, <2>3 DEF HandlerReconciles
<1>8. ASSUME NEW r \in Receipts, Resume(r) PROVE LateInvariant'
  BY <1>8, ResumeLate
<1>9. CASE SyncLoad \/ SyncQuery \/ SyncApply
  BY <1>9, SyncLate
<1>10. ASSUME NEW r \in late, LateArrival(r) PROVE LateInvariant'
  BY <1>10, ArrivalLate
<1>11. CASE Crash \/ (\E s \in Shifts : RepairClosing(s)) \/ UNCHANGED vars
  BY <1>11, RestLate
<1> QED BY <1>1, <1>2, <1>3, <1>4, <1>5, <1>6, <1>7, <1>8, <1>9, <1>10, <1>11 DEF Next

LEMMA InitLate == Init => LateInvariant
<1> SUFFICES ASSUME Init PROVE LateInvariant
  OBVIOUS
<1>1. TypeOK
  BY InitInv DEF RegisterInvariant
<1>2. used = 0 /\ op = Idle /\ dps.docs = {} /\ late = {} /\ sync = NoSync /\ 1 .. used = {}
  BY DEF Init
<1>3. Rows /\ LiveNumbers /\ Returned /\ Consumed
  BY <1>2 DEF Init, Rows, LiveNumbers, Returned, Consumed
<1> QED BY <1>1, <1>2, <1>3 DEF LateInvariant, Worker, NoSync, Idle

\* What late requests leave standing is an invariant.
THEOREM LateIsSound ==
  ASSUME ~FreshSync
  PROVE  Spec => []LateInvariant
<1>1. LateInvariant /\ [Next]_vars => LateInvariant'
  BY LateStep
<1> QED BY <1>1, InitLate, PTL DEF Spec

\* Even with late requests DPS holds some document under the number of every Fiscalized
\* row, and no two live rows share a number.
THEOREM NumbersStayConsumed ==
  ASSUME ~FreshSync
  PROVE  Spec => []NumbersAreConsumed
<1>1. LateInvariant => NumbersAreConsumed
  <2> SUFFICES ASSUME LateInvariant PROVE NumbersAreConsumed
    OBVIOUS
  <2>1. ASSUME NEW r \in Receipts, ledger[r].status = "Fiscalized" PROVE r \in 1 .. used
    <3>1. r \in Nat /\ r >= 1 /\ used \in Nat
      BY Bounds DEF Receipts, LateInvariant, TypeOK, LedgerType
    <3>2. ~(r > used)
      BY <2>1 DEF LateInvariant, Rows, NoReceipt
    <3> QED BY <3>1, <3>2
  <2> QED BY <2>1 DEF LateInvariant, Consumed, LiveNumbers, NumbersAreConsumed
<1> QED BY <1>1, LateIsSound, PTL

\* Even with late requests no return reaches DPS before its sale.
THEOREM ReturnsFollowSales ==
  ASSUME ~FreshSync
  PROVE  Spec => []ReturnAfterSale
<1>1. LateInvariant => ReturnAfterSale
  <2> SUFFICES ASSUME LateInvariant, NEW r \in dps.docs, ledger[r].kind = "Return"
               PROVE  \E q \in Receipts : /\ ledger[q].key = OriginalOf[ledger[r].key]
                                          /\ ledger[q].status = "Fiscalized"
                                          /\ Holds(ledger[q].num) /\ ledger[q].num < ledger[r].num
    BY DEF ReturnAfterSale
  <2>1. PICK q \in 1 .. used : /\ ledger[q].key = OriginalOf[ledger[r].key]
                               /\ ledger[q].status = "Fiscalized" /\ ledger[q].num < ledger[r].num
    BY DEF LateInvariant, Consumed, Returned, SaleBefore
  <2>2. q \in Receipts /\ Holds(ledger[q].num)
    BY <2>1, Bounds DEF LateInvariant, Consumed, TypeOK, LedgerType, Receipts
  <2> QED BY <2>1, <2>2
<1> QED BY <1>1, LateIsSound, PTL

\* Without late requests the sale itself is at DPS before its return.
THEOREM SalesPrecedeReturns ==
  ASSUME Punctual
  PROVE  Spec => [](\A r \in dps.docs : ledger[r].kind = "Return" =>
                       \E q \in dps.docs : /\ ledger[q].key = OriginalOf[ledger[r].key]
                                           /\ ledger[q].num < ledger[r].num)
<1> DEFINE Sold == \A r \in dps.docs : ledger[r].kind = "Return" =>
                      \E q \in dps.docs : /\ ledger[q].key = OriginalOf[ledger[r].key]
                                          /\ ledger[q].num < ledger[r].num
<1>1. RegisterInvariant /\ ReturnAfterSale => Sold
  BY DEF RegisterInvariant, CoreInv, ConfirmedIsAccepted, ReturnAfterSale
<1>2. Spec => []ReturnAfterSale
  BY ReturnsFollowSales DEF Punctual
<1> HIDE DEF Sold
<1>3. Spec => []Sold
  BY <1>1, <1>2, RegisterIsSound, PTL
<1> QED BY <1>3 DEF Sold

-----------------------------------------------------------------------------
(* The register implements the exactly-once specification FiscalOnce.         *)


Held(k) == \E r \in dps.docs : ledger[r].key = k

\* In the states of the register a fate is told by two facts.
LEMMA FateIs ==
  ASSUME RegisterInvariant, NEW k \in Keys
  PROVE  /\ Fate(k) = IF ~Held(k) THEN "new" ELSE IF Reported(k) THEN "told" ELSE "held"
         /\ Reported(k) => Held(k)
<1>1. k # NoKey
  BY ConstantsAssumption
<1>2. \A r, q \in DocsOf(k) : r = q
  <2> SUFFICES ASSUME NEW r \in DocsOf(k), NEW q \in DocsOf(k) PROVE r = q
    OBVIOUS
  <2>1. AcceptedOnce
    BY InvOnce
  <2> QED BY <2>1, <1>1 DEF DocsOf, AcceptedOnce
<1>3. Reported(k) => Held(k)
  BY DEF Reported, Held, RegisterInvariant, CoreInv, ConfirmedIsAccepted
<1>4. DocsOf(k) = {} <=> ~Held(k)
  BY DEF DocsOf, Held
<1>5. CASE ~Held(k)
  BY <1>2, <1>3, <1>4, <1>5 DEF Fate
<1>6. CASE Held(k)
  BY <1>2, <1>4, <1>6 DEF Fate
<1> QED BY <1>3, <1>5, <1>6

\* Only an acceptance moves the fiscal server, and it leaves the ledger alone.
LEMMA ServerMoves ==
  ASSUME RegisterInvariant, [Next]_vars
  PROVE  \/ UNCHANGED dps
         \/ /\ op.rid \in Unresolved \ dps.docs
            /\ Take(op.rid) /\ UNCHANGED ledger
<1> DEFINE Moved == \/ UNCHANGED dps
                    \/ /\ op.rid \in Unresolved \ dps.docs
                       /\ Take(op.rid) /\ UNCHANGED ledger
<1> SUFFICES Moved
  OBVIOUS
<1>1. ASSUME NEW r, Reconcile(r) PROVE Moved
  BY <1>1 DEF Reconcile, server
<1>2. CASE Exchange
  <2>1. CASE ServerAccepts
    BY <2>1, WaitingRow DEF ServerAccepts, local, RegisterInvariant, Waiting
  <2>2. CASE ~ServerAccepts
    BY <1>2, <2>2 DEF Exchange, WriteDocument, SignerFails, Ticket, Rejection, HttpRefusal,
                      NoUsableAnswer, ServerRejects, RequestLost, Raise, server
  <2> QED BY <2>1, <2>2
<1>3. CASE CloseShift \/ CloseAfterZ \/ Finalize \/ Crash \/ SyncLoad \/ SyncQuery \/ SyncApply
  BY <1>3 DEF CloseShift, CloseAfterZ, Finalize, Crash, SyncLoad, SyncQuery, SyncApply, server
<1>4. ASSUME NEW via, OpenShift(via) PROVE Moved
  BY <1>4 DEF OpenShift, server
<1>5. ASSUME NEW k, Fiscalize(k) PROVE Moved
  BY <1>5 DEF Fiscalize, server
<1>6. ASSUME NEW r \in Receipts, AutoReconcile(r) \/ DeskReconcile(r) \/ Resume(r) PROVE Moved
  BY <1>1, <1>6 DEF AutoReconcile, DeskReconcile, Resume, server
<1>7. CASE HandlerReconciles
  BY <1>1, <1>7 DEF HandlerReconciles, server
<1>8. ASSUME NEW r \in late PROVE FALSE
  BY DEF RegisterInvariant, CoreInv, Accepted
<1>9. ASSUME NEW s \in Shifts, RepairClosing(s) PROVE Moved
  BY <1>9 DEF RepairClosing, server
<1>10. CASE UNCHANGED vars
  BY <1>10 DEF vars, server
<1> HIDE DEF Moved
<1> QED BY <1>2, <1>3, <1>4, <1>5, <1>6, <1>7, <1>8, <1>9, <1>10 DEF Next

\* How the two facts about a key move.
Same(k)      == Held(k)' = Held(k) /\ Reported(k)' = Reported(k)
Accepting(k) == ~Held(k) /\ Held(k)' /\ ~Reported(k)'
Reporting(k) == Held(k) /\ ~Reported(k) /\ Held(k)' /\ Reported(k)'

LEMMA TakeShows ==
  ASSUME RegisterInvariant, AcceptedOnce', UNCHANGED ledger,
         NEW r \in Unresolved \ dps.docs, Take(r)
  PROVE  \/ \A k \in Keys : Same(k)
         \/ \E k \in Keys : Accepting(k) /\ \A j \in Keys \ {k} : Same(j)
<1> DEFINE kr == ledger[r].key
<1>1. dps'.docs = dps.docs \cup {r} /\ ledger' = ledger
  BY DEF Take
<1>2. \A k \in Keys : /\ Held(k)' <=> Held(k) \/ kr = k
                      /\ Reported(k)' <=> Reported(k)
  BY <1>1 DEF Held, Reported
<1>3. \A k \in Keys : k # kr => Same(k)
  BY <1>2 DEF Same, Held, Reported
<1>4. CASE kr \in Keys
  <2>1. kr # NoKey
    BY <1>4, ConstantsAssumption
  <2>2. ~Held(kr)
    BY <1>1, <2>1 DEF Held, AcceptedOnce
  <2>3. ~Reported(kr)
    BY <1>4, <2>2, FateIs
  <2>4. Accepting(kr)
    BY <1>2, <1>4, <2>2, <2>3 DEF Accepting
  <2> QED BY <1>3, <1>4, <2>4
<1>5. CASE kr \notin Keys
  BY <1>3, <1>5
<1> QED BY <1>4, <1>5

LEMMA AppendShows ==
  ASSUME RegisterInvariant, UNCHANGED dps, op.pc = "write",
         NEW st \in {"Sending", "Draft"}, Append(st), NEW k \in Keys
  PROVE  Same(k)
<1>1. /\ used + 1 \in Receipts /\ used \in Nat /\ used < MaxReceipts
      /\ ledger \in [Receipts -> Row] /\ dps.docs \subseteq 1 .. used
      /\ 1 .. used \subseteq Receipts
  BY Bounds DEF RegisterInvariant, TypeOK, LedgerType, Writing, Receipts, CoreInv, Accepted
<1>2. /\ ledger'[used + 1].status = st /\ ledger[used + 1].status = "None"
      /\ \A q \in Receipts : q # used + 1 => ledger'[q] = ledger[q]
  BY <1>1 DEF Append, NewRow, RegisterInvariant, CoreInv, Rows, NoReceipt
<1>3. Held(k)' = Held(k)
  BY <1>1, <1>2 DEF Held
<1>4. Reported(k)' = Reported(k)
  BY <1>2 DEF Reported
<1> QED BY <1>3, <1>4 DEF Same

LEMMA SettleShows ==
  ASSUME RegisterInvariant, RegisterInvariant', UNCHANGED dps,
         NEW r \in Unresolved, NEW st \in Statuses, NEW state \in States, Settle(r, st, state)
  PROVE  \/ \A k \in Keys : Same(k)
         \/ \E k \in Keys : Reporting(k) /\ \A j \in Keys \ {k} : Same(j)
<1> DEFINE kr == ledger[r].key
<1>1. /\ r \in Receipts /\ ledger[r].status # "Fiscalized"
      /\ dps.docs \subseteq Receipts /\ dps' = dps
  BY Bounds DEF Unresolved, Unsettled, Receipts, RegisterInvariant, TypeOK, LedgerType, ServerType
<1>2. /\ ledger'[r].status = st
      /\ \A q \in Receipts : ledger'[q].key = ledger[q].key /\ (q # r => ledger'[q] = ledger[q])
  BY <1>1, SettleRow DEF RegisterInvariant
<1>3. \A k \in Keys : Held(k)' = Held(k)
  BY <1>1, <1>2 DEF Held
<1>4. \A k \in Keys : st # "Fiscalized" \/ k # kr => Reported(k)' = Reported(k)
  BY <1>1, <1>2 DEF Reported
<1>5. CASE st = "Fiscalized" /\ kr \in Keys
  <2>1. r \in dps.docs
    BY <1>1, <1>2, <1>5 DEF RegisterInvariant, CoreInv, ConfirmedIsAccepted
  <2>2. Held(kr) /\ Held(kr)' /\ Reported(kr)'
    BY <1>1, <1>2, <1>5, <2>1 DEF Held, Reported
  <2>3. ~Reported(kr)
    <3>1. kr # NoKey /\ AcceptedOnce
      BY <1>5, ConstantsAssumption, InvOnce
    <3>2. ASSUME NEW q \in Receipts, ledger[q].key = kr, ledger[q].status = "Fiscalized"
          PROVE  FALSE
      <4>1. q \in dps.docs
        BY <3>2 DEF RegisterInvariant, CoreInv, ConfirmedIsAccepted
      <4>2. q = r
        <5>1. ledger[q].key = ledger[r].key /\ ledger[r].key # NoKey
          BY <3>1, <3>2
        <5> QED BY <2>1, <3>1, <4>1, <5>1 DEF AcceptedOnce
      <4>3. ledger[q].status # "Fiscalized"
        BY <1>1, <4>2
      <4> QED BY <3>2, <4>3
    <3> QED BY <3>2 DEF Reported
  <2>4. Reporting(kr)
    BY <2>2, <2>3 DEF Reporting
  <2>5. \A j \in Keys \ {kr} : Same(j)
    BY <1>3, <1>4 DEF Same
  <2> QED BY <1>5, <2>4, <2>5
<1>6. CASE ~(st = "Fiscalized" /\ kr \in Keys)
  <2>1. \A k \in Keys : Same(k)
    BY <1>3, <1>4, <1>6 DEF Same
  <2> QED BY <2>1
<1> QED BY <1>5, <1>6

LEMMA StepShows ==
  ASSUME RegisterInvariant, RegisterInvariant', AcceptedOnce', [Next]_vars
  PROVE  \/ \A k \in Keys : Same(k)
         \/ \E k \in Keys : (Accepting(k) \/ Reporting(k)) /\ \A j \in Keys \ {k} : Same(j)
<1>1. CASE ~UNCHANGED dps
  BY <1>1, ServerMoves, TakeShows
<1>2. CASE UNCHANGED dps
  <2>1. CASE UNCHANGED ledger
    BY <1>2, <2>1 DEF Same, Held, Reported
  <2>2. ASSUME NEW st \in {"Sending", "Draft"}, op.pc = "write", Append(st)
        PROVE  \A k \in Keys : Same(k)
    BY <1>2, <2>2, AppendShows
  <2>3. ASSUME NEW r \in Unresolved, NEW st \in Statuses, NEW state \in States, Settle(r, st, state)
        PROVE  \/ \A k \in Keys : Same(k)
               \/ \E k \in Keys : Reporting(k) /\ \A j \in Keys \ {k} : Same(j)
    BY <1>2, <2>3, SettleShows
  <2> QED BY <2>1, <2>2, <2>3, LedgerMoves
<1> QED BY <1>1, <1>2

-----------------------------------------------------------------------------
(* The refinement.                                                            *)

LEMMA AbstractInit ==
  ASSUME Init
  PROVE  Once!Init
<1>1. \A k \in Keys : Fate(k) = "new"
  <2> SUFFICES ASSUME NEW k \in Keys PROVE Fate(k) = "new"
    OBVIOUS
  <2>1. RegisterInvariant
    BY InitInv
  <2>2. ~Held(k)
    BY DEF Init, Held
  <2> QED BY <2>1, <2>2, FateIs
<1> QED BY <1>1 DEF Once!Init

LEMMA AbstractStep ==
  ASSUME RegisterInvariant, RegisterInvariant', AcceptedOnce', [Next]_vars,
         \A k \in Keys : Fate(k) = IF ~Held(k) THEN "new" ELSE IF Reported(k) THEN "told" ELSE "held",
         \A k \in Keys : Fate(k)' = IF ~Held(k)' THEN "new" ELSE IF Reported(k)' THEN "told" ELSE "held",
         \A k \in Keys : Reported(k) => Held(k)
  PROVE  [Once!Next]_([k \in Keys |-> Fate(k)])
<1>1. \A k \in Keys : Same(k) => Fate(k)' = Fate(k)
  BY DEF Same
<1>2. CASE \A k \in Keys : Same(k)
  BY <1>1, <1>2
<1>3. ASSUME NEW k \in Keys, Accepting(k), \A j \in Keys \ {k} : Same(j)
      PROVE  Once!Next
  <2>1. Fate(k) = "new" /\ Fate(k)' = "held" /\ \A j \in Keys \ {k} : Fate(j)' = Fate(j)
    BY <1>1, <1>3 DEF Accepting
  <2>2. Once!Accept(k)
    BY <2>1 DEF Once!Accept
  <2> QED BY <2>2 DEF Once!Next
<1>4. ASSUME NEW k \in Keys, Reporting(k), \A j \in Keys \ {k} : Same(j)
      PROVE  Once!Next
  <2>1. Fate(k) = "held" /\ Fate(k)' = "told" /\ \A j \in Keys \ {k} : Fate(j)' = Fate(j)
    BY <1>1, <1>4 DEF Reporting
  <2>2. Once!Report(k)
    BY <2>1 DEF Once!Report
  <2> QED BY <2>2 DEF Once!Next
<1> QED BY <1>2, <1>3, <1>4, StepShows

\* Seen through its idempotency keys the register is the exactly-once machine.
THEOREM RegisterImplementsFiscalOnce ==
  ASSUME Punctual
  PROVE  Spec => ImplementsFiscalOnce
<1> DEFINE Fates == \A k \in Keys :
              /\ Fate(k) = IF ~Held(k) THEN "new" ELSE IF Reported(k) THEN "told" ELSE "held"
              /\ Reported(k) => Held(k)
<1>1. Init => Once!Init
  BY AbstractInit
<1>2. RegisterInvariant => Fates /\ AcceptedOnce
  BY FateIs, InvOnce
<1>3. RegisterInvariant /\ RegisterInvariant' /\ Fates /\ Fates' /\ AcceptedOnce' /\ [Next]_vars
         => [Once!Next]_([k \in Keys |-> Fate(k)])
  BY AbstractStep
<1> HIDE DEF Fates
<1> QED BY <1>1, <1>2, <1>3, RegisterIsSound, PTL DEF Spec, ImplementsFiscalOnce, Once!Spec

=============================================================================
