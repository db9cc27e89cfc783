--------------------------- MODULE RegisterInvariant ---------------------------
(* The inductive invariant behind the safety properties of PRRORegister when  *)
(* DPS decides a request before its sender gives up, and the first sync of a  *)
(* register comes after its first document.                                   *)
EXTENDS PRRORegister

Rows ==
    /\ \A r \in Receipts : r > used => ledger[r] = NoReceipt
    /\ \A r \in 1 .. used : ledger[r].status # "None" /\ ledger[r].num # 0

\* Live rows carry different numbers, all of them handed out already.
LiveNumbers ==
    /\ \A r \in 1 .. used : Live(r) => ledger[r].num < next
    /\ \A r, q \in 1 .. used : Live(r) /\ Live(q) /\ ledger[r].num = ledger[q].num => r = q

LiveKeys ==
    \A r, q \in 1 .. used :
        Live(r) /\ Live(q) /\ ledger[r].key = ledger[q].key /\ ledger[r].key # NoKey => r = q

\* What the operation that holds the lock relies on.
Writing ==
    op.pc = "write" =>
        /\ used < MaxReceipts /\ (op.kind = "Open" => made < MaxShifts)
        /\ op.kind # "None"
        /\ Unresolved = {} /\ next = dps.next
        /\ op.key # NoKey => ~Known(op.key)

Waiting ==
    op.pc = "wait" =>
        /\ op.rid \in 1 .. used /\ ledger[op.rid].status = "Sending"
        /\ op.reply \in {"sent", "accepted", "rejected", "lost"}
        /\ op.reply = "accepted" <=> op.rid \in dps.docs

Closing ==
    /\ op.pc = "finalize" => op.rid \in 1 .. used
    /\ op.pc = "z_done" \/ (op.pc = "finalize" /\ op.via = "fiscal_close_shift")
          => Unresolved = {} /\ used > 0

Syncing == ~sync.fresh /\ (sync.pc = "queried" => sync.seen # 0)

Accepted == late = {} /\ dps.docs \subseteq 1 .. used

\* Ledger and fiscal server fit together, whoever holds the lock.
CoreInv ==
    /\ Rows /\ LiveNumbers /\ LiveKeys /\ Accepted
    /\ NumberingInStep /\ ConfirmedIsAccepted /\ AcceptedIsKept

RegisterInvariant == TypeOK /\ CoreInv /\ Writing /\ Waiting /\ Closing /\ Syncing
-----------------------------------------------------------------------------
(* What closes a shift: documents of the shift are reused, not repeated.      *)

ZBefore(s, n) ==
    \E z \in 1 .. used : /\ ledger[z].kind = "Z" /\ ledger[z].shift = s
                         /\ ledger[z].status = "Fiscalized" /\ ledger[z].num < n

OneClosing ==
    /\ \A r, q \in 1 .. used :
          /\ Live(r) /\ Live(q) /\ ledger[r].kind \in {"Z", "Close"}
          /\ ledger[r].kind = ledger[q].kind /\ ledger[r].shift = ledger[q].shift
          => r = q
    /\ \A c \in 1 .. used : ledger[c].kind = "Close" => ZBefore(ledger[c].shift, ledger[c].num)

\* What the worker that closes knows of the shift; the repair of a closing may
\* take the current shift away, but only after its Close Shift was confirmed.
KnowsZ ==
    /\ op.rid \in 1 .. used /\ ledger[op.rid].kind = "Z" /\ ledger[op.rid].status = "Fiscalized"
    /\ ledger[op.rid].shift = current \/ Closings(ledger[op.rid].shift) # {}

Closer ==
    /\ op.pc = "write" /\ op.kind = "Z" => ZReports(current) = {}
    /\ op.pc = "write" /\ op.kind = "Close" => Closings(current) = {} /\ ZReports(current) # {}
    /\ op.pc = "wait" /\ ledger[op.rid].kind = "Z" => ledger[op.rid].shift = current
    /\ op.pc = "finalize" /\ op.via = "fiscal_close_shift" /\ ledger[op.rid].kind = "Z" => KnowsZ
    /\ op.pc = "z_done" => KnowsZ

ClosingInvariant == RegisterInvariant /\ OneClosing /\ Closer

-----------------------------------------------------------------------------
(* What the shifts of the register have to do with the shift of DPS.          *)

Opened(s) == \E r \in 1 .. used : /\ ledger[r].kind = "Open" /\ ledger[r].shift = s
                                  /\ ledger[r].status = "Fiscalized"

ClosedOne == \E r \in 1 .. used : ledger[r].kind = "Close" /\ ledger[r].status = "Fiscalized"

\* An Open Shift has a shift of its own; closing documents belong to a shift that
\* was opened.
ShiftRows ==
    /\ \A r \in 1 .. used : ledger[r].kind = "Open" => ledger[r].shift \in 1 .. made
    /\ \A r, q \in 1 .. used :
          ledger[r].kind = "Open" /\ ledger[q].kind = "Open" /\ ledger[r].shift = ledger[q].shift
          => r = q
    /\ \A r \in 1 .. used : ledger[r].kind \in {"Z", "Close"} => Opened(ledger[r].shift)

\* A shift that was closed, or is open or closing, has the documents that say so.
ShiftStates ==
    /\ current # 0 => Opened(current) /\ shift[current] \in {"Open", "Closing"}
    /\ \A r \in 1 .. used : ledger[r].kind \in {"Z", "Close"} =>
          shift[ledger[r].shift] \in {"Open", "Closing", "Closed"}
    /\ \A s \in Shifts : shift[s] = "Closed" => Closings(s) # {}

\* What the worker writes into a shift and applies to one.
Applying ==
    /\ op.pc = "write" /\ op.kind \in {"Z", "Close"} => current # 0
    /\ op.pc = "finalize" => ledger[op.rid].status = "Fiscalized"

OneOpenAtServer ==
    /\ dps.open <=> OpenAtServer # {}
    /\ \A s, t \in OpenAtServer : s = t

\* The register follows a shift until DPS has its closing, or until the closing of
\* another shift is confirmed again.
Followed ==
    \A s \in Shifts : shift[s] \in {"Open", "Closing"} => current = s \/ ClosedOne

ShiftInvariant == ShiftRows /\ ShiftStates /\ Applying /\ OneOpenAtServer /\ Followed

-----------------------------------------------------------------------------
(* The inductive invariant that late requests leave standing.                 *)

SaleBefore(k, n) ==
    \E q \in 1 .. used :
        /\ ledger[q].key = OriginalOf[k] /\ ledger[q].status = "Fiscalized" /\ ledger[q].num < n

Returned == \A r \in 1 .. used : ledger[r].kind = "Return" => SaleBefore(ledger[r].key, ledger[r].num)

Consumed ==
    /\ \A r \in 1 .. used : ledger[r].status = "Fiscalized" => Holds(ledger[r].num)
    /\ dps.docs \subseteq 1 .. used /\ late \subseteq 1 .. used

Worker ==
    /\ op.pc = "write" =>
          /\ used < MaxReceipts /\ (op.kind = "Open" => made < MaxShifts) /\ op.kind # "None"
          /\ op.kind = "Return" => SaleBefore(op.key, next)
    /\ op.pc = "wait" =>
          /\ op.rid \in 1 .. used /\ ledger[op.rid].status = "Sending"
          /\ op.reply \in {"sent", "accepted", "rejected", "lost"}
          /\ op.reply = "accepted" => op.rid \in dps.docs
    /\ op.pc \in {"finalize", "z_done"} => op.rid \in 1 .. used
    /\ op.reply = "sent" => op.pc = "wait"

LateInvariant ==
    /\ TypeOK /\ Rows /\ LiveNumbers /\ Returned /\ Consumed
    /\ Worker /\ ~sync.fresh /\ (sync.pc = "queried" => sync.seen # 0)
=============================================================================
