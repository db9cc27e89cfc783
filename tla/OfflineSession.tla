----------------------------- MODULE OfflineSession -----------------------------
(***************************************************************************)
(* One offline session of a PRRO cash register: ua_fiscal/orchestration.py *)
(* with offline_queue_enabled on and a reserved session id.  A sale whose  *)
(* delivery fails opens the session, later documents are signed and queued *)
(* as a chain, and the recovery job ends the session and sends the queue   *)
(* to the fiscal server (DPS) in packages.                                 *)
(*                                                                         *)
(* A step ends where the code commits.  The operations of the register     *)
(* exclude each other with its Redis lock (op); the recovery job (job)     *)
(* does not take that lock.  The shift is open when the model starts.      *)
(***************************************************************************)
EXTENDS Naturals, FiniteSets, Sequences, FiniteSetsExt, SequencesExt

CONSTANTS
    Sales,      \* idempotency keys of the sales
    NoKey,      \* the key of any other document
    MaxBatch,   \* documents in a package (100 documents or 175 KiB in the code)
    MaxDocs, MaxFaults, MaxLost   \* bounds

ASSUME ConstantsAssumption ==
    /\ NoKey \notin Sales
    /\ MaxBatch \in Nat \ {0}
    /\ MaxDocs \in Nat
    /\ MaxFaults \in Nat
    /\ MaxLost \in Nat

VARIABLES
    next,      \* PRRO Cash Register.next_local_number
    active,    \* PRRO Cash Register.active_offline_session is set
    shift,     \* PRRO Shift.status; a shift Closed Offline or Closed is not current
    ledger,    \* the PRRO Receipt rows in the order they were written
    session,   \* the PRRO Offline Session
    op,        \* the operation that holds the register lock
    job,       \* the recovery job
    dps,       \* the fiscal server: the number it expects and the rows it holds
    faults,    \* failures spent so far
    torn       \* the chain lost a document: its worker died before the session was
               \* updated, or it was sent online after all

register == <<next, active, shift>>
vars     == <<register, ledger, session, op, job, dps, faults, torn>>

Financial == {"Sale", "Z"}     \* kinds whose hash enters the chain
Idle      == [pc |-> "idle", key |-> NoKey, rid |-> 0, how |-> "none"]
NoJob     == [pc |-> "idle", rows |-> <<>>]
NoSession == [status |-> "None", local |-> 1, last |-> 0, revoke |-> FALSE, expired |-> FALSE]

Init ==
    /\ next = 1 /\ active = FALSE /\ shift = "Open"
    /\ ledger = <<>>
    /\ session = NoSession
    /\ op = Idle /\ job = NoJob
    /\ dps = [next |-> 1, docs |-> {}]
    /\ faults = 0 /\ torn = FALSE

-----------------------------------------------------------------------------
Rows       == DOMAIN ledger
Fits(n)    == Len(ledger) + n <= MaxDocs
Free       == op.pc = "idle"
Fault      == faults < MaxFaults /\ faults' = faults + 1
Known(k)   == \E r \in Rows : ledger[r].key = k
Unresolved == {r \in Rows : ledger[r].status \in {"Draft", "Uncertain"}}
OfKind(kind) == {r \in Rows : ledger[r].kind = kind}
Queued     == {r \in Rows : ledger[r].local # 0 /\ ledger[r].status = "Offline"}

\* A row of the ledger.  local is its number within the session, 0 online; sale
\* is the POS order, which stays when the idempotency key is renamed; prev is the
\* row whose hash it carries.
Row(kind, status, num, local, key, sale, prev) ==
    [kind |-> kind, status |-> status, num |-> num, local |-> local,
     key |-> key, sale |-> sale, prev |-> prev]
Online(k, status) == Row("Sale", status, next, 0, k, k, 0)

\* DPS takes the online document with the number it expects.
TakesOnline(r) == dps' = [next |-> dps.next + 1, docs |-> dps.docs \cup {r}]

-----------------------------------------------------------------------------
(* An online sale, and the transition to offline when it fails.            *)

CanSellOnline(k) ==
    /\ Free /\ ~active /\ shift = "Open" /\ ~Known(k) /\ Unresolved = {}
    /\ next = dps.next /\ Fits(1)

SellOnline(k) ==
    /\ CanSellOnline(k)
    /\ ledger' = Append(ledger, Online(k, "Fiscalized"))
    /\ next' = next + 1
    /\ TakesOnline(Len(ledger) + 1)
    /\ UNCHANGED <<active, shift, session, op, job, faults, torn>>

\* /doc got no certain answer, or the ticket could not be verified because the
\* signer is down: the row is Uncertain either way, yet the exception of the
\* signer does not say that delivery is uncertain.
SendFails(k) ==
    /\ CanSellOnline(k) /\ session.status = "None" /\ Fault
    /\ ledger' = Append(ledger, Online(k, "Uncertain"))
    /\ next' = next + 1
    /\ \E how \in {"uncertain", "certain"} :
          /\ \/ TakesOnline(Len(ledger) + 1)
             \/ how = "uncertain" /\ UNCHANGED dps
          /\ op' = [Idle EXCEPT !.pc = "begin", !.key = k, !.rid = Len(ledger) + 1, !.how = how]
    /\ UNCHANGED <<active, shift, session, job, torn>>

\* The signer is down before anything was sent; nothing is committed yet.
SignFails(k) ==
    /\ CanSellOnline(k) /\ session.status = "None" /\ Fault
    /\ op' = [Idle EXCEPT !.pc = "begin", !.key = k, !.how = "certain"]
    /\ UNCHANGED <<register, ledger, session, job, dps, torn>>

\* The failed sale gives its number back only when it certainly was not
\* delivered; its idempotency key is freed for the offline sale.
Abandoned ==
    LET status == IF op.how = "certain" THEN "Cancelled" ELSE "Uncertain" IN
    IF op.rid = 0 THEN Append(ledger, Row("Sale", status, next, 0, NoKey, op.key, 0))
    ELSE [ledger EXCEPT ![op.rid].status = status, ![op.rid].key = NoKey]
BeginNumber == IF op.how = "certain" /\ op.rid # 0 THEN ledger[op.rid].num ELSE next

\* Bug: the session does not revoke the document in doubt.
OpeningKeepsOnline == [NoSession EXCEPT !.status = "Opening", !.local = 2]
Opening == [NoSession EXCEPT !.status = "Opening", !.local = 2, !.revoke = (op.how = "uncertain")]

WriteBegin(status) ==
    /\ ledger' = Append(Abandoned, Row("Begin", status, BeginNumber, 1, NoKey, NoKey, 0))
    /\ next' = BeginNumber + 1
    /\ session' = Opening

BeginOffline ==
    /\ op.pc = "begin" /\ Fits(2) /\ WriteBegin("Offline")
    /\ op' = [op EXCEPT !.pc = "open", !.rid = 0]
    /\ UNCHANGED <<active, shift, job, dps, faults, torn>>

\* Offline Begin cannot be signed.  The caller rolls everything back, or commits it.
BeginFails ==
    /\ op.pc = "begin" /\ Fault
    /\ \/ Fits(2) /\ WriteBegin("Draft")
       \/ UNCHANGED <<ledger, next, session>>
    /\ op' = Idle
    /\ UNCHANGED <<active, shift, job, dps, torn>>

OpenSession ==
    /\ op.pc = "open"
    /\ session' = [session EXCEPT !.status = "Open"]
    /\ active' = TRUE
    /\ op' = [op EXCEPT !.pc = "sell"]
    /\ UNCHANGED <<next, shift, ledger, job, dps, faults, torn>>

-----------------------------------------------------------------------------
(* Queueing a document.  The signed row and the session that remembers its *)
(* hash are committed one after the other.                                 *)

\* Bug: the number within the session is taken only by financial documents.
TakeLocalFinancial(kind) == session.local + IF kind \in Financial THEN 1 ELSE 0
TakeLocal(kind) == session.local + 1

WriteQueued(kind, status, key, prev) ==
    /\ Fits(1)
    /\ ledger' = Append(ledger, Row(kind, status, next, session.local, key, key, prev))
    /\ next' = next + 1
    /\ session' = [session EXCEPT !.local = TakeLocal(kind)]

\* Close Shift is a service document: it carries no hash.
Previous(kind) == IF kind \in Financial THEN session.last ELSE 0

\* fiscalize_sale and close_shift while a session is active, and the sale that
\* opened it.  A second Z report has the key of the first and is refused.
Due(kind, k) ==
    \/ kind = "Sale" /\ k \in Sales /\ op.pc = "sell" /\ op.key = k
    \/ kind = "Sale" /\ k \in Sales /\ Free /\ active /\ shift \in {"Open", "Closing"} /\ ~Known(k)
    \/ kind = "Z" /\ k = NoKey /\ Free /\ active /\ shift \in {"Open", "Closing"} /\ OfKind("Z") = {}
    \/ kind = "Close" /\ k = NoKey /\ op.pc = "close"

Then      == [Sale |-> "done", Z |-> "close", Close |-> "closed"]
Started(kind) == IF kind = "Z" THEN "Closing" ELSE shift

Queue(kind, k) ==
    /\ Due(kind, k) /\ ~session.expired
    /\ WriteQueued(kind, "Offline", k, Previous(kind))
    /\ shift' = Started(kind)
    /\ op' = [Idle EXCEPT !.pc = "link", !.rid = Len(ledger) + 1, !.how = Then[kind]]
    /\ UNCHANGED <<active, job, dps, faults, torn>>

\* The signer is down.  Only the callers of a sale may commit its unsigned row.
QueueFails(kind, k) ==
    /\ Due(kind, k) /\ ~session.expired /\ Fault
    /\ \/ kind = "Sale" /\ WriteQueued(kind, "Draft", k, Previous(kind))
       \/ UNCHANGED <<ledger, next, session>>
    /\ op' = Idle
    /\ UNCHANGED <<active, shift, job, dps, torn>>

\* The legal limit of the session or the month is over.
QueueBlocked(kind, k) ==
    /\ Due(kind, k)
    /\ IF session.expired THEN UNCHANGED faults ELSE Fault
    /\ session' = [session EXCEPT !.status = "Blocked", !.expired = TRUE]
    /\ shift' = Started(kind)
    /\ op' = Idle
    /\ UNCHANGED <<next, active, ledger, job, dps, torn>>

Link ==
    /\ op.pc = "link"
    /\ session' = IF ledger[op.rid].kind \in Financial
                  THEN [session EXCEPT !.last = op.rid] ELSE session
    /\ op' = IF op.how = "done" THEN Idle ELSE [op EXCEPT !.pc = op.how, !.rid = 0]
    /\ UNCHANGED <<register, ledger, job, dps, faults, torn>>

ShiftClosed ==
    /\ op.pc = "closed"
    /\ shift' = "Closed Offline"
    /\ op' = Idle
    /\ UNCHANGED <<next, active, ledger, session, job, dps, faults, torn>>

-----------------------------------------------------------------------------
(* The recovery job ends the session and sends its documents.              *)

CanEnd == job.pc = "idle" /\ session.status = "Open" /\ OfKind("End") = {}

EndSession ==
    /\ CanEnd /\ WriteQueued("End", "Offline", NoKey, session.last)
    /\ job' = [job EXCEPT !.pc = "ended"]
    /\ UNCHANGED <<active, shift, op, dps, faults, torn>>

\* The job swallows the exception, and its later commits keep the unsigned row.
EndFails ==
    /\ CanEnd /\ Fault /\ WriteQueued("End", "Draft", NoKey, session.last)
    /\ UNCHANGED <<active, shift, op, job, dps, torn>>

\* A second Offline End has the key of the first and is refused, yet only after it
\* took its two numbers; they are lost, for the job swallows this exception too.
InSession == {r \in Rows : ledger[r].local # 0}
Lost      == (session.local - 1) - Cardinality(InSession)
EndRefused ==
    /\ job.pc = "idle" /\ session.status = "Open" /\ OfKind("End") # {}
    /\ Lost < MaxLost
    /\ next' = next + 1
    /\ session' = [session EXCEPT !.local = @ + 1]
    /\ UNCHANGED <<active, shift, ledger, op, job, dps, faults, torn>>

EndRecorded ==
    /\ job.pc = "ended"
    /\ session' = [session EXCEPT !.status = "Queued"]
    /\ job' = NoJob
    /\ UNCHANGED <<register, ledger, op, dps, faults, torn>>

ByNumber(rows) == SetToSortSeq(rows, LAMBDA a, b : ledger[a].num < ledger[b].num)

\* Bug: a session in Error is not tried again.
StartSendingOnce ==
    /\ job.pc = "idle" /\ session.status = "Queued"
    /\ job' = [pc |-> "send", rows |-> ByNumber(Queued)]
    /\ session' = [session EXCEPT !.status = "Sending"]
    /\ UNCHANGED <<register, ledger, op, dps, faults, torn>>
StartSending ==
    /\ job.pc = "idle" /\ session.status \in {"Queued", "Error"} /\ Queued # {}
    /\ job' = [pc |-> "send", rows |-> ByNumber(Queued)]
    /\ session' = [session EXCEPT !.status = "Sending"]
    /\ UNCHANGED <<register, ledger, op, dps, faults, torn>>

Package == IF Len(job.rows) <= MaxBatch THEN job.rows ELSE SubSeq(job.rows, 1, MaxBatch)
Rest    == SubSeq(job.rows, Len(Package) + 1, Len(job.rows))

\* DPS takes the documents it does not hold yet if they continue its numbers; an
\* Offline Begin that revokes may follow a document DPS never got.
New           == {r \in ToSet(Package) : r \notin dps.docs}
Revokes(docs) == session.revoke /\ \E r \in docs : ledger[r].kind = "Begin"
Numbers(docs) == {ledger[r].num : r \in docs}
Continue(docs) ==
    \E n \in {dps.next} \cup IF Revokes(docs) THEN {dps.next + 1} ELSE {} :
        Numbers(docs) = n .. (n + Cardinality(docs) - 1)
Attempts == {r \in Rows : ledger[r].local = 0 /\ ledger[r].key = NoKey}

Accept ==
    dps' = [next |-> IF New = {} THEN dps.next ELSE 1 + Max(Numbers(New)),
            docs |-> (dps.docs \ IF Revokes(New) THEN Attempts ELSE {}) \cup New]

SendPackage ==
    /\ job.pc = "send" /\ job.rows # <<>>
    /\ Continue(New) /\ Accept
    /\ job' = [job EXCEPT !.rows = Rest]
    /\ UNCHANGED <<register, ledger, session, op, faults, torn>>

\* Lost on the way there, lost on the way back, or refused.
PackageFailed ==
    /\ job.pc = "send" /\ job.rows # <<>>
    /\ \/ Fault /\ UNCHANGED dps
       \/ Fault /\ Continue(New) /\ Accept
       \/ ~Continue(New) /\ UNCHANGED <<faults, dps>>

\* Bug: the loop goes on after a package that failed.
PackageFailsQuietly ==
    /\ PackageFailed
    /\ job' = [job EXCEPT !.rows = Rest]
    /\ UNCHANGED <<register, ledger, session, op, torn>>
PackageFails ==
    /\ PackageFailed
    /\ session' = [session EXCEPT !.status = "Error"]
    /\ job' = NoJob
    /\ UNCHANGED <<register, ledger, op, torn>>

\* After delivery: what is queued becomes Fiscalized, and the session that revoked
\* the last online document cancels what is still in doubt.
Settled(r) ==
    CASE r.local # 0 /\ r.status = "Offline"        -> [r EXCEPT !.status = "Fiscalized"]
      [] session.revoke /\ r.status = "Uncertain"   -> [r EXCEPT !.status = "Cancelled"]
      [] OTHER                                      -> r

Delivered ==
    /\ job.pc = "send" /\ job.rows = <<>>
    /\ ledger' = [r \in Rows |-> Settled(ledger[r])]
    /\ session' = [session EXCEPT !.status = "Delivered"]
    /\ active' = FALSE
    /\ shift' = IF shift = "Closed Offline" THEN "Closed" ELSE shift
    /\ job' = NoJob
    /\ UNCHANGED <<next, op, dps, faults, torn>>

\* reconcile_receipt takes the lock of the register and asks DPS for the number.
Reconcile(r) ==
    /\ Free /\ r \in Rows /\ ledger[r].status = "Uncertain"
    /\ \E d \in dps.docs : ledger[d].num = ledger[r].num
    /\ ledger' = [ledger EXCEPT ![r].status = "Fiscalized"]
    /\ UNCHANGED <<register, session, op, job, dps, faults, torn>>

\* resume_pending_sale_receipt sends a sale online that was never signed, or whose
\* delivery DPS does not know, if DPS expects its number.
Resume(r) ==
    /\ Free /\ r \in Rows /\ ledger[r].kind = "Sale" /\ ledger[r].status \in {"Draft", "Uncertain"}
    /\ \A q \in Rows : ledger[q].status # "Cancelled" => ledger[q].num <= ledger[r].num
    /\ dps.next = ledger[r].num /\ OfKind("Close") \cap dps.docs = {}
    /\ \/ /\ ledger' = [ledger EXCEPT ![r].status = "Fiscalized"]
          /\ TakesOnline(r) /\ UNCHANGED faults
       \/ /\ ledger' = [ledger EXCEPT ![r].status = "Uncertain"]
          /\ Fault
          /\ TakesOnline(r) \/ UNCHANGED dps
    /\ torn' = (torn \/ ledger[r].local # 0)
    /\ UNCHANGED <<register, session, op, job>>

-----------------------------------------------------------------------------
OperationDies ==
    /\ ~Free /\ Fault
    /\ op' = Idle
    /\ torn' = (torn \/ op.pc = "link")
    /\ UNCHANGED <<register, ledger, session, job, dps>>

JobDies ==
    /\ job.pc # "idle" /\ Fault
    /\ job' = NoJob
    /\ UNCHANGED <<register, ledger, session, op, dps, torn>>

GoOffline == BeginOffline \/ BeginFails \/ OpenSession
Enqueue   == \/ \E kind \in DOMAIN Then, k \in Sales \cup {NoKey} :
                    Queue(kind, k) \/ QueueFails(kind, k) \/ QueueBlocked(kind, k)
             \/ Link \/ ShiftClosed
Recovery  == EndSession \/ EndFails \/ EndRefused \/ EndRecorded \/ StartSending \/ SendPackage \/ PackageFails \/ Delivered

Next ==
    \/ \E k \in Sales : SellOnline(k) \/ SendFails(k) \/ SignFails(k)
    \/ GoOffline \/ Enqueue \/ Recovery
    \/ \E r \in Rows : Reconcile(r) \/ Resume(r)
    \/ OperationDies \/ JobDies

Spec == Init /\ [][Next]_vars

\* The scheduler starts the recovery every five minutes, a job that runs goes on,
\* and a package that DPS would take is refused or lost only MaxFaults times.
FairSpec == Spec /\ WF_vars(Recovery)

-----------------------------------------------------------------------------
Kinds     == {"Sale", "Begin", "Z", "Close", "End"}
LedgerRow == [kind : Kinds, status : {"Draft", "Uncertain", "Offline", "Fiscalized", "Cancelled"},
              num : 1 .. MaxDocs + MaxLost, local : 0 .. MaxDocs + MaxLost, key : Sales \cup {NoKey},
              sale : Sales \cup {NoKey}, prev : 0 .. MaxDocs]

\* Every variable keeps its type.
TypeOK ==
    /\ next \in 1 .. MaxDocs + MaxLost + 1 /\ active \in BOOLEAN
    /\ shift \in {"Open", "Closing", "Closed Offline", "Closed"}
    /\ Len(ledger) <= MaxDocs /\ \A r \in Rows : ledger[r] \in LedgerRow
    /\ session \in [status : {"None", "Opening", "Open", "Queued", "Sending", "Error", "Delivered", "Blocked"},
                    local : 1 .. MaxDocs + MaxLost + 1, last : 0 .. MaxDocs, revoke : BOOLEAN, expired : BOOLEAN]
    /\ op \in [pc : {"idle", "begin", "open", "sell", "close", "link", "closed"},
               key : Sales \cup {NoKey}, rid : 0 .. MaxDocs,
               how : {"none", "uncertain", "certain", "done", "close", "closed"}]
    /\ job.pc \in {"idle", "ended", "send"} /\ ToSet(job.rows) \subseteq Rows
    /\ dps.next \in 1 .. MaxDocs + MaxLost + 1 /\ dps.docs \subseteq Rows
    /\ faults \in 0 .. MaxFaults /\ torn \in BOOLEAN

\* ORDERNUM and the number within the session advance together, although the job
\* allocates both outside the register lock, and no two documents share them; up to
\* Offline End the documents of the session are numbered 1, 2, 3 without a gap.
NumbersFollow ==
    LET first == {r \in InSession : \A e \in OfKind("End") : r <= e} IN
    /\ {ledger[r].local : r \in first} = 1 .. Cardinality(first)
    /\ \A r, q \in InSession : ledger[r].num + ledger[q].local = ledger[q].num + ledger[r].local
    /\ \A r, q \in Rows : ledger[r].num = ledger[q].num => r = q \/ "Cancelled" \in {ledger[r].status, ledger[q].status}

\* The hash chain: a sale or a Z report carries the hash of the latest signed sale
\* or Z report before it, whatever the job does, as long as no worker dies
\* between signing a document and recording its hash and no document of the
\* session is sent online.
ChainIsUnbroken ==
    ~torn =>
      \A r \in Rows : ledger[r].kind \in Financial /\ ledger[r].local # 0 =>
        LET before == {q \in Rows : /\ q < r /\ ledger[q].kind \in Financial /\ ledger[q].local # 0
                                    /\ ledger[q].status # "Draft"}
        IN  ledger[r].prev = Max(before \cup {0})

\* The documents of the session are a chain, in number and in hash, gapless up to
\* Offline End in number.
QueueIsAChain == NumbersFollow /\ ChainIsUnbroken

\* orchestration.py says before the transition to offline that the number of a
\* document whose delivery is uncertain must not be used again: what DPS holds is
\* never cancelled locally.
CancelledWasNotAccepted ==
    \A r \in Rows : ledger[r].status = "Cancelled" => r \notin dps.docs

\* DPS ends up with one document of a sale: the online attempt is revoked when
\* the sale is repeated offline, also if it was delivered after all.  The one
\* exception is an attempt that was delivered and cancelled (see above).
SoldOnce ==
    CancelledWasNotAccepted => \A r, q \in dps.docs : ledger[r].sale = ledger[q].sale /\ ledger[r].sale # NoKey => r = q

\* A delivered session is complete: DPS holds every document that was signed up
\* to its Offline End, in whatever packages and after whatever retries.
AllIsDelivered ==
    session.status = "Delivered" =>
        \A e \in OfKind("End") : \A r \in 1 .. e :
            ledger[r].local # 0 /\ ledger[r].status # "Draft" => r \in dps.docs

\* Back online with nothing in doubt the register and DPS expect the same number,
\* so the next preflight passes; only documents queued after Offline End prevent it.
ReturnsInStep ==
    session.status = "Delivered" /\ Unresolved = {} /\ (\A e \in OfKind("End") : \A r \in Rows : ledger[r].local # 0 => r <= e)
        => next = dps.next

\* What the register calls delivered is there, all of it and in its numbers, so
\* that sales can go on online, whatever packages were lost, cut or sent twice.
DeliveredIsComplete == AllIsDelivered /\ ReturnsInStep

\* What keeps a session from ending: an Offline End whose session was not queued,
\* a job that died while sending, the time limit, or numbers DPS does not expect.
Undelivered == {r \in Queued : r \notin dps.docs}
Stuck ==
    \/ job.pc = "idle" /\ session.status = "Open" /\ OfKind("End") # {}
    \/ job.pc = "idle" /\ session.status = "Sending"
    \/ session.status = "Blocked"
    \/ ~Continue(Undelivered)

\* The recovery job ends an open session and delivers it, over failing packages,
\* unless one of the known obstacles comes up.
SessionEnds == session.status = "Open" ~> session.status = "Delivered" \/ Stuck

\* Offline fiscal numbers are session range plus local number (docs/prro-conformance.md:30):
\* no number of the session is skipped, also after Offline End.
NumbersWithoutGap == {ledger[r].local : r \in InSession} = 1 .. Cardinality(InSession)

\* docs/pos/04-state-machines.md: a queued document is Delivered when its package
\* was sent and accepted.
FiscalizedIsDelivered ==
    \A r \in Rows : ledger[r].status = "Fiscalized" /\ ledger[r].local # 0 => r \in dps.docs

\* The same document: there is one Delivered document for a POS order.
OneDeliveredPerSale ==
    \A r, q \in Rows : /\ ledger[r].status = "Fiscalized" /\ ledger[q].status = "Fiscalized"
                       /\ ledger[r].sale = ledger[q].sale /\ ledger[r].sale # NoKey
                       => r = q

\* README.md: packages recover automatically; a session that was opened ends.
RecoveryEndsSession == session.status = "Open" ~> session.status = "Delivered"

=============================================================================
