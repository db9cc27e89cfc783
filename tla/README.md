# Formal model of ERPNext Ukraine

This directory holds TLA+ specifications of the parts of `erpnext_ua` where
correctness depends on the order of steps of several actors: the cash register
that fiscalizes documents at the tax service (DPS) and its offline session, the
payment of an order at the point of sale, the shift, drawer and printer of a cash
desk, gift certificates and loyalty points,
the group stock pools with their checkout saga, the stock of consignment partners
and what they are owed, and the exchange of orders with a web shop.  TLC checks
them on small instances.  TLAPS proves the most important properties of the
register and of the payment for all values of the constants.

* [1. The system](#1-the-system) — inventory of the parts
* [2. The modules](#2-the-modules) — which module models what, and how
* [3. What is checked](#3-what-is-checked) — runs, bounds, fairness
* [4. What is proved](#4-what-is-proved) — theorems and their argument
* [5. Disagreements between code and documents](#5-disagreements)
* [6. Assumptions](#6-assumptions)
* [7. What is not modelled](#7-not-modelled)
* [8. Plan](#8-plan)

To repeat a check: `tlc -workers 2 -config register_core.cfg MCRegister`; to
repeat a proof: `tlapm RegisterProofs.tla`.  `PROJECT.json` lists the runs, the
mutants that show each property can fail, the source lines behind every
definition, the hazards and the theorems.

## 1. The system

`erpnext_ua` is a Frappe application on top of ERPNext.  Requests of browsers
and jobs of the scheduler run in many processes; they meet in one MariaDB
database and in Redis.  A request is one transaction unless it commits on the
way, which the code does on purpose before every call to the outside world.  An
exception rolls back what came after the last commit.  `doc.save()` compares the
time stamp of the row with the one that was read and refuses an outdated copy.

The hard behaviours are therefore: two requests between their commits; a process
that dies between a commit and the answer of the outside; an answer that is
lost, late or repeated; a scheduler that meets a request on the same document;
and state that was read before a lock or a call and is used afterwards.

### PRRO register (`ua_fiscal/orchestration.py`, `recovery.py`, `ua_fiscal/doctype/prro_*`)

* **State**: `PRRO Cash Register` (next local number, current shift, runtime
  state), `PRRO Shift`, and `PRRO Receipt`, an immutable ledger with one row for
  every fiscal document.
* **Operations**: open a shift, fiscalize a sale or return, fiscalize service
  cash, Z report and closing, reconcile a receipt, resume a pending receipt,
  synchronise the register, register the device; the recovery job.
* **Interactions**: `fiscal_client.py` signs and sends; the POS and the outbox
  call the operations; DPS keeps its own number and shift state.
* **Hard**: the number is committed before the request leaves, the answer may be
  lost, and the same number must neither be skipped nor used for two documents.
  Some operations run without the register lock.
* **Correct means**: numbering in step with DPS; one document for one business
  operation; what the ledger calls fiscalized is at DPS and the other way round;
  a shift closes after exactly one Z report; nothing stays in doubt for ever.

### Offline session of the register (`orchestration.py:575-835, 1139-1174, 1297-1456`)

* **State**: `PRRO Offline Session` (Opening, Open, Queued, Sending, Error,
  Delivered, Blocked), the offline seed and the hash chain of the signed documents.
* **Operations**: start, queue a service document, a sale or a Z report, end,
  cut into packages, flush, retry by the recovery job.
* **Interactions**: a sale that fails online opens the session and goes on in it;
  sales and closings hold the lock of the register, the recovery job that ends and
  sends the session does not; both lock the rows of register and session.
* **Hard**: the online sale may be at DPS when it is repeated offline; documents are
  queued while the job sends; a document is signed in one transaction and its hash
  remembered in the next; a package may be accepted although its answer is lost.
* **Correct means**: numbers and chain without gaps, every queued document is in
  exactly one delivered package, no session stays in the middle.

### Fiscal outbox (`ua_fiscal/outbox.py`)

* **State**: `PRRO Fiscalization Job`: one per invoice and register, with status,
  number of attempts and the time of the next one.
* **Operations**: create with the invoice, process under a Redis lock of the job,
  complete, record a failure, recover due jobs every minute.
* **Correct means**: one receipt for an invoice although jobs are repeated.

### Point of sale (`ua_pos/api.py`, `terminal_service.py`, `adapters/terminal.py`)

* **State**: `POS Order`, `POS Payment Attempt`, `Terminal Transaction`,
  `POS Cash Movement`, operational shifts, sessions.
* **Operations** (the payment is `POSCheckout`, the rest of the desk `CashDesk`): build,
  hold and cancel an order; `checkout_start`;
  `card_status`; `retry_fiscalization`; returns; cash in and out; open and close
  a shift; count the drawer.
* **Hard**: the terminal may charge after the call timed out; two requests and
  the recovery job meet on one order; a failure after the charge rolls back.
* **Correct means**: charged once, posted only when paid in full, one cash
  movement per row, completed only with a receipt.

### Printing (`ua_pos/print_service.py`)

* **State**: `POS Print Job` (Queued, Printing, Done, Failed) with attempts and times.
* **Operations**: queue an original or a copy; a worker prints it; the scheduler prints
  what is queued and gives up what is Printing for ten minutes.
* **Hard**: worker and scheduler take the same job; a worker dies with the paper half out.
* **Correct means**: the machine prints a job at most once; an uncertain print is repeated
  only by a person and as a copy; an order does not stay Printing.

### Group stock FIFO (`group_stock_fifo/services/`)

* **State**: layers and `GSF Layer Balance` (cached actual and reserved
  quantities), allocations, stage lanes, reallocations, checkouts.
* **Operations**: reserve, release, consume, expire; claim and release a lane;
  the saga that reserves a basket line by line, moves the stock into the lane of
  the seller, posts the invoice and records the fiscal result; abort and
  compensate.
* **Hard**: several transactions per checkout with crashes in between; locks
  taken after the first read; a pool of lanes that is smaller than the demand.
* **Correct means**: no unit is held twice or lost, a lane serves one checkout, a
  basket is sold as a whole or not at all.

### Gift certificates (`ua_gift_certificates/services/`)

* **State**: certificates with a paid and a promotional balance and a status, their
  append-only ledger, reservations with a lease, return allocations, redemptions of
  an order.
* **Operations**: issue, sell and activate; quote, reserve, release; check out,
  consume with the invoice; return in parts, cancel a return or a sale; expire
  certificates and reservations; replace; reconcile.
* **Interactions**: `ua_pos/api.py` reserves before and consumes with a payment and
  releases when it fails; the hourly and the minute job expire.
* **Hard**: one certificate is wanted by two orders; the preparation commits in the
  middle of a checkout; the job works on a list read earlier; a return meets a
  certificate that has expired or was replaced since.
* **Correct means**: no value is made or lost, certificate, reservation and order
  agree, a return restores exactly what was taken.

### Loyalty (`ua_loyalty/services/`, `domain/`)

* **State**: an account with cached totals (active, pending, reserved), a ledger of
  typed entries, lots of credit, expiry obligations, reservations with a lease.
* **Operations**: quote, reserve, mark a payment in progress, consume and earn with
  the invoice, release; return, cancel; activate, expire, adjust, repair.
* **Hard**: a quote is old when it is reserved; release job, cashier and terminal
  meet; points of a return may already be spent, so that an account has a debt.
* **Correct means**: cached totals are the ledger, a point is spent once, lots cover
  the balance, what is undone leaves nothing.

### Consignment and commission (`consignment_and_commission/integrations/`)

* **State**: lots with reserved quantities, allocations with slices of lots, a POS
  checkout with routes and print jobs; partner returns and ownership conversions;
  sale and return allocations, settlement reports, adjustments and payments.
* **Operations**: receive, reserve first in first out, release, expire, invoice, print,
  compensate, return to the partner, convert; sell, return, report, pay, and every
  cancellation.
* **Hard**: an allocation can be consumed, released, expired or compensated by four
  different actors; a checkout is undone half way; reports, returns and payments are
  cancelled in any order; rounding of shares.
* **Correct means**: what is counted as reserved is held by somebody, a promise can be
  kept, a compensated checkout leaves nothing, a share is owed once.

### E-commerce (`ecommerce/`) and its integration operations (`integrations/`)

* **State**: `Ecommerce Channel`, files on FTP, `Sales Order` / `Sales Invoice` with the
  unique id of the remote order, the log of every synchronisation, `UA Integration
  Operation` (idempotency key, status), `Payment Entry` and the receipt.
* **Operations**: list and download files, turn each row into documents by the action its
  status is mapped to, commit, delete the file; pay; fiscalize; recover receipts; resolve
  operations.
* **Hard**: scheduler and button import one file at once; a row fails after others were
  written or after the fiscal job committed in the middle; the deletion has no answer.
* **Correct means**: a removed file was imported, an order is paid once, everything
  settles.

### Providers (`integrations/`)

LiqPay, monobank, PrivatBank, Nova Poshta, Rozetka Delivery, Ukrposhta, Telegram,
VitalPBX, TurboSMS: HTTP clients and field mappings around operations with an
idempotency key.

### The rest

Tax calendar and limits (`ua_fop`), price tags (`ua_price_tags`), mobile receiving
(`ua_receiving`), charts of accounts and off-balance accounts (`ua_accounting`),
installation and readiness (`ua_setup`, `install.py`, `patches`), item attributes
(`ua_item_specs`), printed forms.  They are sequential: validation, computation or
I/O of one request.

### Scheduler (`hooks.py:295-335`)

| period | jobs |
|---|---|
| every minute | fiscal outbox, print queue, stale gift reservations, e-commerce dispatch |
| 5 minutes | `recover_fiscal_state` (offline sessions, uncertain receipts, closings, pending POS orders), e-commerce receipts |
| 10 to 30 minutes | Prom.ua, shipments, bank statements |
| hourly (long) | expiry of group-stock and consignment allocations, of loyalty points and of gift certificates |
| daily | gift reconciliation, tax calendar |

## 2. The modules

| module | role |
|---|---|
| `PRRORegister` | the register, its operations, DPS and the network |
| `FiscalOnce` | what a caller may expect of fiscalization: one acceptance, then one report per key |
| `RegisterRefinement` | the mapping under which the register implements `FiscalOnce` |
| `RegisterInvariant` | the inductive invariants: numbers and ledger, closings, shifts, late requests |
| `RegisterProofs` | the proofs, the refinement among them |
| `OfflineSession` | one offline session from the failed online sale to its delivery |
| `GroupCheckout` | reservations, lanes and the checkout saga of group stock |
| `GroupCheckoutProofs` | its two inductive invariants and the proofs |
| `Sums`, `SumProofs` | the sum of a function over a finite set, and what is true of it |
| `POSCheckout` | payment, posting and completion of one POS order |
| `POSCheckoutProofs` | its inductive invariant and the proofs |
| `CashDesk` | the shift and drawer of a desk between payments, and the print queue of its receipts |
| `CashDeskProofs` | its inductive invariant and the proofs |
| `GiftCertificates` | a certificate from its sale to its last replacement, with the orders it pays |
| `GiftCertificatesProofs` | its inductive invariant and the proofs |
| `LoyaltyPoints` | one account: reservations, postings, returns, lots and the jobs |
| `ConsignmentStock` | lots of partners, their allocations, a POS checkout, partner returns and conversions |
| `ConsignmentStockProofs` | its inductive invariant and the proofs |
| `ConsignmentSettlement` | what a sale owes the partner: liability, returns, reports, payments |
| `ConsignmentSettlementProofs` | its inductive invariant and the proofs |
| `EcommerceOrders` | files of orders of one shop, two importers, payment and receipt |
| `MC...` | the instances TLC checks, one for each of the above |

`RegisterInvariant`, `RegisterRefinement` and `RegisterProofs`
build on `PRRORegister`, and every other `...Proofs` on the module it is named after.
`GroupCheckout`, `GiftCertificates`, `ConsignmentStock` and `ConsignmentSettlement` add up
holds, balances, slices and money with `Sums`.  The components
stand alone: where one part calls another, the callee appears as its outcomes.
`OfflineSession!SellOnline` is `PRRORegister` in one step; `POSCheckout!Deliver` and
`EcommerceOrders!Fiscalize` are the outbox and the register behind it;
`EcommerceOrders!Sell` for a fulfilling channel is `GroupCheckout`; the steps that
`GiftCertificates` and `LoyaltyPoints` take for a payment are those of `POSCheckout`
with only the commits that concern them.

### PRRORegister

One register and one fiscal server.  A step ends where the code commits or waits
for the network.  `_serialize_register_operation` makes all operations but two
exclusive, so the variable `op` is both the Redis lock and the program counter of
the operation that holds it:

| `op.pc` | where the code is |
|---|---|
| `idle` | nobody holds the lock |
| `write` | guards and preflight have passed, the number is about to be taken |
| `wait` | the row is committed as Sending, the request is under way (`reply` says how far) |
| `finalize` | DPS confirmed and the row is committed, shift and register are not updated yet |
| `z_done` | between the Z report and the closing document of `close_shift` |

Actions and handlers:

* `OpenShift`, `Fiscalize`, `CloseShift`, `CloseAfterZ` — the guards and the
  preflight of `open_shift`, `fiscalize_sale` and `fiscalize_service_cash`, and of
  the two halves of `close_shift`.
* `WriteDocument`, `SignerFails` — number, ledger row and signature.  Whether an
  unsigned row survives a failing signer depends on the caller (`KeepsDraft`).
* `Ticket`, `Rejection`, `HttpRefusal`, `NoUsableAnswer` — the branches of
  `_send_online`.
* `Finalize` — `_finalize_confirmed_receipt` for the three shift documents.
* `AutoReconcile`, `DeskReconcile`, `HandlerReconciles` — `reconcile_receipt` as
  called by the recovery job and the outbox, by the desk, and by the exception
  handlers of `fiscal_open_shift` and `fiscal_close_shift`.  Those handlers run
  after the lock was freed, so they are a variable of their own, `handler`.
* `Resume` — `resume_pending_sale_receipt`.
* `RepairClosing` — `_repair_closing_shift` of the recovery job, without the lock.
* `SyncLoad`, `SyncQuery`, `SyncApply` — `sync_register_state`, without the lock.
* `ServerAccepts`, `ServerRejects`, `RequestLost`, `LateArrival` — DPS and the
  network, modelled from how the code uses them: DPS accepts a document whose
  local number is the next one and whose kind fits the state of its shift.
* `Crash` — the process dies; the lock expires; what was committed stays.

Payloads, XML, sums, signatures and texts are left out.  Receipts are numbered by
creation, keys stand for idempotency keys, `0` stands for "no current shift".

### OfflineSession

One register with `offline_queue_enabled` and a reserved session id, an open shift,
and the two actors that meet: `op` is the operation that holds the register lock,
`job` is the recovery job.  A step ends where the code commits.  The exchange with
DPS that `PRRORegister` has in detail is one step here (`SellOnline`), or the
failure that starts the session.

* `SendFails`, `SignFails` — the ways in which `_send_online` leaves
  `fiscalize_sale` with a `FiscalTransportError`.  `how` is `exc.uncertain`.
* `BeginOffline`, `BeginFails`, `OpenSession` — the `except` branch of
  `fiscalize_sale` and `start_offline_session` up to its first commit
  (`_queue_signed_offline`), the rollback or the unsigned row when signing fails, and
  the second commit.  `Abandoned` and `BeginNumber` are what happens to the failed row
  and to its number.
* `Queue`, `QueueFails`, `QueueBlocked`, `Link` — `_queue_offline_sale`,
  `_queue_offline_zrep` and `_queue_offline_service` for a closing: the signed row is
  one commit, its hash in the session the next.  `ShiftClosed` ends `close_shift`.
* `EndSession`, `EndFails`, `EndRefused`, `EndRecorded` — `end_offline_session` as the job
  calls it.  A session that is still Open although it has an Offline End is ended again
  every five minutes; the second one is refused by its unique key after it took an ORDERNUM
  and a session number, and the job swallows the error without a rollback, so that its
  later commits keep both numbers taken (`orchestration.py:1306-1328`, `recovery.py:88-95`).
  A second Z report is refused in the same place, but its caller is a request that is
  rolled back.
* `StartSending`, `SendPackage`, `PackageFails`, `Delivered` — `flush_offline_session`;
  `Package` and `Rest` are `_offline_batches`.
* `Reconcile`, `Resume` — the recovery job, the desk and the outbox that meet a row in
  doubt or unsigned.
* `OperationDies`, `JobDies` — a worker is killed between two commits.
* `New`, `Continue`, `Revokes`, `Accept` — DPS and `/pck`, from how the code uses it.

`prev` of a row names the row whose hash it carries; `sale` is the POS order, which
stays when `fiscalize_sale` renames the idempotency key.  `torn` remembers that a
worker died between the two commits or that a queued sale was sent online after all.

### GroupCheckout

One scope (one item) with layers in FIFO order.  A step is a database
transaction.  The operations that take the scope lock before their first read
(`reserve`, `release`, `consume`, `expire`) are one step.  The saga reads first
and locks then, so a line takes two steps: `Read` fixes the snapshot, and
`ReserveLine` locks, writes and commits.  With the last line the same
transaction goes on to prepare the stock and to sell (`Walk`), which is how
`run()` is written.  `worker` holds the requests on their way with their
snapshot, the rows that changed since then (`changed`) and whether their copy of
the checkout is still the newest (`fresh`).  A walk writes the plan it made in its
snapshot; where `innodb_snapshot_isolation` is on the row refuses it, and otherwise
`outdated` remembers the layers that were held on a ledger that had changed, until the
next hold reads the newest.  `Resume` continues a checkout that
was stopped on purpose, `AbortReserved` and `AbortStaged` undo, `FiscalResult`
records what became of the receipt, `PassTime` lets a lease run out, `StrayUnit`
is a stock entry made outside the pool.  The statuses DRAFT, PREPARING,
COMPENSATING and ERP_SALE_SUBMITTED are written but never committed and do not
appear.

### POSCheckout

One order and the payment plans that come with the keys of `checkout_start`.
`CheckoutStart` and `Answer` are the parts of `checkout_start` before and after a
call to the terminal; `AskStatus` and `StatusAnswer` are `card_status`; `Deliver`
is the fiscal job; `Settle` is the end of `_complete_paid_order`; `Recover` is
`recover_pos_fiscal_pending` and `retry_fiscalization`; `SetAside` is hold and
cancel; `Drop` is a request that fails or dies, including the posting that raises
after the card was charged (`PostingFails`).  `BankDecides` is outside: the bank
charges, refuses or cancels an operation at any time after it was sent, also
after the call timed out.

### CashDesk

One cash desk.  A request reads in the snapshot of its transaction (`Begin`: it remembers
the open shift it saw) and writes at its end; `requests` is the bag of those on their way.
Only desk and open shift are locked in between, by `open_shift` and `close_shift_confirm`.

* `OpenShift`, `CloseShift`, `CashOperation`, `CreateOrder`, `CancelOrder` — the handlers;
  `Unfinished` are the orders that block a closing, `Balance` is `_cash_balance`.
* `CompleteOrder` — `_queue_print_if_configured` at the end of a payment; what precedes it
  is `POSCheckout`.  `QueuePrint` is `queue_receipt_print`, `AddPrinter` the desk that gets
  its printer later.
* `PrintStart`, `PrintLater` — `process_print_job` called by a worker for an entry of the
  queue (`rq`), however late it comes; `List`, `PrintListed`, `ListOutdated` — called by the
  scheduler, which read the list in its snapshot.  If the row changed since, MariaDB with
  `innodb_snapshot_isolation` refuses the lock (`ListOutdated`) and an older one prints what
  the snapshot says (`PrintListed`); the model does either.
* `PrintDone`, `PrintFails`, `WorkerDies` — the ends of a print; `papers` counts what came
  out.  `Sweep` is the first half of `process_print_queue`.  `repeated` remembers the two
  ways to a second paper: a job printed from an outdated list, and a job that was swept
  while its entry was still in the queue.  Attempts are counted up to `MaxAttempts`, which
  is all that is asked of them.

### GiftCertificates

A step ends at a commit.  `cert` is the certificate with its balances, `hold` a
reservation (and the allocation it becomes), `order` the POS order with its redeemed
total and its invoice, `request` a `checkout_start` between two commits, `back` a return,
`sweep` the list a run of the expiry job works through, and `books` what was activated
and what left for good.

* `AddSaleRow`, `PrepareSale`, `ReleasePendingSale`, `ActivateCertificate` — the sale.
* `QuoteRedemption`, `ReserveRedemption`, `ReleaseRedemption`, `CancelOrder` — the cashier.
  A signed quote is dropped when the order or the certificate it names is saved, because
  `decode_quote` refuses it from then on.
* `ListStale`, `ReleaseStale`, `ExpireCertificate`, `ValidityEnds` — the jobs and time.
* `PrepareCheckout` — `adapters/pos.py: prepare_checkout`, which commits; then `PayByCash`,
  or `StartCard` and `CardConfirms`, `CardDeclines`, `CardUnknown`, and `CardStatus`;
  `RequestEnds` is a request that dies or is refused.
* `Post` — `consume_order` as the invoice is submitted: `Steps` are the ledger entries in
  their order, each of which must be `Sound`; `PaidPart` is `split_consumption`.
* `CreateReturn`, `PostReturn`, `CancelReturn`, `CancelSale` — `RestoreShare` and
  `RestorePaid` are the rounded shares, `RestoreTo` and `Replaced` the certificate they go
  to when the old one has ended.

### LoyaltyPoints

A step is one transaction; every transaction takes the lock of the account, and one that
read it before cannot save it.  `account` holds the cached totals, the ledger by its unique
keys, and the lots.

* `Append` with `CreateLot`, `ConsumeLots`, `ReduceOrigin` — `append_ledger`.
* `Quote`, `ChangeCart`, `Reserve`, `MarkPaymentInProgress`, `Release`, `ReleaseStale` —
  quotes and reservations.
* `PrepareCheckout`, `PayCash`, `StartCard`, `CardConfirms`, `CardDeclines`, `CardUnknown`,
  `CardStatus`, `RequestEnds` — the payment; `Consumed` is `post_invoice`.
* `PostReturn`, `CancelReturn`, `CancelSale` — `Share` is `calculate_return_share`,
  `Previous` what `_submitted_return_totals` finds: of the returns that are submitted only
  those that left an allocation row, in quantity and in amount, for what the sale earned and
  for what it redeemed apart.  A share rounded to nothing leaves no row, and a return is
  refused once earlier ones took more than there was.  `_post_return_metrics` counts every
  submitted return, which limits the quantity.  `Reverse` undoes an entry by its inverse type.
* `ActivateLot`, `Expire`, `AdjustDown`, `Repair` — the jobs and the desk.

### ConsignmentStock

A step is one transaction.  Rows locked `FOR UPDATE` are read as they are, anything else
as it was when the transaction began; where the two differ the older reading is a variable
(`seen` for an issue that waits for its lot, `worker` for a printer that works).
`overdrawn` remembers the lots from which an issue took on a balance that had shrunk
while it waited, until a reservation looks at the lot again.

* `ReceiveLot`, `CancelReceipt`; `Reserve` (`Fifo` over `Free`), `Release`, `ExpireDue`,
  and `Finished`, the `_finish_allocation` they share with the invoice.
* `PrepareCheckout`, `Advance`, `PrintStarts`, `PrintEnds`, `MarkPrinted`, `Compensate`,
  `UpdatePaymentState`, `CancelInvoice` — the POS checkout and its routes.
* `DraftIssue`, `BeginSubmit`, `SubmitIssue`, `CancelIssue` — partner returns and
  conversions, which differ in the lot a conversion creates.
* `ReservationIssues` is what `audit_financial_integrity` reports.

### ConsignmentSettlement

A step is one transaction, taken alone.  `ledger` are the balances of two accounts, the
unreported liability and the payable of the supplier.

* `Sell`, `CancelSale`; `PostReturn` (`Delta` is `calculate_return_financial_delta`,
  `Adjusts` the adjustment of a report), `CancelReturn`.
* `CreateReport`, `SubmitReport`, `CancelReport`, `DeleteReport`; `CreatePayment`,
  `SubmitPayment`, `CancelPayment`; `Refreshed` is `refresh_settlement_lifecycle`.
* `SaleIssues` and `ReportIssues` are what the audit reports; `Owed` is
  `get_partner_balances`.

### EcommerceOrders

`db` is one record for an order: its Sales Order and Invoice, submitted Payment Entries,
operation, success log, receipt and fiscal status.  An importer is a program counter
(`idle`, `file`, `row`, `sell`, `pay`, `fiscal`, `note`, `delete`) with the snapshot its
transaction reads (`base`) and what it wrote (`work`).  `Locked` are rows another
transaction changed, `Conflicts` the unique keys and time stamps that make a transaction
fail and roll back.  The first file of a run is read in the snapshot that was taken
when the settings of the channel were read.

* `Send` — the shop writes a file; `Start`, `Download` — an importer lists and takes it.
* `Intake`, `Make`, `Sell`, `Pay`, `Note` — a row and the action its status is mapped to.
  `Sell` through the group stock and `Pay` with a PRRO commit in the middle of the file
  (`CommitWith`).
* `Commit`, `Delete` — every document and log is committed before the file is removed.
* `Fail` — the row is logged as failed, the file stays; `Crash` — the worker dies.
* `List`, `Recover`, `Certain` — the recovery of receipts and the register;
  `CancelPayment`, `Resolve`, `Map` — the desk.

## 3. What is checked

### Runs

All twelve runs pass.  A property is only useful if a plausible mistake in the code
would break it: `PROJECT.json` names for each one such a mistake (a definition marked
`Bug:` or `Mutant:`) under which TLC finds it violated.

| run | instance | states | shows |
|---|---|---|---|
| `register_core` | two shifts, a sale and a cash document, five receipts, one fault, concurrent sync, reconciliation by the desk, DPS starting at 3 | 738,223 | numbers, ledger and shifts in step with DPS, one Z report before one closing, immutable ledger, and the refinement of `FiscalOnce` |
| `register_settles` | one shift opened from the POS or by the outbox, a sale and its return, two faults, requests that arrive after their senders gave up, fair schedulers | 6,870 | a return never overtakes its sale; live numbers stay unique and consumed; every sale or return in doubt is settled |
| `offline_session` | two sales, seven documents, packages of three, two faults, two lost pairs of numbers, fair recovery job | 94,984 | numbers and hashes follow each other, without a gap up to Offline End, a sale is at DPS once, a delivered session is complete, the session ends |
| `group_race` | layers of two and one units, two checkouts, two lanes, two walks, an API reservation, without `innodb_snapshot_isolation` | 749,182 | counters, holds and ends are right in every order, but for a layer held on an old ledger |
| `group_basket` | baskets of two lines of two units, layers of one and four, two lanes, a foreign unit, fair expiry | 290,686 | stock is conserved, lanes are exclusive, a checkout ends as a whole, holds end |
| `pos_checkout` | four keys (cash and card, card, another card, cash), two requests, crashes | 120,022 | one charge, paid in full, one movement per row, receipts reach their order |
| `cash_desk` | two shifts, two requests at a time, an expense, one order with a copy, a worker and the scheduler, two attempts, late entries and old lists | 1,139,371 | one open shift; a job is printed once, but for two races, and a completed receipt is on paper; no order stays Printing |
| `gift_certificates` | one certificate of two paid units and one granted, two heirs, two orders of three articles that certificates may pay two units of, one checkout at a time, two returns | 581,922 | value is conserved, holds agree, returns are exact |
| `loyalty_points` | two points, two orders of four units, two reservations, three returns of one or three units, a debit, five ledger entries, two programs | 466,500 | totals agree, lots cover the balance, a paid order keeps its points, what is undone leaves nothing but the rounding of its returns |
| `consignment_stock` | two lots of three units, one of which a conversion creates, two allocations, one issue that may wait, two prints | 1,304,046 | reserved is held, a promise can be kept but from a lot issued on an old balance, a compensated checkout is undone |
| `consignment_settlement` | two sales of three units with a share of ten, three returns, two reports, two payments of five | 1,857,985 | the audit finds nothing, a share is owed once |
| `ecommerce_orders` | three orders in two files, two importers, two channels, one fault, one cancelled payment, fair jobs | 233,880 | no order is lost with its file, none paid twice, everything settles |

### Why the bounds are enough to be interesting

* Five receipts are an opening, a sale, a Z report, a closing and one document
  more: the second shift, or a row that was cancelled and written again under the
  number it gave back.
* Two faults are the failure and the failure of its repair: a lost answer and a
  crash during reconciliation, a failing signer and a rejected retry.  `register_core` has
  one, because its room goes to the actors without the lock; what it checks is proved for
  any number of faults.  `register_settles` was checked with three faults as well
  (33,714 states), a timeout, a rejection and another timeout of a late request.
* DPS starts at 2 or 3 where it matters, so a fresh register has to adopt a number that
  is not its own.
* Seven offline documents are the failed online sale, Offline Begin, the sale offline,
  a second sale, the Z report, Close Shift and Offline End.  Packages of three make
  two, so that a retry meets a package DPS already has; a session with fewer documents
  fits in one.  The invariants were also checked with three faults (296,115 states).
* A layer of one unit below one of two or four forces a line across layers and
  makes the last unit contested.  Two walks of two checkouts meet in every way two
  transactions can; a third actor is the API or the expiry job.  Two lanes let the two
  walks be under way at once, and let the wrong one be taken.
* Two requests of a desk are two cashiers, or a sale and a closing.  Two shifts are the
  one and the next; two attempts a print that fails and its repetition; an original and a
  copy are printed at once by the worker and the scheduler.
* Two POS requests are a cashier's double click, or a payment and a status request.
  Two card keys are a repeated payment after an unclear one.
* A certificate of three units with two of them paid splits unevenly in every amount.
  An order sells three articles for two units, so the shares of one and of two articles
  round differently: of two units taken, one article restores one and two articles restore
  one as well, and of one unit taken a first article restores nothing.  Two spare names
  let an heir be replaced in turn.  Two orders want the certificate at the same time.
* Two loyalty programs are the two ends: points at once that stay, and points that are
  delayed, expire and are kept in lots.  Two opening points do not cover a price of
  four, so cap and debt occur.  An order has four units: a quarter of two kopecks rounds up,
  and three single returns take three; a quarter of one rounds to nothing and leaves no
  entry, its half rounds to all of it.  `MaxEntries` bounds the ledger to a sale with three
  returns, or two sales with a return or the jobs in between.
* Three units in a lot and quantities of one and two let a reservation cross lots and
  leave a rest that is too small for the next.  Two prints are a failure and a success.
* A partner's share of ten kopecks over three units rounds down, then up: single units take
  3, 4 and 3.  Three returns in any order include those whose rounding does not add up.
  Two payments of five are half and all, and more than all once something is returned.
* The two files bring an order up to date, pay it and ignore one, with one row of each
  channel that cannot be imported at first.  Two importers are the scheduler and the
  button; one crash, lost answer or stopped fulfilment and one cancelled payment meet
  them at any point.
* Every bound is a constant named in a guard: `MaxFaults`, `MaxReceipts`, `MaxDocs`,
  `MaxShifts`, `MaxRequests`, `MaxEntries`, `MaxAttempts`, `MaxCancels`, `DeskRuns`.  Documents and
  reservations have names from finite sets (`Holds`, `Returns`, `Allocs`, `Issues`, ...).

`CHECK_DEADLOCK FALSE` is set everywhere: with the receipts used up, the stock
sold, the order completed or the files imported the system has nothing left to do.

Symmetry is used only in runs without liveness, for documents and requests whose
names nothing compares.

### Fairness

* `PRRORegister!Fairness`: an operation in progress takes its next step or fails
  (weak fairness of the writer, the answer, the finalisation and DPS), because a
  request has a time limit.  Reconciliation and resumption of every receipt are
  strongly fair: the outbox comes every minute and the recovery job every five,
  and both find the lock taken only for the time of one operation.  Openings,
  sales, closings and crashes are not fair.
* `OfflineSession!FairSpec`: only the recovery job is fair, because the scheduler calls
  it every five minutes.  Failures are not fair and bounded.  It needs
  `offline_auto_recovery`, and a server that can be reached.
* `GroupCheckout!Scheduler`: leases run out and the hourly job runs.
* `POSCheckout!FairSpec`: only `Recover` is fair.  This needs `PRRO Settings`
  enabled with automatic recovery, and a server that can be reached; the outbox
  calls the same function after every job of the POS.
* `CashDesk!FairSpec`: `process_print_queue` comes every minute (`List`, `PrintListed`,
  `ListOutdated`, `Sweep`), and a print ends, because its socket has a time limit of at most
  thirty seconds.  The short queue, requests, cashiers and deaths of workers are not fair.
* `EcommerceOrders!Fairness`: an importer runs to its end and the scheduler starts the
  next one (`dispatch` every minute); the recovery of receipts comes every five minutes
  and gets to each of them; the register settles what is uncertain (`SaleSettles` of
  `PRRORegister`); and the desk maps what a failed log names and closes operations that
  were left open.  Crashes, lost answers and cancellations are not fair.

### Properties that need care

* `LedgerIsImmutable` compares the operation a row is for (`key`), not its `idem_key` column,
  which releasing a number renames (`orchestration.py:1724-1730`).
* `ShiftAgreesWithServer` speaks of ledgers where nothing is in doubt, every confirmed shift
  document was applied and every Fiscalized row is at DPS (a late request may confirm the
  row that took over its number).  Then at most one shift is open at DPS, it is Open or
  Closing here, and the register works in it.  The register may have no current shift only
  after the closing of *another* shift was confirmed: that confirmation may come twice, and
  the second one clears the current shift whichever it is (`CurrentShiftIsKept` below).
  It also holds with the constants of `register_settles`, that is with late requests.
* `PrintedOnce` lets a job in `repeated` print again: one that was swept while its entry
  was still in the queue, or that was printed from an outdated list.  Both are disagreements
  of section 5 (`NeverTwice`).  It assumes that an exception means nothing was printed.
* `QueueIsAChain` (`NumbersFollow` and `ChainIsUnbroken`) excepts, for gaps in the numbers,
  what is queued after an Offline End that was not recorded, and, for the hashes, a worker
  that dies between the signature and the hash, and a queued sale the outbox sends online;
  `SoldOnce` excepts an accepted sale that was cancelled; `SessionEnds` excepts the
  obstacles named in `Stuck`.  Each exception is a disagreement of section 5.
* `ChargedOnce` excepts operations that were cancelled at the terminal.  Their attempt
  stays Unknown, and a later status request for it may put an order in Awaiting Payment
  while a new payment is unclear.
* `ReturnAfterSale` asks for a sale under a lower number that is Fiscalized here and whose
  number DPS holds.  That the document under this number is the sale itself is true without
  late requests only (`SalesPrecedeReturns`): a late request may have taken the number of
  the sale that was reported under it.
* `StockIsSafe` is checked with `SnapshotIsolation` off, as in MariaDB 10.6, which CI and
  deployment name.  Then a walk may hold units of a layer on a ledger that has changed; such
  a layer is `outdated` until the next hold, and only `HoldsAreCounted` and the cached
  quantity bind it.  That this can happen is `NeverOversold` in section 5.  With the
  isolation on, the default of MariaDB from 11.6.2, `outdated` stays empty.  Balances that a
  transaction did not write itself go through `doc.save()`, whose time stamp check protects
  them also without it.
* `UndoneLeavesNothing` is exact when the returns that brought all units back each left an
  entry, and otherwise allows half a kopeck for every return; `ReturnsAreExact` in section 5
  is what the code does not keep.
* `HeldIsCounted` of `ConsignmentStock` excepts lots whose receipt was cancelled, and
  `PromiseIsKept` reservations that are due, and the quantities of lots in `overdrawn`; the
  exceptions are described in section 5.
* `PaidKeepsItsPoints` assumes that the client does not reserve for an order while its
  checkout runs (`Overlapping = FALSE`), as the cashier's screen does not.
* `HoldsAgree` is checked with an expiry job that takes one hold at a time; with a list of
  several (`SweepSize = 2`) it may expire one that is being consumed, which is
  `ConsumingNotExpired` in section 5.
* `ImportSettles` is checked with one channel that fulfils through the group stock and one
  that fiscalizes, not with a channel that does both.
* `RestoredExactly` speaks of returns that stay posted; section 5 says what a cancelled
  one leaves behind.

## 4. What is proved

### The register

`RegisterProofs` proves, for every set of keys, every kind
and original, every number of receipts, shifts and faults, every first number of
DPS and every choice of entry points, under the assumption `Punctual`
(`~LateDelivery /\ ~FreshSync`):

| theorem | statement |
|---|---|
| `RegisterIsSound` | `Spec => []RegisterInvariant` |
| `TypeCorrect` | `Spec => []TypeOK` |
| `NumberingStaysInStep` | at most one document is in doubt, and the numbers agree but for that one |
| `ConfirmedWasAccepted` | a Fiscalized row is at DPS under that very row |
| `AcceptedStaysKept` | what DPS holds is never rejected or cancelled locally |
| `LedgerFollowsServer` | both together: ledger and DPS hold the same documents but for the one in doubt |
| `ExactlyOnce` | DPS accepts at most one document for a key |
| `LedgerStaysImmutable` | settled rows never change; no row changes its number or key |
| `RegisterImplementsFiscalOnce` | the register implements `FiscalOnce` |
| `OneClosingPerShift` | `OneZBeforeClose`: one live Z report and one live closing of a shift, the closing after a Fiscalized Z report |
| `ShiftsAreSound` | `Spec => [](ClosingInvariant /\ ShiftInvariant)` |
| `ShiftFollowsServer` | `ShiftAgreesWithServer`, for any number of shifts |
| `SalesPrecedeReturns` | the sale of a return is at DPS under a lower number |

and, without `~LateDelivery` (requests may arrive after their senders gave up):

| theorem | statement |
|---|---|
| `LateIsSound` | `Spec => []LateInvariant` |
| `NumbersStayConsumed` | `NumbersAreConsumed`: DPS holds a document under the number of every Fiscalized row, and live rows have different numbers |
| `ReturnsFollowSales` | `ReturnAfterSale` |

**The argument.**  `NumberingInStep` is the heart: either nothing is in doubt and
the register and DPS expect the same number, or exactly one row is in doubt, it
has the last number handed out, and DPS is one behind or not depending on whether
it holds that row.  It is not inductive alone.  What it needs:

* `Rows`, `LiveNumbers` — rows beyond `used` are empty, and the numbers of rows
  that were not cancelled are different and already handed out.  Without this the
  query of DPS by number could confirm another row than the one that was asked
  for (`ConfirmedIsAccepted`).
* `LiveKeys` — a key has one row that was not cancelled; with `AcceptedIsKept`
  (what DPS holds was not cancelled) this gives `AcceptedOnce`.
* `Writing`, `Waiting`, `Closing` — what the holder of the lock established before
  it released control to the network: no row in doubt while a number is about to be
  taken; the waiting row is the one in doubt; the answer "accepted" means DPS has
  it; a finished Z report leaves nothing in doubt.
* `Syncing` — an unlocked synchronisation that started on a register with history
  never writes the number.  This is where `~FreshSync` is used.
* `Accepted` — no request is still on the way after its sender gave up.  This is
  where `~LateDelivery` is used.

Each action has a lemma that preserves the invariant (`...Step`), built on lemmas
about what happens to the ledger: `SameCore` (nothing that matters changed),
`TakeCore` (DPS accepts), and the ones for appending and settling a row.
`LedgerMoves` says what any step can do to the ledger and carries both the
immutability theorem and the refinement.  For the refinement a key is described by
two facts, held by DPS and reported as fiscalized; `ServerMoves` and `LedgerMoves`
show that a step changes one of them for at most one key and in the right order.

`OneZBeforeClose` needs `ClosingInvariant`, which adds to `RegisterInvariant` what
`close_shift` knows between its steps (`Closer`): a Z report is about to be written only for
a shift that has none, a closing only after one, and the Z report a worker goes on from is
Fiscalized.  `KnowsZ` has a disjunct for `_repair_closing_shift`, which may finish the shift
under a worker that still runs.

`ShiftAgreesWithServer` relates three things that are written at different times: the documents
DPS took, the states of the shifts, and the current shift of the register.  `ShiftInvariant`
leads all of them back to the ledger:

* `ShiftRows` — an opening has a shift of its own, and Z report and closing belong to a shift
  whose opening is Fiscalized.
* `ShiftStates` — a shift with a Z report or a closing is Open, Closing or Closed, a Closed
  one has its closing, and the current shift was opened and is Open or Closing.
* `Applying` — who is about to write a closing document has a current shift, and what is
  applied is Fiscalized.
* `OneOpenAtServer` — DPS has a shift open exactly if it took an opening without its closing,
  and never two.  This is what acceptance by DPS keeps.
* `Followed` — a shift that is Open or Closing is the current one, unless some closing was
  ever confirmed.  The exception is the weak point of the code: `_finalize_confirmed_receipt`
  clears the current shift without a look at which one it is, so the invariant can promise
  no more.

With nothing in doubt the documents at DPS are the Fiscalized rows, so the shift DPS has
open is the one with an opening and no closing here (`ShiftsThenAgree`).  A step that neither
opens, closes nor applies leaves it all alone (`RowsGrow` and the lemmas on rows); the others
have a lemma each.  The first version of the property was true of one shift only; the proof
needed the exact condition under which the current shift can be lost.

Late requests break `NumberingInStep`, and with it most of the invariant.  `LateInvariant`
is what they leave standing, an inductive invariant of its own: types, `Rows`, `LiveNumbers`,
the number of every Fiscalized row is taken at DPS (`Consumed`), every return was preceded
by a Fiscalized sale when it was written (`Returned`, and `SaleBefore` for the return in the
hands of the worker).  It needs neither the order of numbers at DPS nor the one row in doubt.

### Sums

`SumProofs` proves what the models assume of `SumOver(f, S)`, which is `MapThenSumSet` of the
community modules, a recursive function over the subsets of `S` that takes elements in the
order of a `CHOOSE`.  The installed library has no theorem that reaches such a
function, but well-founded induction needs none with an operator parameter: `WFMin` gives a
minimal element of a set of subsets under `StrictSubsetOrdering`, so induction is stated for
a *set* of sets that holds something (`SubsetInduction`), and `FoldExists` and `FoldUnique`
show by it that the recursive definition has one value.  From there on it is arithmetic:
`SumRemove` (an element can be taken out in any order), `SumMove`, `SumPlus`, `SumUnion`,
`SumPart`, `SumLess`, `SumShift` (what one changed element does) and the rest.

### The group checkout

`GroupCheckoutProofs` proves, for all finite sets of checkouts, lanes and API keys, any number
of lines, layers, requested units and walking requests, from `ConstantsAssumption`:

| theorem | statement | needs |
|---|---|---|
| `NoUnitIsLost` | `StockIsConserved`: layers, lanes and invoices add up to what there was, and a lane holds the whole basket of one checkout | |
| `CheckoutEndsWhole` | `EndedIsWhole`: sold with every line consumed, or stopped with nothing held or staged | |
| `EndedIsFinal` | `EndedStaysEnded` | |
| `StockStaysSafe` | `StockIsSafe`: counters are what allocations hold and within the cached quantity, and no unit is held twice but in an outdated layer | |
| `GroupTypeCorrect` | `TypeOK` | |
| `IsolationPreventsOverselling` | `NeverOversold`: no unit is held twice | `SnapshotIsolation` |

**The argument** has two layers.  `SagaInv` is about what checkouts, lanes and allocations say
of each other, and it holds whatever the database does with snapshots: the status of an
allocation says whether its units were released and moved (`Positions`), the status of a
checkout what is true of all its lines (`CheckoutInv`), a lane is locked for exactly one
checkout under way (`LaneInv`) and holds its whole basket or nothing (`StageInv`), and a
request that may still write (`fresh`) walks a checkout that is RESERVING (`WorkerInv`).
Without the last, two walks of one checkout could both sell.  `UnitsAddUp` is the sum over
layers and lanes and moves with each step by `SumMove` and `SumPlus`.

`StockInv` rests on `SagaInv`.  It says that the counter of a layer is the sum of what its
RESERVED allocations hold and no more than the cached quantity, which is that of the ledger
unless the layer is outdated (`StockOf`); that what a walk has read of the layers whose rows
nobody changed since is still so (`SnapshotInv`); and that isolation leaves no layer outdated
(`OutdatedInv`).  A stale plan that is written is the disagreement `NeverOversold` of section
5; the corollary `IsolationPreventsOverselling` says what turning isolation on would mend.


### The payment of an order

`POSCheckoutProofs` proves, for every set of keys and plans (any number of cash and card
rows), every set of concurrent requests, and with or without crashes, from nothing but
`PlanAssumption`:

| theorem | statement |
|---|---|
| `Invariance` | `Spec => []IInv` |
| `OrderIsPaid` | an invoice is posted only for a whole plan whose card rows the bank charged |
| `DrawerIsRight` | one cash movement for each row of a posted plan and none before |
| `CompletionIsFiscal` | a fiscal order is completed only with its receipt; a posted one is never reopened |
| `CardIsChargedOnce` | `ChargedOnce`, under `OneCard`: no plan has two card rows |

**The argument.**  The three properties rest on each other: that an order is not paid
twice follows from `CompletedIsFiscal` (a payable order has no invoice), and that a late
status answer cannot spoil a posted plan follows from `PaidInFull` (the bank charged the
operation, so it can only be confirmed).  `IInv` adds what the actors know:

* `OrderBacked`, `RequestBacked` — a plan, in the order or in the hands of a request that
  waits for the terminal, says Confirmed for a card row only where the bank charged it,
  and it has one entry for each row it has come to.  `BackedStays` carries this over
  `BankDecides`, `PlanToBacked` over the cash rows a request passes.
* `CardKnows`, `FiscalKnows` — a request whose copy is still the newest (`fresh`) knows
  the state it left the order in.  These replace the status check that neither the answer
  of the terminal nor the end of `_complete_paid_order` makes; the time stamp check of
  `doc.save()` is what they stand for, and `SaveOutdates` is the lemma about it.
* `PendingIsPosted` — only a posted order waits for a receipt, so recovery completes no
  other.

`CompleteKeeps`, `LeaveKeeps` and `SendCardKeeps` are the three ways a request can end its
transaction; each action reduces to them.

**The card.**  `OneCard` is what the desk makes: `ua_pos/page/ua_pos/ua_pos.js:933-934` adds one
row for the cash and one for the card.  (With two card rows a plan charges twice on purpose.)
`ChargeInv` says that at most one card operation is *live*, that is neither unused nor
declined, that whatever the bank charged is live (`ChargeIsLive`), that an order which can be
paid has none (`UnpaidIsClear`), and that a request whose copy is the newest has its own
operation live (`RequestsPay`).  An operation cancelled at the terminal breaks this for good,
as it does in the code, so the invariant is `Interrupted \/ ChargeInv`; that an interruption
is never taken back is part of the proof.

### Gift certificates

`GiftCertificatesProofs` proves, for all finite sets of certificates, orders, reservations and
returns, any set of checkouts, every amount paid and granted, price and number of articles,
with or without breakage, from `GiftAssumption`:

| theorem | statement |
|---|---|
| `CertificateInvariance` | `Spec => []GiftInv` |
| `ValueStays` | `ValueIsConserved` |
| `HoldsAlwaysAgree` | `HoldsAgree` |
| `ReturnsAreExact` | `RestoredExactly` |

**The argument.**  The three properties are conjuncts of the invariant or follow from one: what
is reserved bounds what a release may take back, and what was consumed bounds what a return
may restore.  `GiftInv` adds to them

* `CertsOK` — every balance is `Sound`; a certificate that was not sold yet, or was replaced,
  carries and holds nothing; its heir was activated.  Lineages end: some ranking of the
  certificates falls along every replacement.  The ranking is quantified, because a new heir
  gets a new one (`ReplaceOne`: the heir is put below everything else).  From it
  `HeirsLead` concludes that `Heir`, which walks as many steps as there are certificates,
  arrives at one that is not replaced.
* `HoldsKnown`, `OneOpen`, `OneTaken` — a reservation is of a sold certificate, an order has at
  most one open and one consumed, and a consumed one has its invoice.
* `Quoted`, `NoInvoiceYet` — what reserving relies on: a quote is for an order that holds
  nothing, and an order the cashier works on was not posted.
* `BacksKnown` — a return is of an order with an invoice, and what it restored went to a
  certificate that was sold.

Every action reduces to one of five kinds of step, each with a lemma that says what it does to
the sums: nothing that counts changes (`QuietStep`); one certificate changes and the difference
is booked (`OneCertStep`: activation, expiry); one reservation and its certificate and order
change together (`HoldStep`: reserve, release, consume); one return changes (`BackStep`);
a certificate is replaced (`ReplacedFacts`: the total stays, and the heir takes all of it).
The rest is arithmetic on rounded shares: `ShareFits` and `PaidFits` say that a share and its
paid part leave as much as they claim, and `LeftFacts` that taking the last amount takes the
last paid part with it, which is why the second and third conjunct of `RestoredExactly` hold
although every share is rounded for itself.

Two readings of the documents were tried first and are not what the code does; they are
`ComponentsAreExact` and `LastReturnRestoresAll` in section 5.

### The cash desk

`CashDeskProofs` proves, for every set of orders, movements, print keys and workers, any
number of shifts and of requests at a time, from `DeskAssumption`:

| theorem | statement |
|---|---|
| `TypeCorrect` | `Spec => []TypeOK` |
| `ShiftIsAlone` | `Spec => []OneOpenShift` |
| `PaperIsSingle` | `Spec => []PrintedOnce` |

**The argument.**  `OneOpenShift` says that the shifts before an opened one are closed; with
the types it is inductive, because `open_shift` looks under the lock of the desk and
`close_shift_confirm` closes the shift that is open then (`ActiveIsOpen`: if one is open,
the code finds it).  `PrintedOnce` needs to know who may still print:

* `WorkerInv` — a job in the hands of a worker exists, and unless it is repeated it is
  Printing, nothing of it is on paper, and no other worker holds it.
* `JobInv` — a Done job is on paper.  Unless it is repeated, what nobody has taken is not on
  paper, and a Failed job that may be on paper has no entry left in the queue.  The sweep
  of a job whose entry is still there, and the scheduler who prints what its list says
  although the row has moved on, are the only steps that could break this, and both put
  the job in `repeated`.
* `OrderInv` — an unpaid order has no jobs, so the original is the first one.

`StartKeeps`, `RestKeeps` and `ReportKeeps` are the three things that happen to a job: a
worker takes it, lets it go, and its order hears of it.

### The stock of partners

`ConsignmentStockProofs` proves, for all finite sets of lots and allocations, every set of
documents, any quantities and number of prints, from `StockAssumption`:

| theorem | statement | needs |
|---|---|---|
| `StockInvariance` | `Spec => []StockInv` | |
| `HeldCounts` | `HeldIsCounted`: `audit_financial_integrity` has nothing to report on a lot that was not cancelled | |
| `CompensationIsWhole` | `CompensatedIsUndone` | |
| `PromisesAreKept` | `PromiseIsKept` | |

**The argument.**  `Counted` is the heart: what a lot counts as reserved is the sum of the
slices of its RESERVED allocations, and nobody has a slice of a lot that was not received.  A
reservation adds to the sum (`HeldOnMore`), `_finish_allocation` takes any set of allocations
out of it (`HeldOnLess`, `EndsFacts`), and everything else leaves slices and counter alone or
replaces a lot as a whole (`MovesLot`, `MovedLotsCount`).  `Named` says that a document takes
stock out of a partner's lot that stays open and that a conversion creates a lot of its own,
so that submitting or cancelling it never overwrites a lot that has reservations.
`Followed` ties routes, prints, invoices and the worker's job to allocations; with it
compensation reaches all of a checkout, and a late print or the expiry job brings nothing of
it back.  `ReservedIsOnHand` is added for `PromisesAreKept`: what is reserved of a lot is on hand
unless the lot is `overdrawn`.  An issue that read the balance it finds under the lock takes
only what is free, one that read a larger one makes its lot overdrawn, and a reservation
takes a lot out of `overdrawn` because it compares the balance with what is reserved first.

### What partners are owed

`ConsignmentSettlementProofs` proves, for all finite sets of sales, returns and reports, any set
of payments, and every number of units, share and amount paid at a time, from
`SettlementAssumption`:

| theorem | statement |
|---|---|
| `SettlementInvariance` | `Spec => []SettlementInv` |
| `AuditIsClean` | `Spec => []AuditFindsNothing` |
| `ShareIsOwedOnce` | `Spec => []OwedOnce` |

**The argument.**  The documents store totals of each other, and the invariant says of each
total what it counts:

* `Counted` — the returned units of a sale are those of its posted returns.
* `Agreed` — a submitted report has as adjusted and paid what returns and payments come to,
  outstanding less credit is what it holds less both, and returns took no more than it holds
  (`Says`).  A draft has nothing against it.
* `Balanced` — the payable account is outstanding less credit of the submitted reports.
* `Posted`, `Paying` — a return that adjusts a report keeps its sale bound to it, and a
  payment keeps it submitted: a report that was cancelled has neither.
* `Bound` — a live report has rows only of sales that name it, and what it holds of a sale
  and what was returned before are at most the share.  This makes the sum in `OwedOnce` one
  row (`OneShare`).

A step changes one document, so each sum changes by one element, which `SumShift` of
`SumProofs` says of every sum and `AdjustedShift`, `ReturnedShift`, `OutsideShift`, `PaidShift`
and `OwedShift` of these.  `RefreshKeeps` and `ReportGone` are what returns and payments, and
deleting and cancelling a report, have in common.  `ShareMonotone` is the arithmetic: rounding
keeps the order of shares, so no return gives something to the partner.

The attempt corrected a property.  `OwedOnce` used to bound what was returned outside of
reports also when there is no report; that fails from three units on, because returns
cancelled out of order add up to more than the share (see `FinalReturnCloses` in section 5).
What holds is that a sale in this state gets into no report, for nothing of it is left to
report; the run now has three units, so that such states are among those it checks.

### Only model-checked

* Liveness (the prover has no rules for fairness and ENABLED): `SaleSettles`, `SessionEnds`,
  `HoldsEnd`, `ReceiptReachesOrder`, `PrintSettles`, `ImportSettles`.
* Everything about `OfflineSession` (`QueueIsAChain`, `SoldOnce`, `DeliveredIsComplete`),
  `LoyaltyPoints` (`BalancesAgree`, `PaidKeepsItsPoints`, `UndoneLeavesNothing`) and
  `EcommerceOrders` (`RemovedIsAccepted`, `PaidOnce`), which have no proofs yet.
* What the register keeps of its shifts under late requests: `ShiftFollowsServer` and
  `OneClosingPerShift` assume `Punctual`.

## 5. Disagreements

Each property named here is defined in its module, with the sentence of the
repository it states, and fails on the configuration given.  None belongs to a run, so
all runs pass; to see a counterexample, name the property in the configuration (and
drop `SYMMETRY` where it has one).

### Register and offline session

* `ClosedIsFinal` (`register_core.cfg` with `Entry = {"fiscal_open_shift"}`,
  `ServerStart = 1`): `fiscal_open_shift` that fails before it writes a
  document reconciles the newest Open Shift receipt (`ua_pos/api.py:722-735`), the one of
  the previous shift.  Its confirmation sets the closed shift to Open and makes it current
  (`orchestration.py:1588`), although the function says that it "idempotently applies local
  state changes" (`:1554`).
* `CurrentShiftIsKept` (`register_settles.cfg` with `MaxReceipts = 6` and `MaxShifts = 2`):
  the reopened shift replaces the current one.  In the same way the closing of an earlier
  shift that is confirmed again sets no current shift (`orchestration.py:1636-1658`), and the
  register sells no more although its shift is open at DPS and in the ledger.
* `UncertainSettles` (`register_settles.cfg`): an Open Shift, Z, Close or service
  document that was lost on its way stays Uncertain for ever.  Only sales and returns are
  sent again, and a receipt DPS does not know is cancelled only from Error, so every later
  document of the register is refused.  `docs/pos/04-state-machines.md:103` promises a
  repetition for every document.
* `ZCoversShift` (`register_settles.cfg`): closing stops between Z report and Close
  Shift, the register goes on selling, and the resumed closing reuses the Z report,
  which does not contain the later sales (`orchestration.py:1229`).
* `BlockedIsDivergence` (`register_core.cfg`): a synchronisation that read the
  number before a document was written and asked DPS after it was accepted blocks
  a register that has nothing wrong.
* `NumberingInStep` (`register_core.cfg` with `FreshSync = TRUE`): the first
  synchronisation of a register starts before its first document and writes the number
  after it.
* `AcceptedIsKept` (`register_settles.cfg`): a request that arrives after its
  sender timed out and was refused on the retry; the number was given back and the
  row cancelled, yet DPS holds the document.
* `CancelledWasNotAccepted` (`offline_session.cfg` with `MaxFaults = 1`): DPS accepted a
  sale, and the signer is down when the ticket is unwrapped.  That exception says
  `uncertain=False`, so the row is cancelled as "certainly not delivered" and its number
  goes to Offline Begin, which revokes nothing (`orchestration.py:957-985`).
* `FiscalizedIsDelivered` (`offline_session.cfg`): a sale queued after the job read the
  rows to send becomes Fiscalized with the others, although no package contained it
  (`orchestration.py:1371`, `:1415`; `docs/pos/04-state-machines.md:105-106`).
* `OneDeliveredPerSale` (`offline_session.cfg`): while the session is open the recovery
  job reconciles the online attempt that the session is going to revoke, and the order has
  two Fiscalized rows (`docs/pos/04-state-machines.md:115` wants one).
* `RecoveryEndsSession` (`offline_session.cfg`): a job that dies while the session is
  Sending, an Offline End that was committed without the status Queued or without its
  signature, and a Blocked session are never picked up again, although the repository's
  `README.md:51-52` promises automatic recovery.
* `NumbersWithoutGap` (`offline_session.cfg`): Offline End was committed but not the status
  Queued, or could not be signed; each later run of the recovery job takes two numbers for a
  second Offline End that its key refuses, and the next sale is queued behind the gap
  (`docs/prro-conformance.md:28` wants a continuous ORDERNUM).
* `ChainIsUnbroken` without `torn` (`offline_session.cfg`): a worker dies between
  `_persist_signed` and the update of the session, and the next document repeats the hash
  of the one before (`docs/prro-conformance.md:31`).

### Group stock

* `CancelledWasNotSold` (`group_race.cfg` with `OnHand <- OneAndOne`, `Workers = {w1}`):
  an uncertain receipt moves a sold checkout to MANUAL_REVIEW (`checkout.py:382`), from
  where `abort` cancels it and leaves the invoice behind.
* `ResumeConverges` under `RetriedSpec` (`group_race.cfg`): a line whose allocation
  was released or expired still names it, so the checkout is never reserved again nor ended.
* `NeverOversold` (`group_race.cfg`):
  `reserve_checkout_line` reads before it takes the scope lock
  (`fulfillment_reservation.py:32`).  Without `innodb_snapshot_isolation` (MariaDB 10.6,
  which `deployment/README.md:11` names) the plan comes from the past and a layer is
  oversold; `docs/group-stock-fifo/release/phase-6-8.md:91-94` says the preflight ends
  before the transaction that writes.

### Shift and printing

On `cash_desk.cfg`:

* `ClosedIsFinished`: an order created by a request that read the shift before it was
  closed comes to the closed shift, although unfinished orders block a closing
  (`docs/pos/04-state-machines.md:139-140`).
* `ClosedCountsAll`: in the same way an expense comes to a shift whose expected cash was
  already stored (`ua_pos/api.py:880`), whereas every cash operation needs an open shift
  (`docs/pos/04-state-machines.md:139`).
* `NeverOverdrawn` (with `Moves = {out1, out2}`): two expenses at once both find the drawer
  full enough (`ua_pos/api.py:250`).
* `OneOriginal` (with `PrintKeys = {"again", "more"}`): when the desk had no printer at the
  end of the payment, the order never gets the key `receipt:{order}:original`, and each
  repetition prints another receipt that is no copy; the docstring at `ua_pos/api.py:2629`
  promises a safe reprint.
* `ReprintCompletes`: a copy that comes out leaves the order in Completed Print Error, which
  blocks the closing of the shift for ever; `docs/pos/04-state-machines.md:41` completes the
  order.
* `NeverTwice`, in two ways.  The scheduler prints a job and dies, the job becomes Failed,
  and the entry that waited in the queue prints it again, because a Failed job is printable
  (`print_service.py:844`, `:913` "never blindly repeats").  And without
  `innodb_snapshot_isolation` the list of queued jobs fixes the snapshot of the scheduler:
  after it locked the row of the first it still reads Queued there
  (`print_service.py:840-841`), although a worker has printed the job since.

### Payment, certificates and points

* `ChargeIsRecorded` (`pos_checkout.cfg` with `Keys = {card}`, `PlanOf <- CardPlan`,
  `Requests = {r1}`, `Crashes = FALSE`): when posting raises after a card was charged, the
  Manual Review status (`ua_pos/api.py:2136`) is rolled back with everything else since the
  terminal was called; the order stays in Payment In Progress, which no handler accepts.
* `ChargedOnce` without the exception `Interrupted` (`pos_checkout.cfg`): the order
  that a late status request puts back to Awaiting Payment; compare
  `docs/pos/04-state-machines.md:85-86`.
* `ConsumingNotExpired` (`gift_certificates.cfg` with `Spares = {c2}`, `Returns = {t1}`,
  `SweepSize = 2`): the sweep expires a certificate that a checkout is
  consuming (`reservation.py:164`), and the order that was paid with it can no longer be
  posted; `docs/gift-certificates/04-state-machines.md:5` has no such step.
* `ComponentsAreExact` (`gift_certificates.cfg` with `Paid = 5`, `Promo = 2`, `Price = 7`,
  `Sold = 4`, `Returns = {t1, t2, t3}`): amount and paid part of a share are rounded separately
  and only each of them is capped (`returns.py:42-74`), so early returns may restore more of
  the promotional part than was taken, and the last one pays it back as a negative entry;
  `docs/gift-certificates/02-architecture.md:9` calls the restoration exact in both parts.
* `LastReturnRestoresAll` (`gift_certificates.cfg` with `Price = 3`, `Returns = {t1, t2, t3}`):
  a return whose share rounds to zero leaves no row, so its articles are not counted
  (`returns.py:42-60`), the last return takes itself for an earlier one and a rest of the
  certificate is never restored;
  `docs/gift-certificates/adr/ADR-006-return-restoration.md:3` promises "last-residual
  rounding".
* `ReturnsAreExact` (`loyalty_points.cfg`): two kopecks redeemed for four units, returned one
  by one, are restored as one, one and one; the fourth return is refused, because three is
  more than two (`domain/returns.py:26`).  And with four returns of one unit a single kopeck
  is never restored, because no share leaves a row (`posting_service.py:146-147`,
  `:242-259`); `docs/loyalty/08-testing.md:10` names a final residual and a guard against
  returning too much.
* `PaidCanPost` (`loyalty_points.cfg`): a return of an earlier sale reduces its lot while
  the points of another order are leased and its card is charged; posting then throws
  "Bonus lots не покривають redemption" (`ledger_service.py:155`), and the answer of
  `docs/loyalty/10-operations-runbook.md`, to repeat the posting with the same key, throws
  again.
* `PendingIsScheduled` (`loyalty_points.cfg`): a return after a delayed accrual was
  activated reverses it as pending (`posting_service.py:150-157`), so the pending total
  disagrees with the entries that wait.
* `PaidKeepsItsPoints` (`loyalty_points.cfg` with `Overlapping = TRUE`, `Opening = 8`): a
  `reserve` call between the commit of the preparation (`ua_pos/api.py:2488`) and the
  reload (`:2315`) replaces the hold that the checkout marked as being consumed.

### Consignment and e-commerce

* `ReservedIsThere` (`consignment_stock.cfg`): a partner return that
  waited for the lock of a lot decides on the balance it read before, and takes units that
  a checkout reserved; the docstring at `partner_returns.py:85-91` says the balance is
  read under lock.
* `CancelledIsNotPrinted` (`consignment_stock.cfg`): the print worker holds a job
  that the compensation cancels, and prints it; `pos.py:421-422` says that a cancelled job
  cannot succeed.
* `FinalReturnCloses` (`consignment_settlement.cfg`): the last return of a sale takes what
  rounding left over (`services/sale_return.py:63`), but when earlier partial returns are
  cancelled in another order a kopeck stays, or is taken twice: of a share of ten for three
  units, returns of one and one take 3 and 4, and after the first is cancelled one of two
  takes 7.  Eleven are then returned, and the unreported liability of the sale is below zero.
* `LiabilityIsUnreported` (`consignment_settlement.cfg`): a return that was posted before a
  report and is cancelled after it brings its share back to the liability, while the sale
  stays bound to the report that did not contain it (docstring at `settlements.py:279`).
* `FiscalizedIsPaid` (`ecommerce_orders.cfg`): a receipt is issued on the word of a file
  whose payment ERP then refuses or cancels, against the sentence at
  `ua_fiscal/ecommerce.py:55`.
* `RemovedIsSold` (`ecommerce_orders.cfg`): a file whose rows were ignored is removed with
  orders that were never sold; `docs/integrations/ECOMMERCE_CHANNELS.md` keeps a file while
  any row failed, and a row that is ignored today leaves a Success log that stands for a
  document tomorrow.

### Seen while reading

Outside the modelled state, or too small for a property:

* `end_offline_session` locks the session and then the register, a sale the register and
  then the session; MariaDB ends the deadlock by rolling one of them back.
* `card_status` for an order whose plan is still empty takes `all([])` for paid and
  tries to post; only ERPNext's refusal of an invoice without payment rows stops it.
* An order in Awaiting Payment can neither be held nor cancelled.
* `acquire_lane` marks a lane with foreign stock dirty and raises; the exception
  rolls the mark back (`staging.py:92-95`).  Releasing a lane that is DIRTY but empty makes
  it AVAILABLE.  Undoing a basket of several lines records STAGE_LANE_DIRTY at its first
  line, because the lane still holds the others.
* Preparing a basket of several items updates balances of scopes whose locks it does not
  hold (`reallocation.py:477`).
* *Printing.*  A print that fails or succeeds sets the status of the printer, and so enables
  one that was disabled meanwhile (`print_service.py:882`, `:900`).  A service movement whose
  fiscal document fails is Pending for ever.  A shift is closed without a look at the PRRO
  shift (`docs/pos/04-state-machines.md:140`).
* *Certificates.*  `split_consumption` at the quote counts the whole paid balance, so two
  orders may claim more paid funding than there is, and a single-use certificate may be
  reserved by two orders of which neither can be posted.  A release between the commit of
  the preparation (`adapters/pos.py:77`) and `doc.reload` (`ua_pos/api.py:2317`) leaves
  the certificate undebited.  The allocation of a cancelled return still counts in later
  shares (`returns.py:42-60`), and two returns planned before either is posted restore other
  amounts than they planned.  The over-restore check that
  `docs/gift-certificates/12-reconciliation-runbook.md:3` wants daily is not part of
  `services/reconciliation.py`.  `reconciliation.py:19` counts the full `requested_amount`.
  `release_checkout` saves the order through another instance, so an order with certificate
  and points ends in a time stamp conflict (`ua_pos/api.py:2456`).  A release locks the
  reservation first and the order last (`reservation.py:111`), a checkout the other way
  round.
* *Points.*  The key `payment-failed:{order}` names no attempt: the second declined
  payment of an order raises a conflict and the order stays in Payment In Progress.
  Expiry and manual debits never reduce lots, and the cap of an expiry ignores reserved
  points.  `_mark_posted` writes POSTED and `_complete_paid_order` overwrites it.
* *Consignment.*  A payment recorded after a compensation stays COMPENSATED (`pos.py:474`).
  Stock that returns to an EXHAUSTED lot is never allocated again.  A receipt that is
  cancelled zeroes the reservations of its lot, and their later release fails for ever.  A
  job left in PROCESSING by a crash is never picked up.  Two returns of one sale, or two
  payments of one report, that run at once lose an update.  An outstanding amount is
  validated only for drafts.
* *E-commerce.*  An operation that was reconciled is believed after its payment was
  cancelled (`orders.py:211-213`).  The commits of the fiscal step and of the group stock
  end the "one transaction" of a file.  A file that is overwritten under its name between
  download and removal is lost.  `core/orders.py` uses another external key than
  `base/orders.py`, so both importers would create the order.  The branches that expect a
  duplicate read again in the same snapshot and raise (`orders.py:591-593`).

## 6. Assumptions

* **Frappe.** A request is rolled back to its last commit when an exception leaves
  it.  `save()` compares `modified` and raises on a stale copy.  Unique keys refuse
  the second insert.
* **MariaDB.** Repeatable read; row locks are held until commit.  A plain read after a
  lock still sees the snapshot of the transaction, a read `FOR UPDATE` the newest row.
  `innodb_snapshot_isolation` may be off, as in MariaDB 10.6, except in `OfflineSession`.
* **Redis.** The lock of a register lasts 600 seconds, longer than the time-out of
  a request to DPS, and the process that holds it is alone.  When the process dies
  the lock expires; the next holder comes later than the answer would have.  The
  model says so with `LateDelivery = FALSE`; `register_settles` shows what is left
  without it.
* **DPS.** It accepts documents in the order of their local numbers, one for each,
  and only while its shift state fits; it answers by number what it holds.  A package is
  taken when the documents DPS does not hold yet continue its numbers; documents it holds
  are ignored; an Offline Begin that revokes drops the last online document and may follow
  a number DPS never got.
* **Register.** In `PRRORegister` `offline_queue_enabled` is off and no offline session is
  open; `OfflineSession` is the other case and assumes `innodb_snapshot_isolation`, because
  a document reads the hash of the session before it locks its row.
  `Entry` selects the callers: opening by the POS (`fiscal_open_shift`) or by the
  outbox (`open_shift`), reconciliation by the desk, synchronisation.
* **Terminal.** A repeated operation id is the same operation.  The bank decides an
  operation at most once.
* **POS.** One till has one order at a time in a payment; the desk has no group-stock
  scope, because the commits of the saga inside the payment are another model.
* **Printer.** A desk prints its jobs one after another or at once, as its workers come;
  a call that raises has printed nothing.
* **Certificates and points.** A signed quote cannot be forged and names the version it was
  made from.  One checkout per order is under way, which the row lock of the order ensures
  up to the commit of the preparation; the request that comes in between is described in
  section 5.  In `LoyaltyPoints` every transaction locks the row of the account first.
* **Consignment.** The desk cancels documents in the order ERPNext allows: no document with
  a submitted one linked to it.  A checkout has at most one order at a time.
* **Shop.** An order is sent with a status that its channel maps to one action; a later file
  never moves it backwards; file names are not reused.

## 7. Not modelled

* *Wording and data*: XML, QR codes, printed forms, labels, chart templates, texts.
* *Pure I/O*: HTTP clients of carriers, banks, telephony and messengers.  The providers make
  most of the lines that remain: field mappings and requests around an operation with an
  idempotency key, which `EcommerceOrders` models once, with its outcomes.
* *Sequential computation*: tax calendar, price and label arithmetic, attribute
  validation, receiving.
* *Once per installation*: patches, setup wizard, migration.
* *Spikes*: `consignment_and_commission/spikes` are prototypes that production code does
  not call; the integrations that grew out of them are modelled.
* *Left out of modelled parts*:
  * register: the sums of the Z report;
  * offline: service cash, returns and openings, a second session, the clock;
  * group stock: several items in a basket, the consignment provider, cost, serial numbers
    and batches, returns, receipts of layers, the audit;
  * payment: returns, preparation of certificates and points together, the draft invoice, plans with two cards in the runs (the user interface makes none; the proofs
    cover them, but for the one of `ChargedOnce`);
  * desk: sessions, PIN and roles, denominations and the discrepancy of a closing, the
    fiscal document of a movement, X and Z report jobs, other editing of the cart;
  * certificates: a sale split over companies, settlements, printing, several certificates
    or rows in an order;
  * points: tiers, several item rows, snapshots of rules, cards, promotions;
  * consignment: blocked lots, the stock side of customer returns, batches and serials,
    account 024, prices, currencies, drafts of returns;
  * e-commerce: export of the catalogue, refusals for amounts and currencies, several routes
    in an order, `core/orders.py`, unreadable files, failures of listing.

The map covers about an eighth of the repository's lines.  What it leaves is mostly what
the top of this list names.  `PROJECT.json` lists every part with its reason.

## 8. Plan

| step | module | content | properties |
|---|---|---|---|
| 1 | `FiscalOutbox` | jobs, lock, retries; composed with `PRRORegister` through `FiscalOnce` | one receipt per invoice, a job ends |
| 2 | `ScopeLocks` | lock orders of basket items, certificates and orders | no cycle of waiting requests for one order of items |
| 3 | `POSPreparation` | certificates and points in one payment: prepare, commit, reload, pay, release | charged once with two keys, a reservation is released or consumed once |
| 4 | `CashDesk` with `PRRORegister` | cash in and out with their fiscal documents, the count of the closing | drawer, movements and service documents agree |

Openings, returns and service cash while offline remain to be added to `OfflineSession`,
and the consignment provider to the baskets of `GroupCheckout`.

**Runs.**  A dozen runs keep the whole project repeatable in minutes.  A new module
brings one run with two actors, one crash and the smallest pool that is contested, and
takes the place of a configuration of the register whose question the proofs answer.

**Theorems.**  Next are `RemovedIsAccepted` and `PaidOnce` of `EcommerceOrders`, which need what
an importer knows of the snapshot it works on; `SoldOnce` of `OfflineSession`; then
`BalancesAgree` of `LoyaltyPoints`, whose sums over reservations and lots become `SumOver` as
those of `GiftCertificates` did.
