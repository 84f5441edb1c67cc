# A TLA+ model of the Azad ERP

This directory holds TLA+ modules for the core of the multi-tenant ERP/POS
application in `src/` (Flask, SQLAlchemy, PostgreSQL), TLC configurations that
model-check them on small instances, and TLAPS proofs about them. Everything is
translated from the Python source; `PROJECT.json` maps each definition to the
lines it stands for.

## 1. How the program runs, and what that means for the model

* Every HTTP request is handled by one worker thread with one SQLAlchemy session
  and, in effect, one database transaction. `utils/db_safety.py:atomic_transaction`
  commits at the end of the `with` block (an early `return` inside it commits too)
  and rolls back on any exception.
* The engine options set pool parameters only, so PostgreSQL runs at its default
  isolation level, READ COMMITTED. (`config.py` computes an
  `SQLALCHEMY_ISOLATION_LEVEL`, which nothing passes to the engine.) A request sees
  what others have committed, at each statement; what it read without
  `SELECT ... FOR UPDATE` may be stale when it writes.
* The ORM keeps one Python object per row and does not refresh it when a later query
  finds the row again, so a "stale read" lasts for the whole request unless it asks
  for `populate_existing`. It writes only the columns it changed.
* An `UPDATE` takes the row lock and waits for another holder; an insert of a key
  that another transaction inserted but has not committed waits for that transaction.

The models are therefore written at this grain: **one step per database statement
that another request can observe or be blocked by**, a `pc` per request, `mem` for
the request's own copy of a row, `lock` for row locks, and all writes of a
transaction in the step that commits it, since no other request sees them earlier.

## 2. Inventory

| Component | State | Operations | Interacts with | Hard part | What makes it correct |
|---|---|---|---|---|---|
| POS cash sessions (`routes/pos.py`, `utils/pos_helpers.py`, `models/pos_session.py`) | session rows: status, counters, closing figures | open, checkout, cash movement, pause, resume, return, close | sale payments, GL, shifts, ledger | requests on one row, locked and unlocked reads mixed; circles of waits | counters equal the drawer; legal status moves; closing figures stand |
| POS idempotency ledger (`services/idempotency_service.py`) | one row per endpoint and key | begin, replay, complete, expire | every keyed POS write | retries racing the first attempt | at most one execution per key; replay only what was executed |
| POS checkout, returns, cash movements (`services/pos_*_service.py`, `services/return_service.py`) | sales, payments, returns, movements | create | sessions, stock, GL | document numbers, quantity check without lock, locks taken in two orders | no over-return; no lost counter update; every request answered |
| POS shifts (`models/pos_shift.py`) | shift rows | open, reconcile, totals (close always refuses) | sessions | stale shift object in a checkout | an honest count balances |
| POS overrides, parked carts | tokens, carts | authorize, consume; park, resume, void line | checkout | check-then-set without lock | single use |
| Document numbers (`utils/helpers.py`, `services/document_sequence_service.py`) | latest row, sequence rows | next number | every document | first row of a sequence, turn of the year | unique numbers |
| Cheques (`services/cheque_service.py`, `routes/cheques.py`) | status, journal entries | create, deposit, clear, bounce, cancel, edit, delete | GL, customer and supplier balances | no lock between check and posting | each event posted once; clearing accounts return to zero |
| Stock (`services/stock_service.py`) | quantity and cost per warehouse, product total | movements, transfer, sale, purchase, reversal | sales, purchases, GL | NOWAIT locks, product total outside the lock | total equals the sum; no unpermitted negative stock |
| Warehouse transfers (`services/transfer_service.py`) | status | approve, ship, receive, cancel | stock | status read without lock | goods move once |
| General ledger (`services/gl_service.py`, `gl_posting.py`) | entries, periods | post, reverse, close period | everything | period checked, then posted | balanced, no double posting |
| Sales, purchases, quotations, shipments | documents and their payments | create, fulfil, pay, cancel, return | stock, GL, balances | partial failure, repeated fulfilment | paid amount equals payments |
| Payments and balances (`services/payment_service.py`, `models/customer.py`, `models/supplier.py`) | receipts, allocations, balances | create, allocate, refund, delete | sales, GL, cheques | accumulators under NOWAIT locks | balance equals the documents |
| Online store and NOWPayments | orders, coupons, payment intents | checkout, notification, expiry | stock, sales | duplicated and reordered notifications | paid once, coupon within its limit |
| Platform fees, subscriptions | fee rows | accrue, collect | sales, scheduler | job running twice | one fee per sale or period |
| FX revaluation, bank reconciliation, payroll, depreciation | run rows, matches | run, reverse, match | GL | a run repeated or half done | one posting per period |
| Import jobs, webhooks, Celery tasks, backups | job rows, deliveries | claim, run, resume, retry | all | two workers, a crash in between | each row imported once |
| Tenancy, users, AI assistant, reports, CRM, UI | | | | none of a concurrent kind | not modelled |

`PROJECT.json` lists the components with the reason for each one left out, and the
hazards, each at the line where it bites.

## 3. Plan

Done, in this order:

1. `IdempotencyLedger`, `PosSession`, `ExactlyOnce`: the till, its concurrency, its
   ledger; refinement to an abstract promise; proofs of types and safety.
2. `Stock`, `Shelves`, `Transfers`: shelves, product total, two-leg transfers and the
   document that asks for them; refinement; proofs of safety, of the refinement and of
   what a completed document means.
3. `Cheques`: the life of a cheque against its journal, its party's cached balance and
   the receipt it settles; proofs of every property.
4. `Journal`: posting, reversal, approval, period closing and the documents that post;
   proofs of every property.
5. `Numbers`: sequence rows and journal numbers inside the transactions that need them;
   proofs of every safety property.
6. `StoreOrders`: shop orders between staff, coupon, sales page and payment gateway;
   proofs of every property.
7. `SupplierAccount`: a supplier's two totals under purchases and payments; proofs of
   every property.
8. `Register`: shifts, override tokens, parked carts; proofs of every property.
9. `Payroll`: salaries, branch runs, advances; proofs of every property.
10. `Sums`: what a sum over a finite set is, on which the proofs about the journal, the
    advances, the supplier's totals and the goods of a document rest.

Every invariant and action property that a run checks now has a proof. Worth doing next,
in this order: an abstract account that `SupplierAccount` refines for requests that do
not overlap; the customer's balance accumulator (locked with NOWAIT) under ordinary
sales, as `SupplierAccount` does for suppliers; valuation (moving average cost) of a
product over `Stock`; depreciation runs, whose guard is one unlocked check; several
products per transfer.

## 4. The till: `PosSession`, `IdempotencyLedger`, `ExactlyOnce`

`PosSession` is one cashier's sessions: the rows of `pos_sessions` (`session`), the row
locks (`lock`), the row locks of the tenant that requests meet at (`shared`: the "books",
which are the latest journal row and the sequence of payments, and the number of "returns"),
the cash payments on their sales (`sale`), one sold line and its returns (`returned`,
`returns`), and the requests (`job` what is asked, `pc`, `mem` the ORM's
copy, `resp` the answer). `IdempotencyLedger` is instantiated for the keys
(`ledger`, and `claim` for an uncommitted insert). A request runs

| code | actions |
|---|---|
| guards in front of the transaction, e.g. `api_session_open`, `_get_open_session` | `Arrive` (`OpenGuard`, `CheckoutGuard`, `RefundGuard`, `CloseReplay`) |
| `_get_open_session_locked`, `_get_closable_session_locked`, `get_paused_session_locked` | `LockOpen`, `LockPaused` |
| `_idempotency_begin` | `LedgerLookup`, `LedgerInsert` |
| `generate_number` (latest row `FOR UPDATE`, then the unique constraint) | `OpenNumber`, `OpenLockLatest`, `RefundNumber`, `RefundInsert` |
| the quantity check of a return, after it is inserted | `RefundCheck` |
| its entries and the number of its payment, before it updates the session | `RefundPost` |
| the writes, `complete()` and the commit | `OpenWrite`, `CheckoutWrite`, `PayInWrite`, `PayOutWrite`, `PauseWrite`, `ResumeWrite`, `RefundWrite`, `CloseWrite` |
| a receipt allocated to a POS sale at the office | `Receipt` |
| any exception, a lost worker | `Fail` |
| PostgreSQL's deadlock detection (external) | `Abort` (`WaitsFor`, `Circle`, `Deadlocked`) |
| the TTL of a key | `Age`, via `KeyAges` |

`drawer`, `refunded`, `office` and `execs` are history variables: they record cash that
really moved and who executed a key; no action reads them in a guard, except that the
count entered at a close is the cash in the drawer.

Modelling decisions worth knowing:

* A session's id and its number are the same thing: rows are never deleted.
* `generate_number` for sessions and returns takes its legacy path. Two requests that
  read the same latest row collide at the unique constraint; in an open the retry runs
  in a transaction PostgreSQL has already aborted, so the request fails.
* A cash return reads the session without a lock, and the ORM does not refresh that
  copy later; the counter it writes is that copy's value plus the refund.
* A cash return takes the books (the payment's sequence row, then the latest journal row)
  before its `UPDATE` waits for the session; a checkout, a pay-in, a pay-out and a close
  with a difference hold the session and then wait for the books. These requests do wait
  in a circle. The books are one lock, since every such transaction holds them to its
  commit and nothing here tells the two rows apart; requests that take them in their last
  step need them free but do not hold them for others to see.
* A checkout has one cash tender. Split and card tenders, permissions, tokens,
  registers and terminals are left out; whatever they refuse is covered by `Fail`.
* An `in_progress` ledger row is never visible to others, since it is inserted and
  completed in one transaction; the branch of the lookup that handles it is kept.
* A key ages only when no request with that key is in flight: the TTL is a day.
* `MaxSession` bounds the rows. With the jobs chosen the bound is never reached, so it
  cuts off no behaviour.

## 5. Stock: `Stock`, `Shelves`, `Transfers`

`Stock` is one product: the quantity per warehouse (`shelf`, rows that exist in
`stocked`), the sum of movements (`moved`), `products.current_stock` (`total`), the
row locks, and the requests. `create_movement` is the sequence `LockShelf` or `NoShelf`
(the row under `FOR UPDATE NOWAIT`, or none to lock) - `SumShelves` (flush and
`_sync_current_stock`) - `WriteTotal` (the savepoint of a second movement flushes the
product) or `Commit`. `transfer_stock` runs it twice, `-qty` at the source, `+qty` at
the destination, after `CheckSource`; `adjust_stock` and the exchange API run it once,
a "set" after `ReadForSet`. `Reconcile` is the `reconcile-stock` command. `GiveUp` is a
lock refused three times, `Abort` PostgreSQL's victim of a deadlock, `Fail` the rest.

* NOWAIT attempts that fail change nothing, so only the last one is a step.
* The insert of a missing stock row waits for another transaction's insert of the same
  key, and the `UPDATE` of the product waits for its row: these two can form a circle,
  which only PostgreSQL's deadlock detection breaks (`WaitsFor`, `Deadlocked`, external).
* `current_stock` is written only where the ORM finds it changed, a second reason, next
  to the unlocked sum, why `total` drifts.
* The product has no valuation rows. They appear with the first purchase and add NOWAIT
  locks that are taken before those of the shelves; cost is not modelled.
* Movements are recorded as the sum per warehouse, not one by one.

`Transfers` extends `Stock` with one document (`doc`), its row lock and a count of its
deliveries. `ReadTransfer` is the unlocked read and the guard; `WriteStatus` the
`UPDATE` of approve, ship and cancel; `ConfirmReceive` the flush that locks the
document, after which the actions of `Stock` move the goods; `CompleteTransfer` is
conjoined to them and completes the document in the transaction that moves the goods.
The document has one line, received in full. It starts in any state that can be reached
before goods move.

`Shelves` and `ExactlyOnce` are the abstract specifications: what a caller is promised,
with no locks or transactions.

## 6. The other modules

In these a request is two or three steps, a read and a write, because that is how the code
locks: nothing is locked when the guards are evaluated, and the first statement of the
write waits for the row it changes and holds it to the commit. `req` is what a worker
serves and what it has read, `served` counts requests up to `Limit` (`work`, `asked`,
`MaxRequests` in `SupplierAccount`; `run`, `runs`, `MaxRuns` in `Payroll`), and history
variables (`raced`, `lost`, `late`, `overtaken`, `overlapped`, `slipped`, `edited`, ...)
record that a named hazard came about. The properties are stated unless that hazard
occurred, so they say two things: the result is right without it, and this hazard is the
*only* way to a wrong result. No action reads a history variable.

**`Cheques`** (`services/cheque_service.py` behind `routes/cheques.py`). `EnterReceipt`,
`EnterPayment`, `EnterExpense`, `EnterOnPage` create a cheque the five ways the code has
(`kind`). `Read` is the route's unlocked load and its check of the status; `Serve` one of
`Deposit`, `Clear`, `Bounce`, `Cancel`, `Edit`, `Delete`, `Restore` and so on, each a
whole handler. `book` holds what was posted to the clearing account, the party, the bank
and exchange differences, `cached` the party's cached balance, `doc` and `part` the linked
document and the sale payments allocated from it.

**`Journal`** (`services/gl_posting.py`, `gl_service.py`, `advanced_journal_manager.py`,
`routes/expenses.py`, sales, returns, purchases, fees). `journal` is the sequence of
entries with reference, type, month, status, mark `rev`, and the entry it mirrors (`of`);
`closed` the closed months. A document is posted, edited, cancelled or paid; a clerk
creates a draft, approves or deletes it, and reverses entries (no route posts a draft that
was approved, so only documents, mirrors and closings reach the books); months close and
reopen; a year-end entry is computed and posted. Two months suffice: a closed year and now.
Whatever posts looks up the month first and writes later: the two are one request's two
steps for a new document or draft (its month is checked as it begins) and `CheckMonth`, then
the write, for an edit, a payment and the advanced reversal, which read their document or
entry before. `raced` of an entry is set only by a reversal that read it *without* its mark
and found it marked when it wrote; a second reversal that could see the mark is no race, and
the guard `MayReverse` alone stops it. The fiscal year is the calendar year
(`fiscal_year_start` is 1).

**`Numbers`** (`models/document_sequence.py`, `document_sequence_service.py`,
`gl_helpers.py:next_entry_number`). `row` are the committed counters, `lockOf` their
locks, `docs` and `entries` the numbers in use. A request takes the numbers of its plan
one after another (`Proceed`), restarts a counter that belongs to an earlier year, and
fails on a number already in use; `Tick` is the turn of the year. `updated_at`, which says
what year a counter belongs to, is written by the ORM and only with a row that changed: a
counter left at 2 is sent back to 1 and counted to 2 again, no `UPDATE` is sent, and the
row keeps its old year (`Stepped`, `Stuck`).

**`StoreOrders`** (`store_order_service.py`, `store_checkout_service.py`,
`store_coupon_service.py`, `webhook_service.py`, `routes/payment_vault.py`,
`routes/store.py`, `routes/sales.py`). Operators `Confirmed`, `Cancelled`, `PageCancelled`
say what confirming and the two cancellations do to an order: goods (`out`), charge
(`bal`), payment, fees, points. A notification is `Arrive` - `ReadOrder` - one of
`FinishedEarlier`, `FinishedConfirms`, `FinishedRefused`, `ExpiredCancels`,
`NothingToDo`; or `Duplicate`, if the payment id is in the filter's cache. The gateway
(external) may send `waiting`, `expired` and `finished` in any order and repeat each.

**`SupplierAccount`** (`models/supplier.py`, `purchase_service.py`, `payment_service.py`,
`routes/purchases.py`, `routes/payments.py`). `bought` and `paid` are the two totals of the
supplier's row, which the accumulators change under its lock and `cancel_purchase` writes
from an old copy; purchases are created on the page or by the wizard (`quick`), returned,
cancelled, deleted; payments are made, come back, wait as cheques, are deleted.

**`Register`** (shifts of `routes/pos.py`, `pos_override_service.py`,
`pos_cart_service.py`). `shift` are the shifts of one session, `rows` their cash movement
rows, `till` the cash that lies in the drawer. A sale reads the shift before it waits for
the session's lock, a movement after it, a refund and a reconciliation without one. The
cashier is honest: counts and starting cash are what is in the drawer. Carts: `Park`,
`Repark`, `ResumeCart`, `DeleteCart`, and voids of single lines authorised by a token.

**`Payroll`** (`services/payroll_service.py`, `routes/payroll.py`,
`ai_knowledge/actions/payroll_processing.py`). A run takes employees one after another
(`Process`, `Skip`) and commits or gives up; `slip` are the rows of a month, protected by
a unique index, `adv` the advances, written from an unlocked read. `Process` writes slip and
advances and then posts the entry: a line of nothing is refused
(`validate_gl_line_sides`), so only a salary that covers all that is due can be posted
(`Postable`), and a deduction in part never is. On the page a refused entry ends the run and
takes everything back; the assistant catches a `ValueError` and goes on, with slip and
advances still flushed (`GoesOn`; `posted` is FALSE). A run of a branch skips whoever was
paid and, unless the assistant was told their days, whoever is paid by the day (`LeftOut`).

## 7. What the runs check

Each run is one `.cfg`; its properties are commented in the modules.

| run | instance | states | shows |
|---|---|---|---|
| `PosSession_till` | 3 requests, 12 jobs, one key, fairness | 399,601 | counters agree with the drawer, the recomputed cash with the sales, no over-return, closing figures stand; at most one execution per key; refines `ExactlyOnce`; every request is answered, though they wait in circles |
| `Stock_moves` | 3 requests, 8 jobs, 3 warehouses, fairness | 237,901 | shelves equal movements, nothing oversold; refines `Shelves`; every request is answered |
| `Transfers_document` | 3 requests, 7 jobs, 3 warehouses, any document that has not moved goods | 103,275 | goods are exactly the deliveries; completed means delivered |
| `Cheques_life` | one cheque of any kind, two workers, four requests, two allocated sales | 190,456 | journal, linked document and cached balance follow the status; final statuses stay |
| `Journal_books` | one document of any kind, clerks, two months, two workers, four requests, five entries | 2,572,105 | every mark has one mirror; a document nets to its amount or to nothing; closed months are kept; a closed year is zero; posted entries stay |
| `Numbers_year` | three plans, two workers, three requests, one turn of the year, fairness | 102,068 | the next number is free unless the row is stuck or was numbered late; refusals have four causes; the journal has no gaps; every request is answered |
| `StoreOrders_web` | two orders, a coupon for one use, two workers, four requests | 267,738 | goods, charge and points stand with the order; paid orders stand; the coupon's count; finished payments are booked |
| `SupplierAccount_totals` | two purchases, two payments, two workers, seven requests | 1,111,142 | both totals match the documents; no purchase is paid twice |
| `Register_till` | two shifts, a token, two carts of three lines where one may be parked, six requests | 1,252,825 | honest counts balance; tokens are used once; voided lines stay out; the limit of carts |
| `Payroll_months` | an employee paid by the month, one by the day, two months, two advances, three runs | 1,959,312 | advances are collected exactly, slips without an entry included; one salary a month, and who left it without an entry; a branch run from the page pays everyone on a monthly salary or nobody |

`Journal_edited` expects a violation: an expense that is edited and then cancelled. The
edit reverses the old entry by a mirror under the same reference, which is itself not
marked reversed; the cancellation, documented as reversing the entry
(`routes/expenses.py:481`), therefore reverses the mirror too, and the amount before the
edit returns to the expense account.

`Payroll_assistant` expects one as well: the assistant pays a salary in a month that is
closed, or in a branch without a cash account. The entry is refused after the slip was
flushed with its status "paid" and the advances were reduced; the assistant notes the error,
goes on and commits. `payroll_service.py:346` says that raising rolls the payroll
transaction back, and does where nobody catches it.

Other disagreements between the code and what it says of itself, met while modelling.
Each is a named exception of a property, or a guard of the model, and has no run:

* Till: a cash return and a checkout or cash movement on one session wait for each other,
  until the database aborts one of them; two cash returns at once lose one refund from the
  counter; a receipt taken at
  the office is counted as drawer cash at the close; two concurrent opens can both
  succeed; a closed shift is never reached, because `api_shift_close` looks up an open one
  and demands a reconciled one (`routes/pos.py:1451`).
* Closing a paused session answers 404 although `_get_closable_session_locked`
  (`routes/pos.py:270`) means to allow it; the retry of an open that succeeded is refused,
  not replayed (`routes/pos.py:1122`); so is that of a close sent while the first one
  commits (`routes/pos.py:1263`).
* An override token for the drawer or a voided line can be used by two requests at once;
  one for a sale or a movement is protected by the session's lock.
* Stock: movements on two warehouses leave a product total that is not their sum, and
  `reconcile-stock --commit` commits nothing. Two concurrent receives of a transfer move the
  goods twice; a cancel or ship writes over whatever the status has become.
* Cheques: cancelling an incoming cheque does not restore the customer's cached balance;
  a purged cheque leaves its journal entries; a final status can be overwritten by a
  request that read the earlier one.
* Documents: `routes/cheques.py:243` and `graphql_service.py:163` ask for a number without
  the tenant and raise. A request dated before the turn of the year sends a sequence
  back to two. A sequence that gave exactly one number in the old year gives 0001 to *every*
  request of the new one, and all but the first are refused: the restarted counter is what
  was loaded, so the row is not written and stays in the old year
  (`document_sequence.py:67`, `:94`), though `document_sequence_service.py:137` has the lock
  there against duplicate numbers and nothing raced.
* Shop: the sales page credits the customer of a shop order that was never charged, and
  leaves points and coupon; a notification of another status within a day of the first
  one is dropped as a duplicate, because the filter compares the payment id alone.
* Suppliers: a cancellation can overwrite the total of a purchase made meanwhile; the
  purchase wizard never adds to it; deleting a refund restores the paid total twice.
* Payroll: an employee whose advances leave nothing to be paid cannot be paid at all, and
  stops the run of a branch from the page, although `payroll_service.py:217` works out a
  deduction in part; the assistant leaves such a slip unposted.
* Year-end: with a `fiscal_year_start` other than January the closing entry is dated at
  the first instant of the following month (`gl_service.py:1955`); this is not modelled.
  An account on its other side (more returns than sales) is doubled rather than cleared,
  since the closing line takes `abs()` of the balance, where the docstring
  (`gl_service.py:2009`) says that it zeroes the accounts.

Why the bounds are enough to be interesting. A lost update needs two writers and a
stale read needs a reader beside them; a close after both makes three, and so does a key
that two requests use and a third reuses: the till's run has three requests that may each
ask anything, and its safety properties are proved for any number.
Amounts are chosen so that no two different combinations of movements give the same sum.
Two units were sold and each return takes one, so that a third return is one too many.
In `Stock`, three requests over three shelves cover two movements on one shelf, transfers
in both directions between two shelves, a shelf without a row, an overdraft shelf and
the edge of what is available. `Transfers` starts in any state of the document before
goods move, so three requests cover every pair of operations that meet at each point of a
lifecycle and a third beside them. In the modules of section 6 a hazard is two requests
that overlap, so two workers are served at once, and `Limit` gives room to bring a
document into each state first: four requests reach the end of a cheque's or an order's
life with an overlap at any point of it; a purchase with two payments and their return
needs seven; a salary advance spans two months and is disturbed by a third run. One
run is enough for the violation of `Payroll_assistant`. One
document, cheque or token is enough where two share nothing; orders share the coupon and
purchases the supplier's totals, so there are two of each. `MaxEntry`, `MaxSession`,
`MaxShift`, `MaxClose`, `MaxYear` bound rows, and `Largest` is the padding of journal
numbers, small enough to be passed. Requests, documents and workers are interchangeable,
so runs without liveness use `SYMMETRY`.

Fairness is weak fairness on the steps of a request that has started (`FairSpec` of
`PosSession` and `Numbers`, `FairStockSpec` of `Stock`): the worker thread keeps running,
PostgreSQL grants a lock that is free and aborts a victim of a deadlock. No request has
to arrive, nothing has to fail, no key has to expire and no year has to turn. Weak
fairness is enough: a lock once free is taken by one of finitely many requests, each of
which then releases it. The other runs assume no fairness.

`CHECK_DEADLOCK` stays on everywhere: the modules have an explicit stuttering step for
"all requests are done".

## 8. What is proved

TLAPS proves the following for every value of the constants, from the assumptions named
in the modules: `JobsAssumption`, `NoneAssumption` and `SizeAssumption` of `PosSession`,
`JobsAssumption`, `WarehouseAssumption` and `SupplyAssumption` of `Stock`,
`DocumentAssumption`, `ChequeAssumption`, `JournalAssumption`, `RegisterAssumption`,
`PayrollAssumption`, `StoreAssumption`, `NumbersAssumption`, `SupplierAssumption`. They say
that constants have their types and amounts are positive where the code demands it; that
the names standing for "nothing there" (`None`, `Nobody`, "nobody", "none", "manual",
"closing") are no request, worker, employee, purchase or document; that there are finitely
many carts, months, advances, purchases and payments, so that a total over them exists;
that a transfer moves a positive quantity between two warehouses; and that a request takes
at most one number of a sequence, as the plans of the code do. `DocumentAssumption` fixes
what `Transfers` is about: one document with one line, beside any exchanges; stock counts
and direct transfers run beside it too, but of other warehouses, since what they do to
the document's two shelves depends on when they run. The bounds
(`Limit`, `MaxRuns`, `MaxRequests`), the number of workers, documents and requests and all
amounts are arbitrary.

There are eight modules of proofs: `PosSessionProofs`, `StockProofs` (with `Transfers`),
`RegisterProofs`, `StoreOrdersProofs`, `NumbersProofs`, `JournalProofs`, `AccountsProofs`
(the accounts of parties: `Cheques`, `Payroll`, `SupplierAccount`, which share no
variable) and `Sums`, which the others cite.

**Sums.** The models add up amounts with `SumFunctionOnSet`, a fold defined by a choice
of a function on the subsets of a finite set. `FoldExists` shows by a least
counterexample that there is such a function, `FoldsAgree` that it does not depend on
the set it was built for, `SumUnfolds` what it computes one element at a time. Induction
over a finite set is stated for a *set* of subsets instead of a predicate
(`SetInduction`), which is first order. From it come the lemmas the other modules cite:
`SumTakes` (any element may be taken out first), `SumSame`, `SumUnion`, `SumChanges` (one
value changes), `SumOpposite` (a sum of mirrors), `SumPlus`, `SumWhere`, `SumNatural`.

**The till.** `PosSessionProofs` proves `TypeCorrect`: `Spec => []TypeOK`.
It then proves that `SafetyInv` is inductive, the conjunction of `TypeOK`, the
safety invariants and `IndInv`, and derives one theorem per property: `CountersAccount`,
`RecomputationAgrees`, `RefundsUndercount`, `ReturnsCovered`, `ExecutedOnce`,
`LedgerTruthful`, `NothingLeftBehind`, and for steps `StatusMoves`, `ClosedStands`,
`DifferenceExplained`. None of the invariants is inductive alone; `IndInv` supplies

* `LocksHeld`: whoever holds a lock is at work, and between its `SELECT ... FOR UPDATE`
  and its commit a request holds the lock, the row has the status it asked for and its
  copy *is* the row. This is why a read-modify-write of a locked counter is right while
  the unlocked one of a return is not; for that one `RefundsBehind` says its copy can only
  be behind.
* `ChecksFresh`: a return keeps the number it inserted until it ends, so the quantity it
  checked after that stays right. The unlocked check is made safe by the unique number: a
  return that overtakes takes the number, and the late one fails before it checks.
* `KeysHeld`: who works on a keyed write owns the key, which nobody completed.
* `UnopenedBlank`, `Places`: rows past the last number are blank, and which kind of
  request can be at which step.

The action properties follow from the invariant by `RowStep`: the only ways a step can
change a session row. `RefundsUndercount`, `LedgerTruthful`, `NothingLeftBehind`,
`StatusMoves` and `DifferenceExplained` are proved without a run of their own: they say
what remains true of the counter of refunds, of ledger rows, of locks, of statuses, and
what the difference at a close consists of. `PromiseKept` is the refinement
`Spec => KeepsPromise`: under the mapping of `PosSession`, the commit of a keyed write is
the abstract execution, an answer from the ledger a replay, a refusal or failure a
refusal, and every other step stutters.

**The stock.** `StockProofs` proves `StockSafety`: `StockInv` is inductive, and from it
`ShelvesTrue`, `NothingOversold`, `LocksReturned`. The argument is `PendingFresh`: a value
a request is about to write was checked under the rule for negative stock and, while the
request holds the row, equals the committed value plus the request's change; a row not
yet inserted is the only one not locked, and no row means no stock (`AbsentEmpty`).
`Legs` says which rows a request has written at each step. A commit therefore adds its
change to what is there, which is what the movements record. Every step is classified
by `StepForms` into six shapes, and each part of `StockInv` is proved per shape.
`ServiceKeepsShelves` proves the refinement: a commit is `Do`, every other ending
`Refuse`, and the rest stutters. For the documents of `Transfers`, which run the same
requests on behalf of a document, `DocumentStep` splits a step into the document's part
and the shelves' part (`PaperStep` for those that touch no shelf), so `StockInv` carries
over (`DocumentsKeepShelves`) and `CompletedIsDelivered` follows. `GoodsAreDelivered` says
more: besides the exchanges, the shelves are what the deliveries make of them. Its
invariant is `GoodsInv`, the property with the finiteness of what it adds up; a commit
of the second leg moves the document's quantity between the two shelves and counts one
delivery (`Delivery`), that of an exchange adds one term to the sum of its shelf
(`Exchange`), and `StockInv` supplies that what is written is what is there plus the
change.

**Cheques.** `AccountsProofs` proves that `ChequeInv` is inductive and from it the four
properties of the run. Its core says, for a cheque not written over a stale read, what
`book`, `doc`, `part` and `cached` are as a function of the status alone, and that a request
holds a status the cheque once had; a handler then posts the difference between two such
functions. Staleness is absorbed by `raced`, which a write sets exactly when what it read
is no longer there.

**Shop orders.** `StoreOrdersProofs` proves all four properties. `Whole` ties goods,
charge, payment and points of one order to its status and is preserved by the operators
`Confirmed`, `Cancelled`, `PageCancelled` as plain lemmas about records (`ConfirmedWhole`,
`CancelledWhole`, `PageWhole`). `Knows` is what a request may rely on between its steps:
whoever places an order is alone with it; whoever cancels it holds its row, so the payment
it found missing is still missing (why `PaidStands` holds against a racing notification);
the sales page's read is right unless the order has changed. The coupon's count is a
cardinality, raised by `PlaceStep` and lowered by `FinishStep`.

**Register.** `RegisterProofs` proves `TypesHold`, that an honest count balances
(`CountsBalance`), that a locked token is used once (`TokenOnce`), that voided lines stay
out (`VoidedStaysOut`) and that the limit of carts holds (`LimitKept`), each with the named
exceptions. The invariant of the first accounts for the drawer: what lies in it is what
each open shift expects plus the cash taken before it and the movements that went past.

**Numbers.** `NumbersProofs` proves `NumbersSafe`: `IInv` is inductive, and from it
`NextNumberFree`, `RefusalsExplained` and `JournalGapless`. Its core is `Good`: in the
year a row was last written, its counter is above every number of that year, unless it was
once numbered late; and if there is a number of a later year, the row is stuck and the
number is the first. `StepGood` shows that taking a number keeps a row good, `GivesNew`
that the number a good row gives is new unless it is stuck. A request that wrote a row
holds its lock (`Owned`), so the row it commits is good for all committed documents and
its own; the others lose nothing (`OwnStep`, `CommitFacts`). The journal needs only that a
chosen number follows one the request sees (`OnJournal`), since entries are never deleted.

**Journal.** `JournalProofs` proves `Types` inductive first (`LedgerTypes`), with what a
request in hand may still rely on of what it read without a lock (`Good`): the month it
checked was open, or has been closed since (`closings` has moved on); the entry it loaded
is still there, since the journal only grows. Every change of the journal is then one of
the few of `Step`: a fresh entry, mirrors of some entries with their marks, both at once,
a change of status. Each property has an invariant of its own, proved per shape:

* `Paired`: marked entries and mirrors belong to each other, and an entry has a second
  mirror only if the request that made it had read it without its mark (`EntriesMirrored`);
  `Good` says that a mark a request has read is still there;
* `AllLawful`: an entry in a closed month has one of the reasons of the property
  (`MonthsKept`);
* `AllBooks`: for each document, what its entries come to while it stands, once it is
  cancelled and, which the property does not say, what its *unreversed* entries come to.
  Cancelling appends the mirror of each of these, so `SumOpposite` gives the amount that
  goes (`DocumentsBalance`). A document edited, raced on or touched by a clerk is left
  out, as in the property, and never comes back in;
* `YearsClosed`: a closing entry took off what stood in the year *before it*; entries
  posted later in the journal do not change that sum (`YearCloses`).

`EntriesStay` is the action property, from `Kept`: what no step changes of an entry.

**Payroll.** `AccountsProofs` proves `PaySafety`, the shape of slips and runs with the
entries in the journal against the slips (one for each that was posted, and only the
assistant leaves one unposted), and for a run from the page that every employee on a
monthly salary is to do, done or paid already; from it `PaidOnce` and `BranchPaidWhole`.
`AdvancesAreCollected` needs `CollectInv` besides: a run's deductions are `Sound` (they
add up to what is taken off, and an advance drawn on has since been repaid at least what
was read) and the books are `Square` with the advances of everyone whose runs did not
overlap: the claim is what the open advances have left and what slips without an entry
took off. When such a run commits, each advance is as it was read, so slips and advances
change by the same sum, and the claim by that sum or not at all as the slip is posted or
not.

**The supplier's account.** `AccountKept` proves `AccountInv`: `Rows`, well formed
documents with what a request knows of the one it read, and the three properties, read
off the tables of purchases and payments (`BoughtAt`, `PaidAt`, `OverAt`). Given `Rows` the
properties are inductive; the work is in the totals. `NetIsWorth` writes the paid total
as one sum of what each payment is worth, `PurchaseChanges`, `PaymentChanges` and
`BalanceChanges` say how a total moves when one row does, and a lemma per handler
(`Creates`, `Cancels`, `GivesBack`, `Writes`, `Settles`, `Unpays`, `Pays`, ...) which row it
moves and by how much. Two facts are not obvious: a cancellation and a return floor the
total at zero, and that floor is never met while every purchase is one the total follows,
since the total then covers the purchase (`PurchaseTotal(B) >= Stands(B, p)`); and only a
purchase of the wizard that moved no stock is ever deleted (`Rows`), so deletion never
concerns the purchase total. From it `BoughtAgrees`, `PaidAgrees` and `NobodyOverpaid`.

**Only model-checked.** The three `EveryRequestAnswered`, since liveness under fairness
is out of the prover's reach; and the violations of `Journal_edited` and
`Payroll_assistant`, which are counterexamples. Every other property of a run is a theorem.

## 9. What is not modelled

Components with status `not_modelled` in `PROJECT.json` say why. Within the modelled ones:
prices, discounts, taxes, currencies and rounding; which accounts an entry uses beyond
revenue, expense and the rest; the content of the journal entries posted by the till and
the stock (that a request waits for the books is modelled at the till); the fee of a
bounced cheque; valuation, batches and serial numbers; several products per transfer or
sale; two cashiers (their sessions share only the document numbers); several tenants,
since every query is filtered by tenant; crashes of PostgreSQL itself, whose effect is
that of a failing request (`Fail`, `GiveUp`). FX revaluation, the background import and
the closing of shifts are left out because, as the code stands, they cannot do what they
are for: the revaluation's search for its previous run never finds it, the import decodes
the name of the uploaded file in place of its content, and a shift is looked up as open
and then required to be reconciled. `process_termination`, `settle_eosb` and `settle_fees`
have no caller. Most of the repository's lines are of other kinds: translations,
migrations, templates, reports, the assistant's texts and heuristics.
