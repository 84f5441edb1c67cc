----------------------------- MODULE PosSession -----------------------------
(***************************************************************************)
(* One cashier's POS cash sessions under concurrent HTTP requests: the     *)
(* routes of routes/pos.py over the rows of models/pos_session.py.  Every  *)
(* request is one worker thread with one database transaction (READ        *)
(* COMMITTED): what it writes becomes visible when it commits, what it     *)
(* reads without a lock may be stale when it writes.                       *)
(*                                                                         *)
(* drawer, refunded, office and execs are history variables: the cash that *)
(* is physically in the drawer, the cash handed back for returns, the cash *)
(* sale payments taken outside the drawer, and who executed each key.      *)
(***************************************************************************)
EXTENDS Integers

CONSTANTS Request,     \* requests in flight
          Key,         \* idempotency keys
          NoKey,       \* the request carries no Idempotency-Key
          None,        \* no request, no payload
          Jobs,        \* what a request may ask: [kind, key, amount, tender]
          MaxSession,  \* bound: session rows
          Float,       \* opening balance of the session open initially
          SoldUnits    \* units of the returned sale line, one currency unit each

Keyed   == {"open", "checkout", "refund", "close"}
Lockers == {"payIn", "payOut", "pause"}
Kinds   == Keyed \union Lockers \union {"resume", "receipt"}

Job == [kind : Kinds, key : Key \union {NoKey}, amount : Nat, tender : Nat]

ASSUME JobsAssumption == /\ Jobs \subseteq Job
                         /\ \A j \in Jobs : j.kind \notin Keyed => j.key = NoKey
ASSUME NoneAssumption == None \notin Request /\ NoKey \notin Key
ASSUME SizeAssumption == /\ MaxSession \in Nat /\ MaxSession >= 1
                         /\ Float \in Nat /\ SoldUnits \in Nat

Session == 1..MaxSession

VARIABLES
  session,   \* committed pos_sessions rows
  last,      \* number of the latest session row (0: none)
  lock,      \* row lock of a session: SELECT ... FOR UPDATE or UPDATE
  shared,    \* row locks of the tenant: its books (the latest journal row, the sequence
             \* of payments) and the number of the latest product return
  sale,      \* per session: [net, due] cash payments on its sales, unpaid rest
  returned,  \* units of the sold line returned so far
  returns,   \* number of the latest product return
  ledger, claim,
  job, pc, mem, resp,
  drawer, refunded, office, execs

L == INSTANCE IdempotencyLedger WITH Endpoint <- Keyed, Payload <- Jobs

tables == <<session, last, lock, shared, sale, returned, returns>>
ghosts == <<drawer, refunded, office>>
vars   == <<tables, ledger, claim, job, pc, mem, resp, ghosts, execs>>

---------------------------------------------------------------------------
Status == {"none", "open", "paused", "closed"}

Row == [status : Status, opening : Nat, cash : Nat, change : Nat,
        refunds : Nat, payIns : Nat, payOuts : Nat,
        expected : Int, counted : Int]

NoRow == [status |-> "none", opening |-> 0, cash |-> 0, change |-> 0,
          refunds |-> 0, payIns |-> 0, payOuts |-> 0,
          expected |-> 0, counted |-> 0]

NewRow(balance) == [NoRow EXCEPT !.status = "open", !.opening = balance]

\* PosSession.ALLOWED_TRANSITIONS
Allowed == {<<"open", "paused">>, <<"paused", "open">>,
            <<"open", "closed">>, <<"paused", "closed">>}

\* PosSession.compute_expected_balance
Expected(row) == row.opening + row.cash - row.change - row.refunds
                 + row.payIns - row.payOuts

\* A row that takes a tender and gives change; the cash payments and the unpaid
\* rest of a session's sales when more is paid or invoiced; a row closed with the
\* totals computed on the request's own copy of it.
Tendered(row, tender, change) ==
    [row EXCEPT !.cash = row.cash + tender, !.change = row.change + change]

Booked(acc, paid, rest) == [net |-> acc.net + paid, due |-> acc.due + rest]

Closed(row, mine, count) == [row EXCEPT !.status = "closed", !.cash = mine.cash,
                                        !.expected = Expected(mine),
                                        !.counted = count]

\* The request's ORM copy of a row, and a number read for a new document.
Mem   == [sid : 0..MaxSession, row : Row, number : Nat]
NoMem == [sid |-> 0, row |-> NoRow, number |-> 0]

Newest(s, st) == /\ session[s].status = st
                 /\ \A t \in Session : session[t].status = st => t <= s
HasStatus(st) == \E s \in Session : session[s].status = st

KeyOf(r) == job[r].key
SlotOf(r) == <<job[r].kind, job[r].key>>
IsKeyed(r) == job[r].key # NoKey
Active(r) == pc[r] \notin {"idle", "done"}

TypeOK ==
    /\ session \in [Session -> Row]
    /\ last \in 0..MaxSession
    /\ lock \in [Session -> Request \union {None}]
    /\ shared \in [{"books", "returns"} -> Request \union {None}]
    /\ sale \in [Session -> [net : Nat, due : Nat]]
    /\ returned \in Nat /\ returns \in Nat
    /\ L!LedgerType
    /\ job \in [Request -> Jobs]
    /\ pc \in [Request -> {"idle", "lock", "begin", "insert", "number",
                           "latest", "check", "post", "write", "done"}]
    /\ mem \in [Request -> Mem]
    /\ resp \in [Request -> {"none", "ok", "replay", "conflict", "mismatch",
                             "rejected", "error"}]
    /\ drawer \in [Session -> Int]
    /\ refunded \in [Session -> Nat] /\ office \in [Session -> Nat]
    /\ execs \in [L!Slot -> SUBSET Request]

Init ==
    /\ \E opened \in BOOLEAN :
         /\ last = IF opened THEN 1 ELSE 0
         /\ session = [s \in Session |-> IF opened /\ s = 1 THEN NewRow(Float)
                                                            ELSE NoRow]
         /\ drawer = [s \in Session |-> IF opened /\ s = 1 THEN Float ELSE 0]
    /\ lock = [s \in Session |-> None]
    /\ shared = [row \in {"books", "returns"} |-> None]
    /\ sale = [s \in Session |-> [net |-> 0, due |-> 0]]
    /\ returned = 0 /\ returns = 0
    /\ L!LedgerInit
    /\ job \in [Request -> Jobs]
    /\ pc = [r \in Request |-> "idle"]
    /\ mem = [r \in Request |-> NoMem]
    /\ resp = [r \in Request |-> "none"]
    /\ refunded = [s \in Session |-> 0] /\ office = [s \in Session |-> 0]
    /\ execs = [k \in L!Slot |-> {}]

---------------------------------------------------------------------------
\* How a transaction ends.

Go(r, label) == pc' = [pc EXCEPT ![r] = label]

Reply(r, answer) == /\ resp' = [resp EXCEPT ![r] = answer]
                    /\ mem' = [mem EXCEPT ![r] = NoMem]
                    /\ Go(r, "done")

Unlocked(rows, r) == [s \in DOMAIN rows |-> IF rows[s] = r THEN None ELSE rows[s]]

\* Nothing was written: rollback, or the commit of an early return.
EndUnwritten(r, answer) ==
    /\ Reply(r, answer)
    /\ lock' = Unlocked(lock, r) /\ shared' = Unlocked(shared, r)
    /\ L!Discard(r)
    /\ UNCHANGED <<session, last, sale, returned, returns, job, ghosts, execs>>

\* The business write and the completed ledger row commit together.
Commit(r) ==
    /\ Reply(r, "ok")
    /\ lock' = Unlocked(lock, r) /\ shared' = Unlocked(shared, r)
    /\ IF IsKeyed(r)
       THEN /\ L!Complete(SlotOf(r), job[r])
            /\ execs' = [execs EXCEPT ![SlotOf(r)] =
                           IF ledger[SlotOf(r)].aged THEN {r} ELSE @ \union {r}]
       ELSE UNCHANGED <<ledger, claim, execs>>
    /\ UNCHANGED job

---------------------------------------------------------------------------
\* What a request does before its transaction body.

\* api_session_open: the existing session is looked up without a lock.
OpenGuard(r) ==
    /\ pc[r] = "idle" /\ job[r].kind = "open"
    /\ \/ /\ HasStatus("open")
          /\ EndUnwritten(r, "rejected")
       \/ /\ ~HasStatus("open")
          /\ Go(r, "begin")
          /\ UNCHANGED <<tables, ledger, claim, job, mem, resp, ghosts, execs>>

\* api_checkout: the first, unlocked read of the session.
CheckoutGuard(r) ==
    /\ pc[r] = "idle" /\ job[r].kind = "checkout"
    /\ \/ /\ ~HasStatus("open")
          /\ EndUnwritten(r, "rejected")
       \/ /\ HasStatus("open")
          /\ Go(r, "lock")
          /\ UNCHANGED <<tables, ledger, claim, job, mem, resp, ghosts, execs>>

\* api_pos_return_create: the session row stays in memory, unlocked.
RefundGuard(r) ==
    /\ pc[r] = "idle" /\ job[r].kind = "refund"
    /\ \/ /\ ~HasStatus("open")
          /\ EndUnwritten(r, "rejected")
       \/ \E s \in Session :
            /\ Newest(s, "open")
            /\ mem' = [mem EXCEPT ![r].sid = s, ![r].row = session[s]]
            /\ Go(r, "begin")
            /\ UNCHANGED <<tables, ledger, claim, job, resp, ghosts, execs>>

\* api_session_close: the read-only replay check runs before the lock.
CloseReplay(r) ==
    /\ pc[r] = "idle" /\ job[r].kind = "close"
    /\ \/ /\ IsKeyed(r) /\ L!Mismatch(SlotOf(r), job[r])
          /\ EndUnwritten(r, "mismatch")
       \/ /\ IsKeyed(r) /\ L!InFlight(SlotOf(r), job[r])
          /\ EndUnwritten(r, "conflict")
       \/ /\ IsKeyed(r) /\ L!Replays(SlotOf(r), job[r])
          /\ EndUnwritten(r, "replay")
       \/ /\ IsKeyed(r) => ~L!Present(SlotOf(r))
          /\ Go(r, "lock")
          /\ UNCHANGED <<tables, ledger, claim, job, mem, resp, ghosts, execs>>

\* Mutant: get_active_session, the same query without FOR UPDATE.
ReadOpen(r) ==
    /\ pc[r] = "lock" \/ (pc[r] = "idle" /\ job[r].kind \in Lockers)
    /\ \/ ~HasStatus("open") /\ EndUnwritten(r, "rejected")
       \/ \E s \in Session :
            /\ Newest(s, "open")
            /\ mem' = [mem EXCEPT ![r].sid = s, ![r].row = session[s]]
            /\ Go(r, IF job[r].kind \in Lockers THEN "write" ELSE "begin")
            /\ UNCHANGED <<tables, ledger, claim, job, resp, ghosts, execs>>

\* get_active_session_locked: the newest open row, once its lock is free.
LockOpen(r) ==
    /\ pc[r] = "lock" \/ (pc[r] = "idle" /\ job[r].kind \in Lockers)
    /\ \/ /\ ~HasStatus("open")
          /\ EndUnwritten(r, "rejected")
       \/ \E s \in Session :
            /\ Newest(s, "open") /\ lock[s] = None
            /\ lock' = [lock EXCEPT ![s] = r]
            /\ mem' = [mem EXCEPT ![r].sid = s, ![r].row = session[s]]
            /\ Go(r, IF job[r].kind \in Lockers THEN "write" ELSE "begin")
            /\ UNCHANGED <<session, last, shared, sale, returned, returns, ledger,
                           claim, job, resp, ghosts, execs>>

\* get_paused_session_locked, called by api_session_resume.
LockPaused(r) ==
    /\ pc[r] = "idle" /\ job[r].kind = "resume"
    /\ \/ /\ ~HasStatus("paused")
          /\ EndUnwritten(r, "rejected")
       \/ \E s \in Session :
            /\ Newest(s, "paused") /\ lock[s] = None
            /\ lock' = [lock EXCEPT ![s] = r]
            /\ mem' = [mem EXCEPT ![r].sid = s, ![r].row = session[s]]
            /\ Go(r, "write")
            /\ UNCHANGED <<session, last, shared, sale, returned, returns, ledger,
                           claim, job, resp, ghosts, execs>>

---------------------------------------------------------------------------
\* The idempotency ledger inside the transaction: IdempotencyService.begin.

AfterLedger(r) == IF job[r].kind \in {"open", "refund"} THEN "number" ELSE "write"

LedgerLookup(r) ==
    /\ pc[r] = "begin"
    /\ \/ /\ IsKeyed(r) /\ L!Mismatch(SlotOf(r), job[r])
          /\ EndUnwritten(r, "mismatch")
       \/ /\ IsKeyed(r) /\ L!InFlight(SlotOf(r), job[r])
          /\ EndUnwritten(r, "conflict")
       \/ /\ IsKeyed(r) /\ L!Replays(SlotOf(r), job[r])
          /\ EndUnwritten(r, "replay")
       \/ /\ IsKeyed(r) => ~L!Present(SlotOf(r))
          /\ Go(r, IF IsKeyed(r) THEN "insert" ELSE AfterLedger(r))
          /\ UNCHANGED <<tables, ledger, claim, job, mem, resp, ghosts, execs>>

\* Mutant: the lookup alone decides, the unique constraint is missing.
InsertUnchecked(r) ==
    /\ pc[r] = "insert"
    /\ L!Insert(SlotOf(r), r)
    /\ Go(r, AfterLedger(r))
    /\ UNCHANGED <<tables, job, mem, resp, ghosts, execs>>

\* The flushed insert: unique violation (409) if the key was committed since.
LedgerInsert(r) ==
    /\ pc[r] = "insert"
    /\ L!CanInsert(SlotOf(r))
    /\ \/ /\ L!Present(SlotOf(r))
          /\ EndUnwritten(r, "conflict")
       \/ /\ ~L!Present(SlotOf(r))
          /\ L!Insert(SlotOf(r), r)
          /\ Go(r, AfterLedger(r))
          /\ UNCHANGED <<tables, job, mem, resp, ghosts, execs>>

---------------------------------------------------------------------------
\* The business writes.

\* generate_number for a session: the latest row is read, then locked.
OpenNumber(r) ==
    /\ pc[r] = "number" /\ job[r].kind = "open"
    /\ mem' = [mem EXCEPT ![r].number = last]
    /\ Go(r, IF last = 0 THEN "write" ELSE "latest")
    /\ UNCHANGED <<tables, ledger, claim, job, resp, ghosts, execs>>

OpenLockLatest(r) ==
    /\ pc[r] = "latest" /\ job[r].kind = "open"
    /\ lock[mem[r].number] = None
    /\ lock' = [lock EXCEPT ![mem[r].number] = r]
    /\ Go(r, "write")
    /\ UNCHANGED <<session, last, shared, sale, returned, returns, ledger, claim,
                   job, mem, resp, ghosts, execs>>

\* create_pos_session: a taken session number breaks the transaction, and
\* the retry of generate_number_and_save cannot run in it.
OpenWrite(r) ==
    /\ pc[r] = "write" /\ job[r].kind = "open"
    /\ \/ /\ last # mem[r].number \/ last = MaxSession
          /\ EndUnwritten(r, "error")
       \/ /\ last = mem[r].number /\ last < MaxSession
          /\ last' = last + 1
          /\ session' = [session EXCEPT ![last + 1] = NewRow(job[r].amount)]
          /\ drawer' = [drawer EXCEPT ![last + 1] = job[r].amount]
          /\ Commit(r)
          /\ UNCHANGED <<sale, returned, returns, refunded, office>>

\* Mutant: the sale payment is not capped at the invoice.
CheckoutUncapped(r) ==
    LET s == mem[r].sid
        change == IF job[r].tender > job[r].amount THEN job[r].tender - job[r].amount ELSE 0
    IN
    /\ pc[r] = "write" /\ job[r].kind = "checkout" /\ shared["books"] = None
    /\ session' = [session EXCEPT ![s] = Tendered(@, job[r].tender, change)]
    /\ sale' = [sale EXCEPT ![s] = Booked(@, job[r].tender, 0)]
    /\ drawer' = [drawer EXCEPT ![s] = @ + job[r].tender - change]
    /\ Commit(r)
    /\ UNCHANGED <<last, returned, returns, refunded, office>>

\* PosCheckoutService.checkout: the session counters are incremented in SQL,
\* the sale payment is capped at the invoice, the excess is given as change.
\* Like a pay-in and a close it waits for the books while it holds the session.
CheckoutWrite(r) ==
    LET s      == mem[r].sid
        total  == job[r].amount
        tender == job[r].tender
        paid   == IF tender > total THEN total ELSE tender
        change == tender - paid
    IN
    /\ pc[r] = "write" /\ job[r].kind = "checkout" /\ shared["books"] = None
    /\ session' = [session EXCEPT ![s] = Tendered(@, tender, change)]
    /\ sale' = [sale EXCEPT ![s] = Booked(@, paid, total - paid)]
    /\ drawer' = [drawer EXCEPT ![s] = @ + paid]
    /\ Commit(r)
    /\ UNCHANGED <<last, returned, returns, refunded, office>>

\* PosCashMovementService.create_movement: the new total is computed from the
\* row as read under the lock.
PayInWrite(r) ==
    LET s == mem[r].sid IN
    /\ pc[r] = "write" /\ job[r].kind = "payIn" /\ shared["books"] = None
    /\ session' = [session EXCEPT ![s].payIns = mem[r].row.payIns + job[r].amount]
    /\ drawer' = [drawer EXCEPT ![s] = @ + job[r].amount]
    /\ Commit(r)
    /\ UNCHANGED <<last, sale, returned, returns, refunded, office>>

PayOutWrite(r) ==
    LET s == mem[r].sid IN
    /\ pc[r] = "write" /\ job[r].kind = "payOut" /\ shared["books"] = None
    /\ session' = [session EXCEPT ![s].payOuts = mem[r].row.payOuts + job[r].amount]
    /\ drawer' = [drawer EXCEPT ![s] = @ - job[r].amount]
    /\ Commit(r)
    /\ UNCHANGED <<last, sale, returned, returns, refunded, office>>

\* PosSession.pause and resume
PauseWrite(r) ==
    /\ pc[r] = "write" /\ job[r].kind = "pause"
    /\ session' = [session EXCEPT ![mem[r].sid].status = "paused"]
    /\ Commit(r)
    /\ UNCHANGED <<last, sale, returned, returns, ghosts>>

ResumeWrite(r) ==
    /\ pc[r] = "write" /\ job[r].kind = "resume"
    /\ session' = [session EXCEPT ![mem[r].sid].status = "open"]
    /\ Commit(r)
    /\ UNCHANGED <<last, sale, returned, returns, ghosts>>

\* ReturnService.create_return: the latest return row is read, then locked, and the
\* return with the next number inserted.
RefundNumber(r) ==
    /\ pc[r] = "number" /\ job[r].kind = "refund"
    /\ mem' = [mem EXCEPT ![r].number = returns]
    /\ Go(r, "latest")
    /\ UNCHANGED <<tables, ledger, claim, job, resp, ghosts, execs>>

\* Mutant: the return number is not unique.
RefundUnnumbered(r) ==
    /\ pc[r] = "latest" /\ job[r].kind = "refund"
    /\ Go(r, "check")
    /\ UNCHANGED <<tables, ledger, claim, job, mem, resp, ghosts, execs>>

\* A waiter goes on with the row it picked before it waited; a number taken since
\* is a unique violation.
RefundInsert(r) ==
    /\ pc[r] = "latest" /\ job[r].kind = "refund"
    /\ shared["returns"] = None
    /\ \/ /\ returns # mem[r].number
          /\ EndUnwritten(r, IF IsKeyed(r) THEN "conflict" ELSE "error")
       \/ /\ returns = mem[r].number
          /\ shared' = [shared EXCEPT !["returns"] = r]
          /\ Go(r, "check")
          /\ UNCHANGED <<session, last, lock, sale, returned, returns, ledger, claim,
                         job, mem, resp, ghosts, execs>>

\* The returned quantity is checked after it.
RefundCheck(r) ==
    /\ pc[r] = "check"
    /\ \/ /\ returned + job[r].amount > SoldUnits
          /\ EndUnwritten(r, "error")
       \/ /\ returned + job[r].amount <= SoldUnits
          /\ Go(r, "post")
          /\ UNCHANGED <<tables, ledger, claim, job, mem, resp, ghosts, execs>>

\* The entries of the return and of the cash handed back, and the payment's number.
RefundPost(r) ==
    /\ pc[r] = "post" /\ shared["books"] = None
    /\ shared' = [shared EXCEPT !["books"] = r]
    /\ Go(r, "write")
    /\ UNCHANGED <<session, last, lock, sale, returned, returns, ledger, claim, job, mem,
                   resp, ghosts, execs>>

\* PosRmaService.create_pos_return with a cash refund: the counter is computed
\* from the session as read at the start of the request; the UPDATE waits for
\* the row lock with the books in hand.
RefundWrite(r) ==
    LET s == mem[r].sid IN
    /\ pc[r] = "write" /\ job[r].kind = "refund"
    /\ lock[s] = None
    /\ returns' = returns + 1
    /\ returned' = returned + job[r].amount
    /\ session' = [session EXCEPT ![s].refunds = mem[r].row.refunds + job[r].amount]
    /\ drawer' = [drawer EXCEPT ![s] = @ - job[r].amount]
    /\ refunded' = [refunded EXCEPT ![s] = @ + job[r].amount]
    /\ Commit(r)
    /\ UNCHANGED <<last, sale, office>>

\* close_pos_session: the cash total is recomputed from the payments on the
\* session's sales; the cashier counts the drawer, and a difference is posted.
Recomputed(r) == [mem[r].row EXCEPT !.cash = sale[mem[r].sid].net + mem[r].row.change]

Differs(r) == Expected(Recomputed(r)) # drawer[mem[r].sid]

CloseWrite(r) ==
    LET s == mem[r].sid IN
    /\ pc[r] = "write" /\ job[r].kind = "close"
    /\ Differs(r) => shared["books"] = None
    /\ session' = [session EXCEPT ![s] = Closed(@, Recomputed(r), drawer[s])]
    /\ Commit(r)
    /\ UNCHANGED <<last, sale, returned, returns, ghosts>>

\* PaymentService.create_receipt from a sale (routes/payments.py): a cash
\* payment on a POS sale, taken at the office, capped at the unpaid rest.
Receipt(r) ==
    /\ pc[r] = "idle" /\ job[r].kind = "receipt"
    /\ \/ /\ \A s \in Session : sale[s].due = 0
          /\ EndUnwritten(r, "rejected")
       \/ \E s \in Session :
            /\ sale[s].due > 0 /\ shared["books"] = None
            /\ LET paid == IF job[r].amount > sale[s].due THEN sale[s].due
                                                          ELSE job[r].amount
               IN /\ sale' = [sale EXCEPT ![s] = Booked(@, paid, -paid)]
                  /\ office' = [office EXCEPT ![s] = @ + paid]
            /\ Commit(r)
            /\ UNCHANGED <<session, last, returned, returns, drawer, refunded>>

---------------------------------------------------------------------------
\* Any exception in the body, or the death of the worker: rollback.
Fail(r) == Active(r) /\ EndUnwritten(r, "error")

\* What a request that holds something waits for.
WaitsFor(r, q) ==
    \/ pc[r] = "insert" /\ claim[SlotOf(r)] = q
    \/ pc[r] = "latest" /\ (IF job[r].kind = "open" THEN lock[mem[r].number]
                                                   ELSE shared["returns"]) = q
    \/ /\ shared["books"] = q
       /\ \/ pc[r] = "post"
          \/ pc[r] = "write" /\ \/ job[r].kind \in {"checkout", "payIn", "payOut"}
                                \/ job[r].kind = "close" /\ Differs(r)
    \/ pc[r] = "write" /\ job[r].kind = "refund" /\ lock[mem[r].sid] = q

\* Mutant: nobody looks for circles.
NoVictim(waiting) == FALSE

\* Every one of them waits for another and is waited for: nobody waits for two, so
\* they wait in circles.
Circle(waiting) == \A r \in waiting : /\ \E q \in waiting : WaitsFor(r, q)
                                      /\ \E q \in waiting : WaitsFor(q, r)

\* PostgreSQL aborts one request of a circle.
Deadlocked(r) == /\ \E q \in Request : WaitsFor(r, q)
                 /\ \E others \in SUBSET (Request \ {r}) : Circle(others \union {r})

Abort(r) == Deadlocked(r) /\ EndUnwritten(r, "error")

\* A completed key outlives IDEMPOTENCY_TTL.
KeyAges(k) ==
    /\ \A r \in Request : IsKeyed(r) /\ SlotOf(r) = k => ~Active(r)
    /\ L!Age(k)
    /\ UNCHANGED <<tables, job, pc, mem, resp, ghosts, execs>>

Arrive(r) == OpenGuard(r) \/ CheckoutGuard(r) \/ RefundGuard(r) \/ CloseReplay(r)

Proceed(r) ==
    \/ LockOpen(r) \/ LockPaused(r)
    \/ LedgerLookup(r) \/ LedgerInsert(r)
    \/ OpenNumber(r) \/ OpenLockLatest(r) \/ OpenWrite(r)
    \/ CheckoutWrite(r)
    \/ PayInWrite(r) \/ PayOutWrite(r)
    \/ PauseWrite(r) \/ ResumeWrite(r)
    \/ RefundNumber(r) \/ RefundInsert(r) \/ RefundCheck(r) \/ RefundPost(r)
    \/ RefundWrite(r)
    \/ CloseWrite(r)
    \/ Abort(r)

Finished == /\ \A r \in Request : pc[r] = "done"
            /\ UNCHANGED vars

Next == \/ \E r \in Request : Arrive(r) \/ Proceed(r) \/ Receipt(r) \/ Fail(r)
        \/ \E k \in L!Slot : KeyAges(k)
        \/ Finished

Spec == Init /\ [][Next]_vars

\* A worker that has started a request keeps running it; PostgreSQL grants a
\* released row lock to a waiter and ends a circle of waiting requests.
FairSpec == Spec /\ \A r \in Request : WF_vars(Active(r) /\ Proceed(r))

---------------------------------------------------------------------------
(***************************************************************************)
(* Safety                                                                  *)
(***************************************************************************)

Exists(s) == session[s].status # "none"
Live(s)   == session[s].status \in {"open", "paused"}

\* No counter update is lost while a session is live: opening balance, cash
\* tendered, change and pay-ins/outs on the row add up to what is in the drawer,
\* refunds put back (checkout's SQL increments against create_movement's
\* read-modify-write under the row lock).
CountersMatchDrawer ==
    \A s \in Session : Live(s) =>
        LET row == session[s] IN
        row.opening + row.cash - row.change + row.payIns - row.payOuts
            = drawer[s] + refunded[s]

\* What close_pos_session recomputes from the sale payments is what the
\* checkouts accumulated, plus only the payments taken outside the drawer.
RecomputedCashAgrees ==
    \A s \in Session : Live(s) =>
        sale[s].net = session[s].cash - session[s].change + office[s]

\* The refund counter of a session never exceeds the cash handed back.
RefundsNotOvercounted ==
    \A s \in Session : session[s].refunds <= refunded[s]

\* Concurrent returns never take back more than was sold: the quantity check
\* locks no line of the sale, it is saved by the return number given before it.
NoOverReturn == returned <= SoldUnits

\* Two requests with one key and endpoint never both execute in the lifetime of
\* the key, even when they run on two sessions or without a session lock.
AtMostOncePerKey ==
    \A k \in L!Slot : \A q, r \in execs[k] : q = r

\* A completed key in force has been executed, by a request with the payload
\* whose hash the ledger holds: what is replayed is what was asked.
LedgerTellsTruth ==
    \A k \in L!Slot : L!Present(k) => \E r \in execs[k] : job[r] = ledger[k].hash

\* A request that is over holds no row lock and no half-inserted key, whichever
\* way it ended (the "poisoned key" of api_pos_return_create's comment).
NothingHeldByFinished ==
    /\ \A s \in Session : lock[s] # None => Active(lock[s])
    /\ \A row \in DOMAIN shared : shared[row] # None => Active(shared[row])
    /\ \A k \in L!Slot : claim[k] # None => Active(claim[k])
    /\ \A k \in L!Slot : ledger[k].status # "in_progress"

---------------------------------------------------------------------------
(***************************************************************************)
(* What makes the invariants inductive: where a request can be, what it    *)
(* holds there, and what its copy of a row still says.                     *)
(***************************************************************************)

\* Rows past the last number were never written and no money refers to them.
UnopenedBlank ==
    \A s \in Session :
        /\ s > last <=> ~Exists(s)
        /\ s > last => /\ session[s] = NoRow /\ sale[s] = [net |-> 0, due |-> 0]
                       /\ refunded[s] = 0 /\ office[s] = 0

\* The steps each kind of request passes through.
Places ==
    \A r \in Request :
        /\ pc[r] = "lock" => job[r].kind \in {"checkout", "close"}
        /\ pc[r] \in {"begin", "insert"} => job[r].kind \in Keyed
        /\ pc[r] = "insert" => IsKeyed(r)
        /\ pc[r] = "number" => job[r].kind \in {"open", "refund"}
        /\ pc[r] = "latest" => job[r].kind \in {"open", "refund"}
        /\ pc[r] \in {"check", "post"} => job[r].kind = "refund"

\* Between its SELECT ... FOR UPDATE and its commit a request holds the row, the
\* row has the status that was asked for, and the request's copy is the row.
Holding(r) ==
    \/ job[r].kind \in {"checkout", "close"} /\ pc[r] \in {"begin", "insert", "write"}
    \/ job[r].kind \in Lockers \union {"resume"} /\ pc[r] = "write"

LocksHeld ==
    /\ \A r \in Request : Holding(r) =>
          /\ mem[r].sid \in Session /\ lock[mem[r].sid] = r
          /\ mem[r].row = session[mem[r].sid]
          /\ mem[r].row.status = IF job[r].kind = "resume" THEN "paused" ELSE "open"
    /\ \A s \in Session : lock[s] # None => Active(lock[s])
    /\ \A row \in DOMAIN shared : shared[row] # None => Active(shared[row])

\* A return works on an unlocked copy of a session row, whose refund counter may
\* be behind but not ahead of the cash handed back.
RefundsBehind ==
    \A r \in Request : job[r].kind = "refund" /\ Active(r) =>
        /\ mem[r].sid \in Session /\ Exists(mem[r].sid)
        /\ mem[r].row.refunds <= refunded[mem[r].sid]

\* A return keeps its number from the insert to its end, and while it does the
\* quantity it has checked stays right.
ChecksFresh ==
    \A r \in Request : job[r].kind = "refund" /\ pc[r] \in {"check", "post", "write"} =>
        /\ shared["returns"] = r
        /\ pc[r] # "check" => returned + job[r].amount <= SoldUnits

\* A keyed request that works on its business write owns its key, which nobody
\* completed, and nobody else owns it.
Working(r) == pc[r] \in {"number", "latest", "check", "post", "write"}

KeysHeld ==
    /\ \A r \in Request : IsKeyed(r) /\ Working(r) => claim[SlotOf(r)] = r
    /\ \A k \in L!Slot : claim[k] # None =>
          /\ IsKeyed(claim[k]) /\ SlotOf(claim[k]) = k /\ Working(claim[k])
          /\ ~L!Present(k)
    /\ \A k \in L!Slot :
          /\ ledger[k].status # "in_progress"
          /\ ledger[k].status = "absent" => execs[k] = {}

IndInv == /\ UnopenedBlank /\ Places /\ LocksHeld /\ RefundsBehind /\ ChecksFresh
          /\ KeysHeld

---------------------------------------------------------------------------
(***************************************************************************)
(* Action properties                                                       *)
(***************************************************************************)

\* A session only moves along ALLOWED_TRANSITIONS, whatever two requests do
\* between reading its status and writing it.
StatusMovesAllowed ==
    [][\A s \in Session :
          session'[s].status # session[s].status =>
             \/ session[s].status = "none" /\ session'[s].status = "open"
             \/ <<session[s].status, session'[s].status>> \in Allowed]_vars

\* The closing figures of a session stand: after the close nothing but the
\* refund counter changes on the row.
ClosedFiguresStand ==
    [][\A s \in Session :
          session[s].status = "closed" =>
             session'[s] = [session[s] EXCEPT !.refunds = session'[s].refunds]]_vars

\* When the drawer is counted right, the difference a close books as cash
\* over/short is exactly the sale payments taken outside the drawer and the
\* refunds the counter has missed; nothing else can cause one.
CloseDifferenceExplained ==
    [][\A s \in Session :
          Live(s) /\ session'[s].status = "closed" =>
             session'[s].expected - session'[s].counted
                = office[s] + (refunded[s] - session[s].refunds)]_vars

---------------------------------------------------------------------------
(***************************************************************************)
(* Refinement: with its ledger, its locks and its failures the code        *)
(* implements ExactlyOnce.                                                 *)
(***************************************************************************)

Told(r) == CASE resp[r] = "none"   -> "none"
             [] resp[r] = "ok"     -> "executed"
             [] resp[r] = "replay" -> "replayed"
             [] OTHER              -> "refused"

\* What each request asks, which request executed a key in force, what each was told.
NoSlot  == <<"none", NoKey>>

AskedOf == [r \in Request |-> [slot    |-> IF IsKeyed(r) THEN SlotOf(r) ELSE NoSlot,
                               payload |-> job[r]]]
DoneBy  == [k \in L!Slot |-> IF L!Present(k) THEN CHOOSE q \in execs[k] : TRUE ELSE None]
ToldTo  == [r \in Request |-> Told(r)]

Promise == INSTANCE ExactlyOnce WITH
    Slot <- L!Slot, asked <- AskedOf, doneBy <- DoneBy, answer <- ToldTo

\* The ledger as the routes use it keeps the promise of ExactlyOnce: at most one
\* execution per key in force, replays only of that execution.
KeepsPromise == Promise!Spec

---------------------------------------------------------------------------
(***************************************************************************)
(* Liveness                                                                *)
(***************************************************************************)

\* No request waits forever.  Requests do wait in a circle: a cash refund holds the
\* books and waits for its session, a checkout, a movement of cash or a close holds
\* the session and waits for the books (create_pos_return and create_movement); the
\* database ends one of them, and every lock of it is free for the other.
EveryRequestAnswered == \A r \in Request : Active(r) ~> pc[r] = "done"
=============================================================================
