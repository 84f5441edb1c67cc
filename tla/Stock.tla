------------------------------- MODULE Stock -------------------------------
(***************************************************************************)
(* services/stock_service.py: the quantities of one product, shelf by      *)
(* shelf, under concurrent requests.  Every request is one database        *)
(* transaction (READ COMMITTED): it locks the stock row of a warehouse     *)
(* with FOR UPDATE NOWAIT, adds its movement, sums the rows it can see -   *)
(* its own pending ones and those others have committed - and writes the   *)
(* sum to products.current_stock.                                          *)
(*                                                                         *)
(* The product has no valuation rows (none exist before the first          *)
(* purchase); they would only add NOWAIT locks in front of a transfer.     *)
(***************************************************************************)
EXTENDS Integers, Functions, Relation

CONSTANTS Request,
          None,
          Warehouse,
          Overdraft,   \* warehouses with allow_negative_inventory
          Supply,      \* units on each shelf at the start
          Jobs         \* what a request may ask: [kind, from, to, qty]

Moving   == {"transfer", "receive"}       \* transfer_stock
Counting == {"exchange", "set"}           \* adjust_stock
Paper    == {"create", "approve", "ship", "cancel"} \* no goods: module Transfers
Kinds    == Moving \union Counting \union Paper \union {"reconcile"}

\* Of a transfer document; "none" before it is created or read.
Status == {"none", "draft", "approved", "in_transit", "completed", "cancelled"}

Job == [kind : Kinds, from : Warehouse, to : Warehouse, qty : Int]

ASSUME JobsAssumption ==
    /\ Jobs \subseteq Job
    /\ \A j \in Jobs : j.kind \in Moving => j.from # j.to /\ j.qty > 0
ASSUME WarehouseAssumption ==
    None \notin Request /\ Overdraft \subseteq Warehouse
ASSUME SupplyAssumption == Supply \in [Warehouse -> Nat]

VARIABLES
  shelf,        \* product_warehouse_stock.quantity, 0 where there is no row
  stocked,      \* the warehouses that have a row
  moved,        \* sum of the stock movements of each warehouse
  total,        \* products.current_stock
  shelfLock,    \* row lock of a stock row, or the claim of its first insert
  productLock,  \* row lock of the product, taken by UPDATE
  job, pc, mem, view, resp

tables == <<shelf, stocked, moved, total>>
locks  == <<shelfLock, productLock>>
vars   == <<tables, locks, job, pc, mem, view, resp>>

---------------------------------------------------------------------------
\* The transaction's own writes: the change it works on, which leg of a transfer
\* that is, the stock rows it wrote and their values; the document status it read.
Mem == [qty : Int, leg : 1..2, mine : SUBSET Warehouse,
        level : [Warehouse -> Int], status : Status]

NoMem == [qty |-> 0, leg |-> 1, mine |-> {},
          level |-> [w \in Warehouse |-> 0], status |-> "none"]

\* Its view of the product: current_stock as the ORM has it, the sum to write.
View   == [loaded : Int, sum : Int]
NoView == [loaded |-> 0, sum |-> 0]

Active(r) == pc[r] \notin {"idle", "done"}

At(r) == IF mem[r].leg = 1 THEN job[r].from ELSE job[r].to

\* Mutant: every movement commits on its own.
AnyLeg(r) == TRUE

LastLeg(r) == job[r].kind \in Moving => mem[r].leg = 2

\* What the transaction's own queries see of the shelves.
Visible(r) == [w \in Warehouse |-> IF w \in mem[r].mine THEN mem[r].level[w]
                                                        ELSE shelf[w]]

\* The negative-stock rule of create_movement, at the shelf and at the product.
Covered(w, level) == level >= 0 \/ w \in Overdraft

\* The ORM writes current_stock only where the sum differs from what it has.
ProductChanged(r) == view[r].sum # view[r].loaded

\* All but the product's total, whose sums over the shelves TLC checks only.
RowTypes ==
    /\ shelf \in [Warehouse -> Int] /\ moved \in [Warehouse -> Int]
    /\ stocked \subseteq Warehouse
    /\ shelfLock \in [Warehouse -> Request \union {None}]
    /\ productLock \in Request \union {None}
    /\ job \in [Request -> Jobs]
    /\ pc \in [Request -> {"idle", "doc", "read", "lock", "sum", "flush", "done"}]
    /\ mem \in [Request -> Mem]
    /\ resp \in [Request -> {"none", "ok", "rejected", "busy", "error"}]

TypeOK ==
    /\ RowTypes
    /\ total \in Int /\ view \in [Request -> View]

StockInit ==
    /\ shelf = Supply /\ moved = Supply
    /\ stocked = {w \in Warehouse : Supply[w] > 0}
    /\ total = SumFunction(Supply)
    /\ shelfLock = [w \in Warehouse |-> None] /\ productLock = None
    /\ job \in [Request -> Jobs]
    /\ pc = [r \in Request |-> "idle"]
    /\ mem = [r \in Request |-> NoMem] /\ view = [r \in Request |-> NoView]
    /\ resp = [r \in Request |-> "none"]

---------------------------------------------------------------------------
Go(r, label) == pc' = [pc EXCEPT ![r] = label]

\* Mutant: the product row stays locked.
ReleaseShelves(r) ==
    /\ shelfLock' = [w \in Warehouse |-> IF shelfLock[w] = r THEN None
                                                             ELSE shelfLock[w]]
    /\ UNCHANGED productLock

\* The transaction ends and its row locks are released.
Release(r) ==
    /\ shelfLock' = [w \in Warehouse |-> IF shelfLock[w] = r THEN None
                                                             ELSE shelfLock[w]]
    /\ productLock' = IF productLock = r THEN None ELSE productLock

End(r, answer) ==
    /\ resp' = [resp EXCEPT ![r] = answer]
    /\ mem' = [mem EXCEPT ![r] = NoMem] /\ view' = [view EXCEPT ![r] = NoView]
    /\ Go(r, "done")
    /\ Release(r)
    /\ UNCHANGED job

\* Rollback, or the commit of a transaction that wrote nothing.
EndUnwritten(r, answer) == End(r, answer) /\ UNCHANGED tables

\* transfer_stock makes two movements, -qty at the source and then +qty at the
\* destination; the others make one.
FirstChange(r) == IF job[r].kind \in Moving THEN -job[r].qty ELSE job[r].qty

\* The product row is loaded; the check or the recount reads the movements next.
Begin(r) ==
    /\ view' = [view EXCEPT ![r].loaded = total]
    /\ mem' = [mem EXCEPT ![r].qty = FirstChange(r)]
    /\ Go(r, IF job[r].kind = "exchange" THEN "lock" ELSE "read")
    /\ UNCHANGED <<tables, locks, job, resp>>

LoadProduct(r) ==
    /\ pc[r] = "idle" /\ job[r].kind \in {"exchange", "set", "transfer"}
    /\ Begin(r)

\* products.adjust_stock, "set": the change is computed from an unlocked read.
ReadForSet(r) ==
    /\ pc[r] = "read" /\ job[r].kind = "set"
    /\ mem' = [mem EXCEPT ![r].qty = job[r].qty - moved[job[r].from]]
    /\ Go(r, "lock")
    /\ UNCHANGED <<tables, locks, job, view, resp>>

\* transfer_stock: the source must have the goods, by its movements, unlocked.
CheckSource(r) ==
    /\ pc[r] = "read" /\ job[r].kind \in Moving
    /\ \/ /\ moved[job[r].from] < job[r].qty
          /\ EndUnwritten(r, "rejected")
       \/ /\ moved[job[r].from] >= job[r].qty
          /\ Go(r, "lock")
          /\ UNCHANGED <<tables, locks, job, mem, view, resp>>

Pend(r, w, level) ==
    mem' = [mem EXCEPT ![r].mine = @ \union {w}, ![r].level[w] = level]

\* Mutant: the row is read without waiting for its holder.
ShareShelf(r) ==
    LET w     == At(r)
        level == shelf[w] + mem[r].qty
    IN
    /\ pc[r] = "lock" /\ w \in stocked /\ Covered(w, level)
    /\ shelfLock' = [shelfLock EXCEPT ![w] = r]
    /\ Pend(r, w, level)
    /\ Go(r, "sum")
    /\ UNCHANGED <<tables, productLock, job, view, resp>>

\* Mutant: the level is not checked again under the lock.
LockUnchecked(r) ==
    LET w == At(r) IN
    /\ pc[r] = "lock" /\ w \in stocked /\ shelfLock[w] = None
    /\ shelfLock' = [shelfLock EXCEPT ![w] = r]
    /\ Pend(r, w, shelf[w] + mem[r].qty)
    /\ Go(r, "sum")
    /\ UNCHANGED <<tables, productLock, job, view, resp>>

\* create_movement: the stock row under FOR UPDATE NOWAIT.
LockShelf(r) ==
    LET w     == At(r)
        level == shelf[w] + mem[r].qty
    IN
    /\ pc[r] = "lock" /\ w \in stocked /\ shelfLock[w] = None
    /\ \/ /\ ~Covered(w, level)
          /\ EndUnwritten(r, "rejected")
       \/ /\ Covered(w, level)
          /\ shelfLock' = [shelfLock EXCEPT ![w] = r]
          /\ Pend(r, w, level)
          /\ Go(r, "sum")
          /\ UNCHANGED <<tables, productLock, job, view, resp>>

\* No row is visible, so nothing is locked; the row will be inserted.
NoShelf(r) ==
    LET w == At(r) IN
    /\ pc[r] = "lock" /\ w \notin stocked
    /\ \/ /\ ~Covered(w, mem[r].qty)
          /\ EndUnwritten(r, "rejected")
       \/ /\ Covered(w, mem[r].qty)
          /\ Pend(r, w, mem[r].qty)
          /\ Go(r, "sum")
          /\ UNCHANGED <<tables, locks, job, view, resp>>

\* _safe_for_update: three attempts, then the request fails.
GiveUp(r) ==
    /\ pc[r] = "lock" /\ At(r) \in stocked /\ shelfLock[At(r)] # None
    /\ EndUnwritten(r, "busy")

\* The pending rows are flushed - a new row waits for another uncommitted insert
\* of the same warehouse and fails when that one has committed - and
\* _sync_current_stock sums what is visible.
SumShelves(r) ==
    LET w   == At(r)
        sum == SumFunction(Visible(r))
    IN
    /\ pc[r] = "sum"
    /\ \/ /\ w \in stocked /\ shelfLock[w] # r
          /\ EndUnwritten(r, "error")
       \/ /\ w \in stocked \/ shelfLock[w] = None
          /\ w \in stocked => shelfLock[w] = r
          /\ \/ /\ ~Covered(w, sum)
                /\ EndUnwritten(r, "rejected")
             \/ /\ Covered(w, sum)
                /\ shelfLock' = [shelfLock EXCEPT ![w] = r]
                /\ view' = [view EXCEPT ![r].sum = sum]
                /\ Go(r, "flush")
                /\ UNCHANGED <<tables, productLock, job, mem, resp>>

\* UPDATE products waits for the row lock of the product.
ProductFree(r) == ProductChanged(r) => productLock \in {None, r}

\* The second movement of a transfer begins: its savepoint flushes the product.
WriteTotal(r) ==
    /\ pc[r] = "flush" /\ ~LastLeg(r) /\ ProductFree(r)
    /\ productLock' = IF ProductChanged(r) THEN r ELSE productLock
    /\ view' = [view EXCEPT ![r].loaded = view[r].sum]
    /\ mem' = [mem EXCEPT ![r].leg = 2, ![r].qty = job[r].qty]
    /\ Go(r, "lock")
    /\ UNCHANGED <<tables, shelfLock, job, resp>>

\* Movements, stock rows and the product's total commit together.
Commit(r) ==
    /\ pc[r] = "flush" /\ LastLeg(r) /\ ProductFree(r)
    /\ shelf' = Visible(r)
    /\ stocked' = stocked \union mem[r].mine
    /\ moved' = IF job[r].kind \in Moving
                THEN [moved EXCEPT ![job[r].from] = @ - job[r].qty,
                                   ![job[r].to] = @ + job[r].qty]
                ELSE [moved EXCEPT ![job[r].from] = @ + mem[r].qty]
    /\ total' = IF ProductChanged(r) \/ productLock = r THEN view[r].sum ELSE total
    /\ End(r, "ok")

\* The reconcile-stock command flushes its corrections and ends; nothing commits
\* them, with or without --commit.
Reconcile(r) ==
    /\ pc[r] = "idle" /\ job[r].kind = "reconcile"
    /\ EndUnwritten(r, "ok")

\* Any other exception, or the death of the worker.
Fail(r) == Active(r) /\ EndUnwritten(r, "error")

---------------------------------------------------------------------------
\* Requests that wait for each other; PostgreSQL aborts one of a circle.
WaitsFor(r, q) ==
    \/ pc[r] = "sum" /\ At(r) \notin stocked /\ shelfLock[At(r)] = q
    \/ pc[r] = "flush" /\ ProductChanged(r) /\ productLock = q /\ q # r

Waits == [e \in Request \X Request |-> WaitsFor(e[1], e[2])]

Deadlocked(r) == /\ \E q \in Request : WaitsFor(r, q)
                 /\ TransitiveClosure(Waits, Request)[<<r, r>>]

Abort(r) == Deadlocked(r) /\ EndUnwritten(r, "error")

Proceed(r) ==
    \/ ReadForSet(r) \/ CheckSource(r)
    \/ LockShelf(r) \/ NoShelf(r) \/ GiveUp(r)
    \/ SumShelves(r) \/ WriteTotal(r) \/ Commit(r)
    \/ Abort(r)

Finished == /\ \A r \in Request : pc[r] = "done"
            /\ UNCHANGED vars

StockNext ==
    \/ \E r \in Request : LoadProduct(r) \/ Proceed(r) \/ Reconcile(r) \/ Fail(r)
    \/ Finished

StockSpec == StockInit /\ [][StockNext]_vars

\* A worker that has started a request keeps running it; PostgreSQL grants
\* released locks and breaks deadlocks.
FairStockSpec ==
    StockSpec /\ \A r \in Request : WF_vars(Active(r) /\ Proceed(r))
---------------------------------------------------------------------------
(***************************************************************************)
(* Safety                                                                  *)
(***************************************************************************)

\* Stock rows and movements never drift apart, though one is an absolute value
\* computed by the ORM and the other a sum: create_movement's row lock, or the
\* unique index where the row does not exist yet, keeps every update.
ShelfMatchesMovements == \A w \in Warehouse : shelf[w] = moved[w]

\* "Stock cannot go negative": availability is checked on unlocked sums, by a
\* transfer twice over two shelves, yet no interleaving oversells a warehouse
\* that does not allow it.
NoNegativeShelf == \A w \in Warehouse \ Overdraft : shelf[w] >= 0

\* However a request ends - refused, busy, aborted, failed - it leaves no row
\* locked and no half-inserted stock row.
NothingHeldByFinished ==
    /\ \A w \in Warehouse : shelfLock[w] # None => Active(shelfLock[w])
    /\ productLock # None => Active(productLock)

---------------------------------------------------------------------------
(***************************************************************************)
(* What makes the invariants inductive: where a request can be, which rows *)
(* it has written there, and what its pending values still say.            *)
(***************************************************************************)

\* A warehouse without a stock row has no stock.
AbsentEmpty == \A w \in Warehouse \ stocked : shelf[w] = 0

\* The rows a request has written: one for each movement it has reached.
Legs ==
    \A r \in Request :
        /\ pc[r] \in {"idle", "doc", "read", "done"} =>
              mem[r].mine = {} /\ mem[r].leg = 1
        /\ pc[r] = "lock" => mem[r].mine = IF mem[r].leg = 1 THEN {} ELSE {job[r].from}
        /\ pc[r] \in {"sum", "flush"} =>
              mem[r].mine = IF mem[r].leg = 1 THEN {job[r].from}
                                              ELSE {job[r].from, job[r].to}
        /\ mem[r].leg = 2 => job[r].kind \in Moving
        /\ pc[r] \in {"read", "lock", "sum", "flush"} =>
              /\ job[r].kind \in Moving \union Counting
              /\ job[r].kind # "set" => mem[r].qty = IF mem[r].leg = 1 THEN FirstChange(r)
                                                                      ELSE job[r].qty
        /\ pc[r] # "done" => resp[r] = "none"

\* The change a request makes to a shelf it has written.
ChangeAt(r, w) == IF job[r].kind \in Moving
                  THEN IF w = job[r].from THEN -job[r].qty ELSE job[r].qty
                  ELSE mem[r].qty

\* A pending value was checked, and is the committed one plus the change while the
\* row is locked; only a row about to be inserted is not locked yet.
PendingFresh ==
    \A r \in Request : \A w \in mem[r].mine :
        /\ Covered(w, mem[r].level[w])
        /\ shelfLock[w] = r => mem[r].level[w] = shelf[w] + ChangeAt(r, w)
        /\ shelfLock[w] # r => /\ pc[r] = "sum" /\ w = At(r)
                               /\ mem[r].level[w] = ChangeAt(r, w)

StockInv == /\ RowTypes /\ ShelfMatchesMovements /\ NoNegativeShelf
            /\ NothingHeldByFinished /\ AbsentEmpty /\ Legs /\ PendingFresh

---------------------------------------------------------------------------
(***************************************************************************)
(* Refinement                                                              *)
(***************************************************************************)

How(r) == CASE job[r].kind \in Moving     -> "move"
            [] job[r].kind = "exchange"   -> "exchange"
            [] job[r].kind = "set"        -> "recount"
            [] OTHER                      -> "nothing"

Promise == INSTANCE Shelves WITH
    stock   <- shelf,
    asked   <- [r \in Request |-> [from |-> job[r].from, to |-> job[r].to,
                                   qty |-> job[r].qty, how |-> How(r)]],
    outcome <- [r \in Request |-> CASE resp[r] = "none" -> "pending"
                                     [] resp[r] = "ok"   -> "done"
                                     [] OTHER            -> "refused"]

\* With its NOWAIT locks, savepoints and rollbacks the service implements Shelves:
\* each request takes effect once and whole, or not at all.
KeepsShelves == Promise!Spec

---------------------------------------------------------------------------
(***************************************************************************)
(* Liveness                                                                *)
(***************************************************************************)

\* No request waits forever, although the product row is waited for while shelves
\* are held and first inserts wait for each other.
EveryRequestAnswered == \A r \in Request : Active(r) ~> pc[r] = "done"
=============================================================================
