----------------------------- MODULE StockProofs -----------------------------
(***************************************************************************)
(* Proofs about Stock, for every set of requests, warehouses and jobs:     *)
(* StockInv is an inductive invariant, and the service implements Shelves; *)
(* the documents of Transfers keep the invariant.                          *)
(***************************************************************************)
EXTENDS Transfers, Sums

Answer == {"none", "ok", "rejected", "busy", "error"}
Label  == {"idle", "doc", "read", "lock", "sum", "flush", "done"}

Step(r) == LoadProduct(r) \/ Proceed(r) \/ Reconcile(r) \/ Fail(r)

\* A request ends without a write, in any of the ways it can.
Refused(r) == /\ pc[r] # "done"
              /\ \E a \in Answer \ {"none", "ok"} : EndUnwritten(r, a)
Ends(r) == Refused(r) \/ Reconcile(r)

---------------------------------------------------------------------------
(***************************************************************************)
(* What one step does                                                      *)
(***************************************************************************)

\* What a request asks: a kind, a quantity, two shelves that differ in a transfer.
LEMMA JobFacts ==
  ASSUME job \in [Request -> Jobs], NEW r \in Request
  PROVE  /\ job[r].kind \in Kinds /\ job[r].qty \in Int
         /\ job[r].from \in Warehouse /\ job[r].to \in Warehouse
         /\ job[r].kind \in Moving => job[r].from # job[r].to /\ job[r].qty > 0
<1>1. job[r] \in Jobs /\ job[r] \in Job
  BY JobsAssumption
<1> QED
  BY <1>1, JobsAssumption DEF Job

\* A transaction's copy, and the shelf it is at.
LEMMA CopyFacts ==
  ASSUME RowTypes, NEW r \in Request
  PROVE  /\ mem[r] \in Mem /\ mem[r].qty \in Int /\ mem[r].leg \in 1..2
         /\ mem[r].mine \subseteq Warehouse
         /\ mem[r].level \in [Warehouse -> Int] /\ mem[r].status \in Status
         /\ At(r) \in Warehouse
<1>1. mem[r] \in Mem
  BY DEF RowTypes
<1>2. At(r) \in Warehouse
  BY JobFacts DEF At, RowTypes
<1> QED
  BY <1>1, <1>2 DEF Mem

\* NoMem is a well-typed copy.
LEMMA FreshCopy == NoMem \in Mem
<1>1. [w \in Warehouse |-> 0] \in [Warehouse -> Int] /\ "none" \in Status
  BY DEF Status
<1>2. 0 \in Int /\ 1 \in 1..2 /\ {} \in SUBSET Warehouse
  OBVIOUS
<1> QED
  BY <1>1, <1>2 DEF NoMem, Mem

\* A step that is no commit leaves the committed rows alone.
LEMMA OnlyCommits ==
  ASSUME NEW r \in Request, Step(r)
  PROVE  Commit(r) \/ UNCHANGED <<shelf, stocked, moved>>
<1>1. \A a : EndUnwritten(r, a) => UNCHANGED <<shelf, stocked, moved>>
  BY DEF EndUnwritten, tables
<1>2. CASE LoadProduct(r)
  BY <1>2 DEF LoadProduct, Begin, tables
<1>3. CASE ReadForSet(r) \/ CheckSource(r)
  BY <1>1, <1>3 DEF ReadForSet, CheckSource, tables
<1>4. CASE LockShelf(r) \/ NoShelf(r)
  BY <1>1, <1>4 DEF LockShelf, NoShelf, tables
<1>5. CASE GiveUp(r) \/ Abort(r) \/ Reconcile(r) \/ Fail(r)
  BY <1>1, <1>5 DEF GiveUp, Abort, Reconcile, Fail
<1>6. CASE SumShelves(r) \/ WriteTotal(r)
  BY <1>1, <1>6 DEF SumShelves, WriteTotal, tables
<1> QED
  BY <1>2, <1>3, <1>4, <1>5, <1>6 DEF Step, Proceed

\* How a request ends.
LEMMA EndFacts ==
  ASSUME RowTypes, NEW r \in Request, Ends(r) \/ Commit(r)
  PROVE  /\ pc' = [pc EXCEPT ![r] = "done"] /\ mem' = [mem EXCEPT ![r] = NoMem]
         /\ job' = job /\ Release(r)
         /\ \E a \in Answer : resp' = [resp EXCEPT ![r] = a]
<1>1. CASE Ends(r)
  BY <1>1 DEF Ends, Refused, Reconcile, EndUnwritten, End, Go, Answer
<1>2. CASE Commit(r)
  BY <1>2 DEF Commit, End, Go, Answer
<1> QED
  BY <1>1, <1>2

\* The steps that neither end nor commit, by what they do.
Starts(r) ==
    /\ pc[r] \in {"idle", "read"} /\ pc' \in {[pc EXCEPT ![r] = "read"], [pc EXCEPT ![r] = "lock"]}
    /\ \E n \in Int : mem' = [mem EXCEPT ![r].qty = n]
    /\ job[r].kind \in Moving \union Counting
    /\ job[r].kind # "set" =>
          mem'[r].qty = IF pc[r] = "idle" THEN FirstChange(r) ELSE mem[r].qty
    /\ UNCHANGED <<job, resp, shelfLock, productLock>>

Pends(r) ==
    LET w == At(r) IN
    /\ pc[r] = "lock" /\ Go(r, "sum")
    /\ UNCHANGED <<job, resp, productLock>>
    /\ \/ /\ w \in stocked /\ shelfLock[w] = None
          /\ shelfLock' = [shelfLock EXCEPT ![w] = r]
          /\ Pend(r, w, shelf[w] + mem[r].qty)
          /\ Covered(w, shelf[w] + mem[r].qty)
       \/ /\ w \notin stocked /\ UNCHANGED shelfLock
          /\ Pend(r, w, mem[r].qty)
          /\ Covered(w, mem[r].qty)

Claims(r) ==
    LET w == At(r) IN
    /\ pc[r] = "sum" /\ Go(r, "flush")
    /\ \/ w \in stocked /\ shelfLock[w] = r
       \/ w \notin stocked /\ shelfLock[w] = None
    /\ shelfLock' = [shelfLock EXCEPT ![w] = r]
    /\ UNCHANGED <<job, resp, productLock, mem>>

Turns(r) ==
    /\ pc[r] = "flush" /\ ~LastLeg(r) /\ Go(r, "lock")
    /\ mem' = [mem EXCEPT ![r].leg = 2, ![r].qty = job[r].qty]
    /\ productLock' \in {productLock, r}
    /\ UNCHANGED <<job, resp, shelfLock>>

\* Every step is one of these, an end or a commit.
LEMMA StepForms ==
  ASSUME RowTypes, Legs, NEW r \in Request, Step(r)
  PROVE  Starts(r) \/ Pends(r) \/ Claims(r) \/ Turns(r) \/ Ends(r) \/ Commit(r)
<1>1. \A a \in {"rejected", "busy", "error"} :
         pc[r] # "done" /\ EndUnwritten(r, a) => Ends(r)
  BY DEF Ends, Refused, Answer
<1>2. CASE LoadProduct(r)
  <2>1. FirstChange(r) \in Int
    BY JobFacts DEF FirstChange, RowTypes
  <2>2. Starts(r)
    BY <1>2, <2>1 DEF LoadProduct, Begin, Starts, Go, locks, RowTypes, Mem, Moving, Counting
  <2> QED
    BY <2>2
<1>3. CASE ReadForSet(r)
  <2>1. job[r].qty - moved[job[r].from] \in Int
    BY JobFacts DEF RowTypes
  <2>2. Starts(r)
    BY <1>3, <2>1 DEF ReadForSet, Starts, Go, locks, RowTypes, Counting
  <2> QED
    BY <2>2
<1>4. CASE CheckSource(r)
  <2>1. mem[r].qty \in Int /\ mem = [mem EXCEPT ![r].qty = mem[r].qty]
    BY CopyFacts DEF RowTypes, Mem
  <2> QED
    BY <1>1, <1>4, <2>1 DEF CheckSource, Starts, Go, locks
<1>5. CASE LockShelf(r)
  BY <1>1, <1>5 DEF LockShelf, Pends, locks
<1>6. CASE NoShelf(r)
  BY <1>1, <1>6 DEF NoShelf, Pends, locks
<1>7. CASE GiveUp(r) \/ Abort(r) \/ Reconcile(r) \/ Fail(r)
  <2>1. Deadlocked(r) => pc[r] # "done"
    BY DEF Deadlocked, WaitsFor
  <2> QED
    BY <1>1, <1>7, <2>1 DEF GiveUp, Abort, Ends, Fail, Active
<1>8. CASE SumShelves(r)
  BY <1>1, <1>8 DEF SumShelves, Claims
<1>9. CASE WriteTotal(r)
  BY <1>9 DEF WriteTotal, Turns
<1> QED
  BY <1>2, <1>3, <1>4, <1>5, <1>6, <1>7, <1>8, <1>9 DEF Step, Proceed

---------------------------------------------------------------------------
(***************************************************************************)
(* Each part of StockInv is preserved.                                     *)
(***************************************************************************)

\* A step of r does not move another request, and takes only free shelf locks.
LEMMA Others ==
  ASSUME RowTypes, Legs, NEW r \in Request, Step(r)
  PROVE  /\ job' = job
         /\ \A q \in Request : q # r => /\ pc'[q] = pc[q] /\ mem'[q] = mem[q]
                                        /\ resp'[q] = resp[q]
         /\ \A w \in Warehouse : /\ \/ shelfLock'[w] = shelfLock[w]
                                    \/ shelfLock[w] = None /\ shelfLock'[w] = r
                                    \/ shelfLock[w] = r /\ shelfLock'[w] = None
                                 /\ shelfLock'[w] = r => Active(r)'
         /\ productLock' = productLock \/ productLock' \in {r, None}
         /\ Active(r)' \/ productLock' # r
<1> DEFINE Goal ==
         /\ job' = job
         /\ \A q \in Request : q # r => /\ pc'[q] = pc[q] /\ mem'[q] = mem[q]
                                        /\ resp'[q] = resp[q]
         /\ \A w \in Warehouse : /\ \/ shelfLock'[w] = shelfLock[w]
                                    \/ shelfLock[w] = None /\ shelfLock'[w] = r
                                    \/ shelfLock[w] = r /\ shelfLock'[w] = None
                                 /\ shelfLock'[w] = r => Active(r)'
         /\ productLock' = productLock \/ productLock' \in {r, None}
         /\ Active(r)' \/ productLock' # r
<1>0. At(r) \in Warehouse
  BY CopyFacts
<1>1. CASE Ends(r) \/ Commit(r)
  <2>1. /\ pc' = [pc EXCEPT ![r] = "done"] /\ mem' = [mem EXCEPT ![r] = NoMem]
        /\ job' = job /\ Release(r)
        /\ \E a \in Answer : resp' = [resp EXCEPT ![r] = a]
    BY <1>1, EndFacts
  <2> QED
    BY <2>1, WarehouseAssumption DEF Release, RowTypes
<1>2. CASE Starts(r)
  BY <1>2 DEF Starts, RowTypes, Active
<1>3. CASE Pends(r)
  BY <1>0, <1>3 DEF Pends, Pend, Go, RowTypes, Active
<1>4. CASE Claims(r)
  BY <1>0, <1>4 DEF Claims, Go, RowTypes, Active
<1>5. CASE Turns(r)
  BY <1>5 DEF Turns, Go, RowTypes, Active
<1> QED
  BY <1>1, <1>2, <1>3, <1>4, <1>5, StepForms

\* The copy after a write to the shelf w, and what it holds.
LEMMA PendFacts ==
  ASSUME RowTypes, NEW r \in Request, NEW w \in Warehouse, NEW level \in Int,
         Pend(r, w, level)
  PROVE  /\ mem' \in [Request -> Mem]
         /\ mem'[r].mine = mem[r].mine \union {w}
         /\ mem'[r].level = [mem[r].level EXCEPT ![w] = level]
         /\ mem'[r].leg = mem[r].leg /\ mem'[r].qty = mem[r].qty
<1> DEFINE copy == [mem[r] EXCEPT !.mine = mem[r].mine \union {w},
                                  !.level = [mem[r].level EXCEPT ![w] = level]]
<1>1. mem \in [Request -> Mem] /\ mem[r] \in Mem
  BY DEF RowTypes
<1>2. mem' = [mem EXCEPT ![r] = copy]
  BY <1>1 DEF Pend, Mem
<1>3. [mem[r].level EXCEPT ![w] = level] \in [Warehouse -> Int]
  BY <1>1 DEF Mem
<1>4. copy \in Mem
  BY <1>1, <1>3 DEF Mem
<1>5. /\ copy.mine = mem[r].mine \union {w}
      /\ copy.level = [mem[r].level EXCEPT ![w] = level]
      /\ copy.leg = mem[r].leg /\ copy.qty = mem[r].qty
  BY <1>1 DEF Mem
<1> HIDE DEF copy
<1>6. mem' \in [Request -> Mem] /\ mem'[r] = copy
  BY <1>1, <1>2, <1>4
<1> QED
  BY <1>5, <1>6

\* The copy a second movement starts with is a copy.
LEMMA SecondCopy ==
  ASSUME NEW c \in Mem, NEW n \in Int
  PROVE  [c EXCEPT !.leg = 2, !.qty = n] \in Mem
<1> DEFINE turned == [c EXCEPT !.leg = 2]
<1>1. turned \in Mem
  BY DEF Mem
<1>2. [turned EXCEPT !.qty = n] \in Mem
  <2> HIDE DEF turned
  <2> QED
    BY <1>1 DEF Mem
<1> QED
  BY <1>2

\* RowTypes holds initially.
LEMMA TypesInit == StockInit => RowTypes
<1> SUFFICES ASSUME StockInit PROVE RowTypes
  OBVIOUS
<1>1. shelf \in [Warehouse -> Int] /\ moved \in [Warehouse -> Int]
  BY SupplyAssumption DEF StockInit
<1>2. mem \in [Request -> Mem]
  BY FreshCopy DEF StockInit
<1>3. /\ stocked \subseteq Warehouse
      /\ shelfLock \in [Warehouse -> Request \union {None}]
      /\ productLock \in Request \union {None} /\ job \in [Request -> Jobs]
  BY DEF StockInit
<1>4. /\ pc \in [Request -> {"idle", "doc", "read", "lock", "sum", "flush", "done"}]
      /\ resp \in [Request -> {"none", "ok", "rejected", "busy", "error"}]
  BY DEF StockInit
<1> QED
  BY <1>1, <1>2, <1>3, <1>4 DEF RowTypes

\* RowTypes is preserved by every step.
LEMMA TypesStep ==
  ASSUME RowTypes, Legs, NEW r \in Request, Step(r)
  PROVE  RowTypes'
<1>0. At(r) \in Warehouse /\ mem[r] \in Mem /\ shelf[At(r)] + mem[r].qty \in Int
      /\ mem[r].qty \in Int
  BY CopyFacts DEF RowTypes
<1>1. (shelf \in [Warehouse -> Int] /\ moved \in [Warehouse -> Int]
       /\ stocked \subseteq Warehouse)'
  <2>1. CASE Commit(r)
    <3>1. shelf' \in [Warehouse -> Int]
      BY <2>1, CopyFacts DEF Commit, Visible, RowTypes
    <3>2. moved' \in [Warehouse -> Int]
      BY <2>1, JobFacts, CopyFacts DEF Commit, RowTypes
    <3>3. stocked' \subseteq Warehouse
      BY <2>1, CopyFacts DEF Commit, RowTypes
    <3> QED
      BY <3>1, <3>2, <3>3
  <2>2. CASE UNCHANGED <<shelf, stocked, moved>>
    BY <2>2 DEF RowTypes
  <2> QED
    BY <2>1, <2>2, OnlyCommits
<1>2. (shelfLock \in [Warehouse -> Request \union {None}])'
  <2>1. CASE Ends(r) \/ Commit(r)
    BY <2>1, EndFacts DEF Release, RowTypes
  <2>2. CASE Starts(r) \/ Turns(r)
    BY <2>2 DEF Starts, Turns, RowTypes
  <2>3. CASE Pends(r) \/ Claims(r)
    BY <1>0, <2>3 DEF Pends, Claims, RowTypes
  <2> QED
    BY <2>1, <2>2, <2>3, StepForms
<1>3. (productLock \in Request \union {None})' /\ (job \in [Request -> Jobs])'
  BY Others DEF RowTypes
<1>4. (mem \in [Request -> Mem])'
  <2>1. CASE Ends(r) \/ Commit(r)
    BY <2>1, EndFacts, FreshCopy DEF RowTypes
  <2>2. CASE Starts(r)
    <3>1. PICK n \in Int : mem' = [mem EXCEPT ![r].qty = n]
      BY <2>2 DEF Starts
    <3> QED
      BY <1>0, <3>1 DEF RowTypes, Mem
  <2>3. CASE Pends(r)
    BY <1>0, <2>3, PendFacts DEF Pends
  <2>4. CASE Claims(r)
    BY <2>4 DEF Claims, RowTypes
  <2>5. CASE Turns(r)
    <3>1. job[r].qty \in Int /\ mem' = [mem EXCEPT ![r].leg = 2, ![r].qty = job[r].qty]
      BY <2>5, JobFacts DEF Turns, RowTypes
    <3>2. [mem[r] EXCEPT !.leg = 2, !.qty = job[r].qty] \in Mem
      BY <1>0, <3>1, SecondCopy
    <3>3. mem' = [mem EXCEPT ![r] = [mem[r] EXCEPT !.leg = 2, !.qty = job[r].qty]]
      BY <1>0, <3>1 DEF RowTypes, Mem
    <3> QED
      BY <3>2, <3>3 DEF RowTypes
  <2> QED
    BY <2>1, <2>2, <2>3, <2>4, <2>5, StepForms
<1>5. (pc \in [Request -> Label] /\ resp \in [Request -> Answer])'
  <2>1. CASE Ends(r) \/ Commit(r)
    BY <2>1, EndFacts DEF RowTypes, Label, Answer
  <2>2. CASE Starts(r) \/ Pends(r) \/ Claims(r) \/ Turns(r)
    BY <2>2 DEF Starts, Pends, Claims, Turns, Go, RowTypes, Label, Answer
  <2> QED
    BY <2>1, <2>2, StepForms
<1> QED
  BY <1>1, <1>2, <1>3, <1>4, <1>5 DEF RowTypes, Label, Answer

\* A commit changes the shelves the request has written, each by its change and all
\* of them under its locks.
LEMMA CommitFacts ==
  ASSUME StockInv, NEW r \in Request, Commit(r)
  PROVE  /\ \A w \in mem[r].mine :
               shelfLock[w] = r /\ shelf'[w] = shelf[w] + ChangeAt(r, w)
               /\ Covered(w, shelf'[w])
         /\ \A w \in Warehouse \ mem[r].mine : shelf'[w] = shelf[w]
         /\ mem[r].mine = IF job[r].kind \in Moving THEN {job[r].from, job[r].to}
                                                    ELSE {job[r].from}
         /\ \A w \in Warehouse : moved'[w] = IF w \in mem[r].mine
                                             THEN moved[w] + ChangeAt(r, w) ELSE moved[w]
<1>1. /\ pc[r] = "flush" /\ LastLeg(r) /\ shelf' = Visible(r)
      /\ mem[r].mine \subseteq Warehouse /\ mem[r].leg \in 1..2
  BY CopyFacts DEF Commit, StockInv
<1>2. mem[r].mine = IF job[r].kind \in Moving THEN {job[r].from, job[r].to}
                                              ELSE {job[r].from}
  <2>1. mem[r].mine = IF mem[r].leg = 1 THEN {job[r].from} ELSE {job[r].from, job[r].to}
    BY <1>1 DEF StockInv, Legs
  <2>2. mem[r].leg = 2 <=> job[r].kind \in Moving
    BY <1>1 DEF StockInv, Legs, LastLeg
  <2> QED
    BY <1>1, <2>1, <2>2
<1>3. ASSUME NEW w \in mem[r].mine
      PROVE  shelfLock[w] = r /\ shelf'[w] = shelf[w] + ChangeAt(r, w)
             /\ Covered(w, shelf'[w])
  <2>1. shelf'[w] = mem[r].level[w]
    BY <1>1 DEF Visible
  <2>2. shelfLock[w] = r
    BY <1>1 DEF StockInv, PendingFresh
  <2> QED
    BY <2>1, <2>2 DEF StockInv, PendingFresh
<1>4. \A w \in Warehouse \ mem[r].mine : shelf'[w] = shelf[w]
  BY <1>1 DEF Visible
<1>5. ASSUME NEW w \in Warehouse
      PROVE  moved'[w] = IF w \in mem[r].mine THEN moved[w] + ChangeAt(r, w) ELSE moved[w]
  <2>1. moved \in [Warehouse -> Int] /\ job[r].from \in Warehouse /\ job[r].to \in Warehouse
        /\ job[r].qty \in Int /\ mem[r].qty \in Int
    BY JobFacts, CopyFacts DEF StockInv, RowTypes
  <2>2. CASE job[r].kind \in Moving
    <3>1. moved' = [moved EXCEPT ![job[r].from] = @ - job[r].qty,
                                 ![job[r].to] = @ + job[r].qty]
      BY <2>2 DEF Commit
    <3>2. job[r].from # job[r].to
      BY <2>2, JobFacts DEF StockInv, RowTypes
    <3> QED
      BY <1>2, <2>1, <2>2, <3>1, <3>2 DEF ChangeAt
  <2>3. CASE job[r].kind \notin Moving
    <3>1. moved' = [moved EXCEPT ![job[r].from] = @ + mem[r].qty]
      BY <2>3 DEF Commit
    <3> QED
      BY <1>2, <2>1, <2>3, <3>1 DEF ChangeAt
  <2> QED
    BY <2>2, <2>3
<1> QED
  BY <1>2, <1>3, <1>4, <1>5

\* The committed rows stay true: shelves match movements, no shelf is oversold, and
\* a missing row means no stock.
LEMMA RowsStep ==
  ASSUME StockInv, NEW r \in Request, Step(r)
  PROVE  ShelfMatchesMovements' /\ NoNegativeShelf' /\ AbsentEmpty'
<1>1. CASE UNCHANGED <<shelf, stocked, moved>>
  BY <1>1 DEF StockInv, ShelfMatchesMovements, NoNegativeShelf, AbsentEmpty
<1>2. CASE Commit(r)
  <2>1. stocked' = stocked \union mem[r].mine
    BY <1>2 DEF Commit
  <2>2. ShelfMatchesMovements'
    <3>1. ASSUME NEW w \in Warehouse PROVE shelf'[w] = moved'[w]
      <4>1. shelf[w] = moved[w]
        BY DEF StockInv, ShelfMatchesMovements
      <4>2. CASE w \in mem[r].mine
        <5>1. shelf'[w] = shelf[w] + ChangeAt(r, w)
          BY <1>2, <4>2, CommitFacts
        <5>2. moved'[w] = moved[w] + ChangeAt(r, w)
          BY <1>2, <4>2, CommitFacts
        <5> QED
          BY <4>1, <5>1, <5>2
      <4>3. CASE w \notin mem[r].mine
        BY <1>2, <4>1, <4>3, CommitFacts
      <4> QED
        BY <4>2, <4>3
    <3> QED
      BY <3>1 DEF ShelfMatchesMovements
  <2>3. NoNegativeShelf'
    BY <1>2, CommitFacts DEF StockInv, NoNegativeShelf, Covered
  <2>4. AbsentEmpty'
    BY <1>2, <2>1, CommitFacts DEF StockInv, AbsentEmpty
  <2> QED
    BY <2>2, <2>3, <2>4
<1> QED
  BY <1>1, <1>2, OnlyCommits

\* A request that has ended holds no lock.
LEMMA LocksStep ==
  ASSUME StockInv, NEW r \in Request, Step(r)
  PROVE  NothingHeldByFinished'
<1>1. RowTypes /\ Legs /\ NothingHeldByFinished
  BY DEF StockInv
<1>2. ASSUME NEW w \in Warehouse, shelfLock'[w] # None
      PROVE  pc'[shelfLock'[w]] \notin {"idle", "done"}
  <2>1. CASE shelfLock'[w] = r
    BY <1>1, <2>1, Others DEF Active
  <2>2. CASE shelfLock'[w] # r
    <3>1. shelfLock'[w] = shelfLock[w] /\ shelfLock[w] \in Request
      BY <1>1, <1>2, <2>2, Others DEF RowTypes
    <3>2. pc[shelfLock[w]] \notin {"idle", "done"}
      BY <1>1, <1>2, <3>1 DEF NothingHeldByFinished, Active
    <3> QED
      BY <1>1, <2>2, <3>1, <3>2, Others
  <2> QED
    BY <2>1, <2>2
<1>3. ASSUME productLock' # None PROVE pc'[productLock'] \notin {"idle", "done"}
  <2>1. CASE productLock' = r
    BY <1>1, <2>1, Others DEF Active
  <2>2. CASE productLock' # r
    <3>1. productLock' = productLock /\ productLock \in Request
      BY <1>1, <1>3, <2>2, Others DEF RowTypes
    <3>2. pc[productLock] \notin {"idle", "done"}
      BY <1>1, <1>3, <3>1 DEF NothingHeldByFinished, Active
    <3> QED
      BY <1>1, <2>2, <3>1, <3>2, Others
  <2> QED
    BY <2>1, <2>2
<1> QED
  BY <1>2, <1>3 DEF NothingHeldByFinished, Active

\* A step changes what the next one of the same request needs in step.
LEMMA LegsStep ==
  ASSUME RowTypes, Legs, NEW r \in Request, Step(r)
  PROVE  Legs'
<1> DEFINE LegsOf(q) ==
      /\ pc[q] \in {"idle", "doc", "read", "done"} => mem[q].mine = {} /\ mem[q].leg = 1
      /\ pc[q] = "lock" => mem[q].mine = IF mem[q].leg = 1 THEN {} ELSE {job[q].from}
      /\ pc[q] \in {"sum", "flush"} =>
            mem[q].mine = IF mem[q].leg = 1 THEN {job[q].from}
                                            ELSE {job[q].from, job[q].to}
      /\ mem[q].leg = 2 => job[q].kind \in Moving
      /\ pc[q] \in {"read", "lock", "sum", "flush"} =>
            /\ job[q].kind \in Moving \union Counting
            /\ job[q].kind # "set" => mem[q].qty = IF mem[q].leg = 1 THEN FirstChange(q)
                                                                    ELSE job[q].qty
      /\ pc[q] # "done" => resp[q] = "none"
<1>1. \A q \in Request : LegsOf(q)
  BY DEF Legs
<1>2. ASSUME NEW q \in Request, q # r PROVE LegsOf(q)'
  <2>1. pc'[q] = pc[q] /\ mem'[q] = mem[q] /\ resp'[q] = resp[q] /\ job'[q] = job[q]
    BY <1>2, Others
  <2> QED
    BY <1>1, <2>1 DEF FirstChange
<1>3. LegsOf(r)'
  <2>0. /\ mem \in [Request -> Mem] /\ pc \in [Request -> Label] /\ LegsOf(r)
        /\ mem[r] \in Mem /\ job' = job
    BY <1>1, Others, CopyFacts DEF RowTypes, Label
  <2>1. CASE Ends(r) \/ Commit(r)
    <3>1. pc'[r] = "done" /\ mem'[r] = NoMem
      BY <2>0, <2>1, EndFacts
    <3> QED
      BY <3>1 DEF NoMem
  <2>2. CASE Starts(r)
    <3>1. /\ pc[r] \in {"idle", "read"} /\ pc'[r] \in {"read", "lock"} /\ resp' = resp
          /\ mem'[r].mine = mem[r].mine /\ mem'[r].leg = mem[r].leg
          /\ job[r].kind \in Moving \union Counting
          /\ job[r].kind # "set" =>
                mem'[r].qty = IF pc[r] = "idle" THEN FirstChange(r) ELSE mem[r].qty
      BY <2>0, <2>2 DEF Starts, Mem
    <3> QED
      BY <2>0, <3>1 DEF FirstChange
  <2>3. CASE Pends(r)
    <3>1. \E level \in Int : Pend(r, At(r), level)
      BY <2>3, CopyFacts DEF Pends, RowTypes
    <3>2. /\ pc[r] = "lock" /\ pc'[r] = "sum" /\ resp' = resp
          /\ mem'[r].mine = mem[r].mine \union {At(r)}
          /\ mem'[r].leg = mem[r].leg /\ mem'[r].qty = mem[r].qty
      BY <2>0, <2>3, <3>1, PendFacts, CopyFacts DEF Pends, Go
    <3> QED
      BY <2>0, <3>2 DEF At, Mem, FirstChange
  <2>4. CASE Claims(r)
    BY <2>0, <2>4 DEF Claims, Go, FirstChange
  <2>5. CASE Turns(r)
    <3>1. /\ pc[r] = "flush" /\ pc'[r] = "lock" /\ job[r].kind \in Moving
          /\ mem[r].leg = 1 /\ resp' = resp
      BY <2>0, <2>5 DEF Turns, Go, LastLeg, Mem
    <3>2. mem'[r].mine = mem[r].mine /\ mem'[r].leg = 2 /\ mem'[r].qty = job[r].qty
      BY <2>0, <2>5 DEF Turns, Mem
    <3> QED
      BY <2>0, <3>1, <3>2
  <2> QED
    BY <2>1, <2>2, <2>3, <2>4, <2>5, StepForms
<1>4. \A q \in Request : LegsOf(q)'
  BY <1>2, <1>3
<1> QED
  BY <1>4 DEF Legs

\* The change at the shelf a request is at is the one it works on.
LEMMA ChangeHere ==
  ASSUME RowTypes, Legs, NEW r \in Request, pc[r] \in {"lock", "sum", "flush"}
  PROVE  ChangeAt(r, At(r)) = mem[r].qty
<1>1. mem[r].leg \in 1..2
  BY CopyFacts
<1> QED
  BY <1>1, JobFacts DEF Legs, ChangeAt, At, RowTypes, FirstChange, Moving, Counting

\* Another request's step does not spoil pending values.
LEMMA FreshOthers ==
  ASSUME StockInv, NEW r \in Request, Step(r), NEW q \in Request, q # r,
         NEW w \in mem[q].mine
  PROVE  /\ mem'[q] = mem[q] /\ pc'[q] = pc[q] /\ job'[q] = job[q]
         /\ Covered(w, mem[q].level[w])
         /\ shelfLock'[w] = q => mem[q].level[w] = shelf'[w] + ChangeAt(q, w)
         /\ shelfLock'[w] # q => /\ pc[q] = "sum" /\ w = At(q)
                                /\ mem[q].level[w] = ChangeAt(q, w)
<1>0. RowTypes /\ Legs /\ PendingFresh /\ w \in Warehouse /\ q # None
  BY CopyFacts, WarehouseAssumption DEF StockInv
<1>1. mem'[q] = mem[q] /\ pc'[q] = pc[q] /\ job'[q] = job[q]
  BY <1>0, Others
<1>2. shelfLock'[w] = q <=> shelfLock[w] = q
  BY <1>0, Others
<1>3. shelfLock[w] = q => shelf'[w] = shelf[w]
  <2>1. CASE UNCHANGED <<shelf, stocked, moved>>
    BY <2>1
  <2>2. CASE Commit(r)
    BY <1>0, <2>2, CommitFacts
  <2> QED
    BY <2>1, <2>2, OnlyCommits
<1> QED
  BY <1>0, <1>1, <1>2, <1>3 DEF PendingFresh

\* Nor does its own: a value is pending under the lock, or claimed where no row and
\* so no stock is.
LEMMA FreshOwn ==
  ASSUME StockInv, NEW r \in Request, Step(r), NEW w \in mem'[r].mine
  PROVE  /\ Covered(w, mem'[r].level[w])
         /\ shelfLock'[w] = r => mem'[r].level[w] = shelf'[w] + ChangeAt(r, w)'
         /\ shelfLock'[w] # r => /\ pc'[r] = "sum" /\ w = At(r)'
                                /\ mem'[r].level[w] = ChangeAt(r, w)'
<1> DEFINE Goal ==
         /\ Covered(w, mem'[r].level[w])
         /\ shelfLock'[w] = r => mem'[r].level[w] = shelf'[w] + ChangeAt(r, w)'
         /\ shelfLock'[w] # r => /\ pc'[r] = "sum" /\ w = At(r)'
                                /\ mem'[r].level[w] = ChangeAt(r, w)'
<1>0. /\ RowTypes /\ Legs /\ PendingFresh /\ AbsentEmpty /\ r # None
      /\ mem[r] \in Mem /\ mem \in [Request -> Mem] /\ At(r) \in Warehouse
      /\ mem[r].qty \in Int /\ mem[r].leg \in 1..2 /\ job' = job
      /\ mem[r].mine \subseteq Warehouse /\ pc \in [Request -> Label]
      /\ shelfLock \in [Warehouse -> Request \union {None}]
      /\ mem[r].level \in [Warehouse -> Int] /\ shelf \in [Warehouse -> Int]
  BY CopyFacts, Others, WarehouseAssumption DEF StockInv, RowTypes, Label
<1>1. CASE Ends(r) \/ Commit(r)
  <2>1. mem'[r].mine = {}
    BY <1>0, <1>1, EndFacts DEF NoMem
  <2> QED
    BY <2>1
<1>2. CASE Starts(r)
  <2>1. mem'[r].mine = mem[r].mine /\ pc[r] \in {"idle", "read"}
    BY <1>0, <1>2 DEF Starts, Mem
  <2> QED
    BY <1>0, <2>1 DEF Legs
<1>3. ASSUME pc[r] # "flush" PROVE UNCHANGED <<shelf, stocked, moved>>
  BY <1>3, OnlyCommits DEF Commit
<1>4. CASE Pends(r)
  <2>1. pc[r] = "lock" /\ pc'[r] = "sum" /\ shelf' = shelf
    BY <1>0, <1>3, <1>4 DEF Pends, Go
  <2>2. ChangeAt(r, At(r)) = mem[r].qty
    BY <1>0, <2>1, ChangeHere
  <2>3. PICK level \in Int :
           /\ Pend(r, At(r), level) /\ Covered(At(r), level)
           /\ \/ /\ shelfLock' = [shelfLock EXCEPT ![At(r)] = r]
                 /\ level = shelf[At(r)] + mem[r].qty
              \/ /\ At(r) \notin stocked /\ shelfLock' = shelfLock /\ level = mem[r].qty
    <3>1. shelf[At(r)] + mem[r].qty \in Int
      BY <1>0
    <3> QED
      BY <1>0, <1>4, <3>1 DEF Pends
  <2>4. /\ mem'[r].mine = mem[r].mine \union {At(r)}
        /\ mem'[r].level = [mem[r].level EXCEPT ![At(r)] = level]
        /\ mem'[r].leg = mem[r].leg /\ mem'[r].qty = mem[r].qty
    BY <1>0, <2>3, PendFacts
  <2>5. ChangeAt(r, w)' = ChangeAt(r, w) /\ At(r)' = At(r)
    BY <1>0, <2>4 DEF ChangeAt, At
  <2>6. CASE w = At(r)
    <3>1. mem'[r].level[w] = level
      BY <1>0, <2>4, <2>6
    <3>2. At(r) \notin stocked => shelf[At(r)] = 0
      BY <1>0 DEF AbsentEmpty
    <3>3. shelfLock'[w] = r => level = shelf[w] + mem[r].qty
      BY <1>0, <2>3, <2>6, <3>2
    <3>4. shelfLock'[w] # r => level = mem[r].qty
      BY <1>0, <2>3, <2>6
    <3>5. Covered(w, level)
      BY <2>3, <2>6
    <3> QED
      BY <2>1, <2>2, <2>5, <2>6, <3>1, <3>3, <3>4, <3>5
  <2>7. CASE w # At(r)
    <3>1. w \in mem[r].mine /\ mem'[r].level[w] = mem[r].level[w]
      BY <1>0, <2>4, <2>7
    <3>2. /\ Covered(w, mem[r].level[w]) /\ shelfLock[w] = r
          /\ mem[r].level[w] = shelf[w] + ChangeAt(r, w)
      BY <1>0, <2>1, <3>1 DEF PendingFresh
    <3>3. shelfLock'[w] = r
      BY <1>0, <2>3, <2>7, <3>1, <3>2
    <3> QED
      BY <2>1, <2>5, <3>1, <3>2, <3>3
  <2> QED
    BY <2>6, <2>7
<1>5. CASE Claims(r)
  <2>1. /\ pc[r] = "sum" /\ shelf' = shelf /\ mem' = mem
        /\ shelfLock' = [shelfLock EXCEPT ![At(r)] = r]
        /\ shelfLock[At(r)] # r => At(r) \notin stocked
    BY <1>0, <1>3, <1>5 DEF Claims
  <2>2. w \in mem[r].mine /\ w \in Warehouse /\ ChangeAt(r, w)' = ChangeAt(r, w)
    BY <1>0, <2>1 DEF ChangeAt
  <2>3. Covered(w, mem[r].level[w])
    BY <1>0, <2>2 DEF PendingFresh
  <2>4. mem[r].level[w] = shelf[w] + ChangeAt(r, w)
    <3>1. CASE shelfLock[w] = r
      BY <1>0, <2>2, <3>1 DEF PendingFresh
    <3>2. CASE shelfLock[w] # r
      <4>1. w = At(r) /\ mem[r].level[w] = ChangeAt(r, w)
        BY <1>0, <2>2, <3>2 DEF PendingFresh
      <4>2. shelf[w] = 0
        BY <1>0, <2>1, <3>2, <4>1 DEF AbsentEmpty
      <4>3. ChangeAt(r, w) \in Int
        BY <1>0, <2>1, <4>1, ChangeHere
      <4> QED
        BY <4>1, <4>2, <4>3
    <3> QED
      BY <3>1, <3>2
  <2>5. shelfLock'[w] = r
    <3>1. shelfLock[w] # r => w = At(r)
      BY <1>0, <2>2 DEF PendingFresh
    <3> QED
      BY <1>0, <2>1, <2>2, <3>1
  <2> QED
    BY <2>1, <2>2, <2>3, <2>4, <2>5
<1>6. CASE Turns(r)
  <2>1. /\ pc[r] = "flush" /\ job[r].kind \in Moving /\ shelfLock' = shelfLock
        /\ mem'[r].mine = mem[r].mine /\ mem'[r].level = mem[r].level
    BY <1>0, <1>6 DEF Turns, LastLeg, Mem
  <2>2. shelf' = shelf
    <3>1. ~Commit(r)
      BY <1>6 DEF Turns, Commit
    <3> QED
      BY <3>1, OnlyCommits
  <2>3. ChangeAt(r, w)' = ChangeAt(r, w)
    BY <1>0, <2>1 DEF ChangeAt
  <2>4. /\ Covered(w, mem[r].level[w]) /\ shelfLock[w] = r
        /\ mem[r].level[w] = shelf[w] + ChangeAt(r, w)
    BY <1>0, <2>1 DEF PendingFresh
  <2> QED
    BY <2>1, <2>2, <2>3, <2>4
<1> QED
  BY <1>0, <1>1, <1>2, <1>4, <1>5, <1>6, StepForms

---------------------------------------------------------------------------
(***************************************************************************)
(* The theorems                                                            *)
(***************************************************************************)

\* StockInv holds initially.
LEMMA InvInit == StockInit => StockInv
<1> SUFFICES ASSUME StockInit PROVE StockInv
  OBVIOUS
<1>1. RowTypes
  BY TypesInit
<1>2. ShelfMatchesMovements /\ NoNegativeShelf /\ AbsentEmpty
  BY SupplyAssumption DEF StockInit, ShelfMatchesMovements, NoNegativeShelf, AbsentEmpty
<1>3. NothingHeldByFinished /\ Legs /\ PendingFresh
  BY DEF StockInit, NothingHeldByFinished, Legs, PendingFresh, NoMem
<1> QED
  BY <1>1, <1>2, <1>3 DEF StockInv

\* Every step preserves it.
LEMMA InvNext == StockInv /\ [StockNext]_vars => StockInv'
<1> SUFFICES ASSUME StockInv, [StockNext]_vars PROVE StockInv'
  OBVIOUS
<1>1. ASSUME NEW r \in Request, Step(r) PROVE StockInv'
  <2>1. RowTypes /\ Legs
    BY DEF StockInv
  <2>2. RowTypes' /\ Legs'
    BY <1>1, <2>1, TypesStep, LegsStep
  <2>3. ShelfMatchesMovements' /\ NoNegativeShelf' /\ AbsentEmpty' /\ NothingHeldByFinished'
    BY <1>1, RowsStep, LocksStep
  <2>4. PendingFresh'
    <3>1. ASSUME NEW q \in Request, NEW w \in mem'[q].mine
          PROVE  /\ Covered(w, mem'[q].level[w])
                 /\ shelfLock'[w] = q => mem'[q].level[w] = shelf'[w] + ChangeAt(q, w)'
                 /\ shelfLock'[w] # q => /\ pc'[q] = "sum" /\ w = At(q)'
                                        /\ mem'[q].level[w] = ChangeAt(q, w)'
      <4>1. CASE q = r
        BY <1>1, <3>1, <4>1, FreshOwn
      <4>2. CASE q # r
        <5>1. mem'[q] = mem[q] /\ pc'[q] = pc[q] /\ job'[q] = job[q]
          BY <1>1, <2>1, <4>2, Others
        <5>2. ChangeAt(q, w)' = ChangeAt(q, w) /\ At(q)' = At(q)
          BY <5>1 DEF ChangeAt, At
        <5> QED
          BY <1>1, <4>2, <5>1, <5>2, FreshOthers
      <4> QED
        BY <4>1, <4>2
    <3> QED
      BY <3>1 DEF PendingFresh, Covered
  <2> QED
    BY <2>2, <2>3, <2>4 DEF StockInv
<1>2. CASE UNCHANGED vars
  <2>1. RowTypes' /\ ShelfMatchesMovements' /\ NoNegativeShelf' /\ AbsentEmpty'
    BY <1>2 DEF vars, tables, locks, StockInv, RowTypes, ShelfMatchesMovements,
                NoNegativeShelf, AbsentEmpty
  <2>2. NothingHeldByFinished' /\ Legs'
    BY <1>2 DEF vars, tables, locks, StockInv, NothingHeldByFinished, Legs, Active,
                FirstChange
  <2>3. PendingFresh'
    BY <1>2 DEF vars, tables, locks, StockInv, PendingFresh, ChangeAt, At, Covered
  <2> QED
    BY <2>1, <2>2, <2>3 DEF StockInv
<1> QED
  BY <1>1, <1>2 DEF StockNext, Step, Finished

\* The inductive invariant: the safety properties with what a request holds at each
\* of its steps.
THEOREM StockSafety == StockSpec => []StockInv
BY InvInit, InvNext, PTL DEF StockSpec

\* A stock row never drifts from the movements of its warehouse.
THEOREM ShelvesTrue == StockSpec => []ShelfMatchesMovements
<1>1. StockInv => ShelfMatchesMovements
  BY DEF StockInv
<1> QED
  BY <1>1, StockSafety, PTL

\* No interleaving of unlocked availability checks oversells a warehouse.
THEOREM NothingOversold == StockSpec => []NoNegativeShelf
<1>1. StockInv => NoNegativeShelf
  BY DEF StockInv
<1> QED
  BY <1>1, StockSafety, PTL

\* A request that has ended, in whatever way, leaves no row locked.
THEOREM LocksReturned == StockSpec => []NothingHeldByFinished
<1>1. StockInv => NothingHeldByFinished
  BY DEF StockInv
<1> QED
  BY <1>1, StockSafety, PTL

---------------------------------------------------------------------------
(***************************************************************************)
(* Refinement: a commit is Do, every other end is Refuse, the rest is      *)
(* invisible to the caller.                                                *)
(***************************************************************************)

\* What a commit does to the shelves, in the terms of Shelves.
LEMMA CommitMoves ==
  ASSUME StockInv, RowTypes', NEW r \in Request, Commit(r)
  PROVE  /\ How(r) = "move" => shelf' = [shelf EXCEPT ![job[r].from] = @ - job[r].qty,
                                                      ![job[r].to] = @ + job[r].qty]
         /\ How(r) = "exchange" =>
               shelf' = [shelf EXCEPT ![job[r].from] = @ + job[r].qty]
         /\ How(r) \in {"move", "exchange", "recount"}
         /\ How(r) # "move" =>
               shelf' = [shelf EXCEPT ![job[r].from] = shelf'[job[r].from]]
<1>0. /\ shelf \in [Warehouse -> Int] /\ shelf' \in [Warehouse -> Int]
      /\ job[r].from \in Warehouse /\ job[r].to \in Warehouse
      /\ pc[r] = "flush" /\ Legs /\ mem[r].leg \in 1..2
      /\ job[r].kind \in Moving \union Counting /\ job[r].qty \in Int
  BY JobFacts, CopyFacts DEF StockInv, RowTypes, Commit, Legs
<1>1. CASE job[r].kind \in Moving
  <2>1. job[r].from # job[r].to /\ mem[r].mine = {job[r].from, job[r].to}
    BY <1>1, CommitFacts, JobFacts DEF StockInv, RowTypes
  <2>2. /\ shelf'[job[r].from] = shelf[job[r].from] - job[r].qty
        /\ shelf'[job[r].to] = shelf[job[r].to] + job[r].qty
    <3>1. \A w \in mem[r].mine : shelf'[w] = shelf[w] + ChangeAt(r, w)
      BY CommitFacts
    <3> QED
      BY <1>0, <1>1, <2>1, <3>1 DEF ChangeAt
  <2>3. \A w \in Warehouse : w \notin {job[r].from, job[r].to} => shelf'[w] = shelf[w]
    <3>1. \A w \in Warehouse \ mem[r].mine : shelf'[w] = shelf[w]
      BY CommitFacts
    <3> QED
      BY <2>1, <3>1
  <2>4. shelf' = [shelf EXCEPT ![job[r].from] = @ - job[r].qty,
                               ![job[r].to] = @ + job[r].qty]
    BY <1>0, <2>1, <2>2, <2>3
  <2>5. How(r) = "move"
    BY <1>1 DEF How, Moving
  <2> QED
    BY <2>4, <2>5
<1>2. CASE job[r].kind \in Counting
  <2>1. mem[r].mine = {job[r].from} /\ job[r].kind \notin Moving
    BY <1>2, CommitFacts DEF Moving, Counting
  <2>2. shelf'[job[r].from] = shelf[job[r].from] + mem[r].qty
    BY <2>1, CommitFacts DEF ChangeAt
  <2>3. \A w \in Warehouse : w # job[r].from => shelf'[w] = shelf[w]
    BY <2>1, CommitFacts
  <2>4. shelf' = [shelf EXCEPT ![job[r].from] = shelf'[job[r].from]]
    BY <1>0, <2>3
  <2>5. job[r].kind = "exchange" => mem[r].qty = job[r].qty
    BY <1>0, <2>1 DEF Legs, FirstChange
  <2>6. job[r].kind = "exchange" => shelf' = [shelf EXCEPT ![job[r].from] = @ + job[r].qty]
    BY <2>2, <2>4, <2>5
  <2>7. How(r) \in {"exchange", "recount"} /\ (How(r) = "exchange" => job[r].kind = "exchange")
    BY <1>2, <2>1 DEF How, Counting
  <2> QED
    BY <2>4, <2>6, <2>7
<1> QED
  BY <1>0, <1>1, <1>2

\* The steps of the service are steps of Shelves, or invisible.
LEMMA StepImplements ==
  ASSUME StockInv, StockInv', NEW r \in Request, Step(r)
  PROVE  Promise!Next \/ UNCHANGED Promise!vars
<1>0. RowTypes /\ Legs /\ RowTypes' /\ job' = job /\ resp \in [Request -> Answer]
  BY Others DEF StockInv, RowTypes, Answer
<1> DEFINE asked   == [q \in Request |-> [from |-> job[q].from, to |-> job[q].to,
                                         qty |-> job[q].qty, how |-> How(q)]]
           outcome == [q \in Request |-> CASE resp[q] = "none" -> "pending"
                                           [] resp[q] = "ok"   -> "done"
                                           [] OTHER            -> "refused"]
<1>1. asked' = asked
  BY <1>0 DEF How
<1>2. CASE Starts(r) \/ Pends(r) \/ Claims(r) \/ Turns(r)
  <2>1. resp' = resp /\ ~Commit(r)
    BY <1>2 DEF Starts, Pends, Claims, Turns, Commit, Go
  <2>2. shelf' = shelf
    BY <2>1, OnlyCommits
  <2> QED
    BY <1>1, <2>1, <2>2 DEF Promise!vars
<1>3. ASSUME NEW a \in Answer \ {"none"}, resp[r] = "none", resp' = [resp EXCEPT ![r] = a]
      PROVE  /\ outcome[r] = "pending"
             /\ outcome' = [outcome EXCEPT ![r] = IF a = "ok" THEN "done" ELSE "refused"]
  BY <1>0, <1>3
<1>4. Ends(r) \/ Commit(r) => resp[r] = "none"
  <2>1. Ends(r) \/ Commit(r) => pc[r] # "done"
    BY DEF Ends, Refused, Reconcile, Commit
  <2> QED
    BY <1>0, <2>1 DEF Legs
<1>5. asked[r].from = job[r].from /\ asked[r].to = job[r].to
      /\ asked[r].qty = job[r].qty /\ asked[r].how = How(r)
  OBVIOUS
<1> HIDE DEF asked, outcome
<1>6. CASE Refused(r)
  <2>1. PICK a \in Answer \ {"none", "ok"} : EndUnwritten(r, a)
    BY <1>6 DEF Refused
  <2>2. shelf' = shelf /\ resp' = [resp EXCEPT ![r] = a]
    BY <2>1 DEF EndUnwritten, End, tables
  <2>3. outcome[r] = "pending" /\ outcome' = [outcome EXCEPT ![r] = "refused"]
    BY <1>3, <1>4, <1>6, <2>2 DEF Ends
  <2> QED
    BY <1>1, <2>2, <2>3 DEF Promise!Next, Promise!Refuse, asked, outcome
<1>7. CASE Reconcile(r)
  <2>1. shelf' = shelf /\ resp' = [resp EXCEPT ![r] = "ok"] /\ job[r].kind = "reconcile"
    BY <1>7 DEF Reconcile, EndUnwritten, End, tables
  <2>2. outcome[r] = "pending" /\ outcome' = [outcome EXCEPT ![r] = "done"]
    BY <1>3, <1>4, <1>7, <2>1 DEF Ends, Answer
  <2>3. How(r) = "nothing"
    BY <2>1 DEF How, Moving
  <2>4. \A w \in Warehouse \ Overdraft : shelf'[w] < shelf[w] => shelf'[w] >= 0
    BY <2>1, <1>0 DEF RowTypes
  <2> QED
    BY <1>1, <1>5, <2>1, <2>2, <2>3, <2>4 DEF Promise!Next, Promise!Do,
       Promise!Untouched, asked, outcome
<1>8. CASE Commit(r)
  <2>1. resp' = [resp EXCEPT ![r] = "ok"]
    BY <1>8 DEF Commit, End
  <2>2. outcome[r] = "pending" /\ outcome' = [outcome EXCEPT ![r] = "done"]
    BY <1>3, <1>4, <1>8, <2>1 DEF Answer
  <2>3. \A w \in Warehouse \ Overdraft : shelf'[w] < shelf[w] => shelf'[w] >= 0
    BY DEF StockInv, NoNegativeShelf
  <2>4. \/ How(r) = "move" /\ Promise!Move(asked[r])
        \/ How(r) = "exchange" /\ Promise!Exchange(asked[r])
        \/ How(r) = "recount" /\ Promise!Recount(asked[r])
    BY <1>0, <1>5, <1>8, CommitMoves DEF Promise!Move, Promise!Exchange, Promise!Recount
  <2> QED
    BY <1>1, <1>5, <2>2, <2>3, <2>4 DEF Promise!Next, Promise!Do, asked, outcome
<1> QED
  BY <1>0, <1>2, <1>6, <1>7, <1>8, StepForms DEF Ends

\* The stock service, with its locks, savepoints and rollbacks, implements Shelves.
THEOREM ServiceKeepsShelves == StockSpec => KeepsShelves
<1>1. StockInit => Promise!Init
  BY DEF StockInit, Promise!Init
<1>2. StockInv /\ StockInv' /\ [StockNext]_vars => [Promise!Next]_Promise!vars
  <2>1. ASSUME StockInv, StockInv', NEW r \in Request, Step(r)
        PROVE  [Promise!Next]_Promise!vars
    BY <2>1, StepImplements
  <2>2. UNCHANGED vars => UNCHANGED Promise!vars
    BY DEF vars, tables, Promise!vars, How
  <2> QED
    BY <2>1, <2>2 DEF StockNext, Step, Finished
<1> QED
  BY <1>1, <1>2, StockSafety, PTL DEF StockSpec, KeepsShelves, Promise!Spec

---------------------------------------------------------------------------
(***************************************************************************)
(* Transfer documents                                                      *)
(***************************************************************************)

\* A step on the document before any goods move: the request has written no row and
\* locked none.
LEMMA PaperStep ==
  ASSUME StockInv, NEW r \in Request, pc[r] \in {"idle", "doc"},
         UNCHANGED <<tables, job>>,
         NEW l \in {"doc", "read", "done"}, pc' = [pc EXCEPT ![r] = l],
         IF l = "done" THEN Release(r) ELSE UNCHANGED locks,
         NEW m \in Mem, mem' = [mem EXCEPT ![r] = m], m.mine = {}, m.leg = 1,
         NEW a \in Answer, resp' = [resp EXCEPT ![r] = a], l # "done" => a = "none",
         l = "read" => job[r].kind \in Moving /\ m.qty = FirstChange(r)
  PROVE  StockInv'
<1>1. /\ RowTypes /\ NothingHeldByFinished /\ Legs /\ PendingFresh /\ AbsentEmpty
      /\ ShelfMatchesMovements /\ NoNegativeShelf
      /\ UNCHANGED <<shelf, stocked, moved, total>> /\ job' = job
  BY DEF StockInv, tables
<1>2. /\ pc'[r] = l /\ mem'[r] = m /\ resp'[r] = a
      /\ \A q \in Request : q # r => pc'[q] = pc[q] /\ mem'[q] = mem[q] /\ resp'[q] = resp[q]
  BY <1>1 DEF RowTypes
<1>3. /\ shelfLock' \in [Warehouse -> Request \union {None}]
      /\ productLock' \in Request \union {None}
      /\ \A w \in Warehouse : shelfLock'[w] # None => shelfLock'[w] = shelfLock[w]
      /\ \A w \in Warehouse : shelfLock[w] # r => shelfLock'[w] = shelfLock[w]
      /\ productLock' # None => productLock' = productLock
  BY <1>1 DEF RowTypes, Release, locks
<1>4. RowTypes'
  <2>1. pc' \in [Request -> Label] /\ mem' \in [Request -> Mem] /\ resp' \in [Request -> Answer]
    BY <1>1 DEF RowTypes, Label, Answer
  <2> QED
    BY <1>1, <1>3, <2>1 DEF RowTypes, Label, Answer
<1>5. ShelfMatchesMovements' /\ NoNegativeShelf' /\ AbsentEmpty'
  BY <1>1 DEF ShelfMatchesMovements, NoNegativeShelf, AbsentEmpty
<1>6. NothingHeldByFinished'
  <2>1. ASSUME NEW q \in Request, q # None, pc[q] \notin {"idle", "done"},
               l = "done" => q # r
        PROVE  pc'[q] \notin {"idle", "done"}
    BY <1>2, <2>1
  <2>2. ASSUME NEW w \in Warehouse, shelfLock'[w] # None
        PROVE  pc'[shelfLock'[w]] \notin {"idle", "done"}
    <3>1. shelfLock[w] # None /\ shelfLock'[w] = shelfLock[w] /\ shelfLock[w] \in Request
      BY <1>1, <1>3, <2>2 DEF RowTypes
    <3>2. pc[shelfLock[w]] \notin {"idle", "done"}
      BY <1>1, <3>1 DEF NothingHeldByFinished, Active
    <3>3. l = "done" => shelfLock[w] # r
      BY <2>2, <3>1 DEF Release
    <3> QED
      BY <2>1, <3>1, <3>2, <3>3
  <2>3. ASSUME productLock' # None PROVE pc'[productLock'] \notin {"idle", "done"}
    <3>1. productLock # None /\ productLock' = productLock /\ productLock \in Request
      BY <1>1, <1>3, <2>3 DEF RowTypes
    <3>2. pc[productLock] \notin {"idle", "done"}
      BY <1>1, <3>1 DEF NothingHeldByFinished, Active
    <3>3. l = "done" => productLock # r
      BY <2>3, <3>1 DEF Release
    <3> QED
      BY <2>1, <3>1, <3>2, <3>3
  <2> QED
    BY <2>2, <2>3 DEF NothingHeldByFinished, Active
<1>7. ASSUME NEW q \in Request
      PROVE  FirstChange(q)' = FirstChange(q)
  BY <1>1 DEF FirstChange
<1>8. Legs'
  BY <1>1, <1>2, <1>7 DEF Legs
<1>9. PendingFresh'
  <2>1. ASSUME NEW q \in Request, NEW w \in mem'[q].mine
        PROVE  /\ Covered(w, mem'[q].level[w])
               /\ shelfLock'[w] = q => mem'[q].level[w] = shelf'[w] + ChangeAt(q, w)'
               /\ shelfLock'[w] # q => /\ pc'[q] = "sum" /\ w = At(q)'
                                      /\ mem'[q].level[w] = ChangeAt(q, w)'
    <3>1. q # r /\ mem'[q] = mem[q] /\ pc'[q] = pc[q] /\ w \in mem[q].mine
      BY <1>2, <2>1
    <3>2. ChangeAt(q, w)' = ChangeAt(q, w) /\ At(q)' = At(q) /\ w \in Warehouse
      BY <1>1, <3>1, CopyFacts DEF ChangeAt, At
    <3>3. shelfLock'[w] = q <=> shelfLock[w] = q
      BY <1>3, <3>1, <3>2, WarehouseAssumption DEF Release
    <3> QED
      BY <1>1, <3>1, <3>2, <3>3 DEF PendingFresh
  <2> QED
    BY <2>1 DEF PendingFresh, Covered
<1> QED
  BY <1>1, <1>4, <1>5, <1>6, <1>8, <1>9 DEF StockInv

\* Every step with a document keeps StockInv.
LEMMA DocumentStep ==
  ASSUME StockInv, [Next]_allVars
  PROVE  StockInv'
<1>1. ASSUME NEW r \in Request, MoveGoods(r) PROVE StockInv'
  BY <1>1, InvNext DEF MoveGoods, StockNext
<1>2. ASSUME NEW r \in Request, CreateTransfer(r) \/ ReadTransfer(r) \/ WriteStatus(r),
             NEW a \in Answer, EndUnwritten(r, a)
      PROVE  StockInv'
  <2>1. pc[r] \in {"idle", "doc"}
    BY <1>2 DEF CreateTransfer, ReadTransfer, WriteStatus
  <2> QED
    BY <1>2, <2>1, FreshCopy, PaperStep DEF EndUnwritten, End, Go, NoMem
<1>3. ASSUME NEW r \in Request, CreateTransfer(r) \/ WriteStatus(r) PROVE StockInv'
  <2>1. EndUnwritten(r, "ok")
    BY <1>3 DEF CreateTransfer, WriteStatus, EndUnwritten
  <2> QED
    BY <1>2, <1>3, <2>1 DEF Answer
<1>4. ASSUME NEW r \in Request, ReadTransfer(r) PROVE StockInv'
  <2>1. CASE EndUnwritten(r, "rejected")
    BY <1>2, <1>4, <2>1 DEF Answer
  <2>2. CASE ~EndUnwritten(r, "rejected")
    <3> DEFINE m == [mem[r] EXCEPT !.status = doc]
    <3>1. /\ pc[r] = "idle" /\ job[r].kind \in DOMAIN Required /\ doc \in Required[job[r].kind]
          /\ mem' = [mem EXCEPT ![r] = m] /\ pc' = [pc EXCEPT ![r] = "doc"]
          /\ UNCHANGED <<tables, locks, job, resp>>
      BY <1>4, <2>2 DEF ReadTransfer, Go, StockInv, RowTypes
    <3>2. doc \in Status
      BY <3>1 DEF Required, Status
    <3>3. mem[r] \in Mem /\ mem[r].mine = {} /\ mem[r].leg = 1 /\ resp[r] = "none"
      BY <3>1, CopyFacts DEF StockInv, Legs
    <3>4. m \in Mem /\ m.mine = {} /\ m.leg = 1
      BY <3>2, <3>3 DEF Mem
    <3>5. resp' = [resp EXCEPT ![r] = "none"]
      BY <3>1, <3>3 DEF StockInv, RowTypes
    <3> HIDE DEF m
    <3> QED
      BY <3>1, <3>4, <3>5, PaperStep DEF Answer
  <2> QED
    BY <2>1, <2>2
<1>5. ASSUME NEW r \in Request, ConfirmReceive(r) PROVE StockInv'
  <2> DEFINE m == [mem[r] EXCEPT !.qty = FirstChange(r)]
  <2>1. /\ pc[r] = "doc" /\ job[r].kind = "receive"
        /\ mem' = [mem EXCEPT ![r] = m] /\ pc' = [pc EXCEPT ![r] = "read"]
        /\ UNCHANGED <<tables, locks, job, resp>>
    BY <1>5 DEF ConfirmReceive, Begin, Go, StockInv, RowTypes
  <2>2. FirstChange(r) \in Int
    BY JobFacts DEF FirstChange, StockInv, RowTypes
  <2>3. mem[r] \in Mem /\ mem[r].mine = {} /\ mem[r].leg = 1 /\ resp[r] = "none"
    BY <2>1, CopyFacts DEF StockInv, Legs
  <2>4. m \in Mem /\ m.mine = {} /\ m.leg = 1 /\ m.qty = FirstChange(r)
    BY <2>2, <2>3 DEF Mem
  <2>5. resp' = [resp EXCEPT ![r] = "none"]
    BY <2>1, <2>3 DEF StockInv, RowTypes
  <2> HIDE DEF m
  <2> QED
    BY <2>1, <2>4, <2>5, PaperStep DEF Answer, Moving
<1>6. CASE UNCHANGED allVars
  BY <1>6, InvNext DEF allVars
<1> QED
  BY <1>1, <1>3, <1>4, <1>5, <1>6 DEF Next, Serve, Done

\* Documents created, approved, shipped, received and cancelled in any order and at once
\* (services/transfer_service.py) keep the shelves equal to the movements, no shelf
\* oversold and no row locked by a request that has ended.
THEOREM DocumentsKeepShelves ==
  Spec => [](ShelfMatchesMovements /\ NoNegativeShelf /\ NothingHeldByFinished)
<1>1. Init => StockInv
  BY InvInit DEF Init
<1>2. StockInv /\ [Next]_allVars => StockInv'
  BY DocumentStep
<1>3. StockInv => ShelfMatchesMovements /\ NoNegativeShelf /\ NothingHeldByFinished
  BY DEF StockInv
<1> QED
  BY <1>1, <1>2, <1>3, PTL DEF Spec

\* A document is completed only by the transaction that moved its goods (receive commits
\* both or neither), and nothing unmoves them.
THEOREM CompletedIsDelivered == Spec => []CompletedDelivered
<1> DEFINE Inv == delivered \in Nat /\ CompletedDelivered
<1>1. Init => Inv
  BY DEF Init, CompletedDelivered
<1>2. Inv /\ [Next]_allVars => Inv'
  <2> SUFFICES ASSUME Inv, [Next]_allVars PROVE Inv'
    OBVIOUS
  <2>1. ASSUME NEW r \in Request, MoveGoods(r) PROVE Inv'
    BY <2>1 DEF MoveGoods, CompleteTransfer, CompletedDelivered
  <2>2. ASSUME NEW r \in Request, Serve(r) PROVE Inv'
    <3>1. delivered' = delivered
      BY <2>2 DEF Serve, CreateTransfer, ReadTransfer, WriteStatus, ConfirmReceive, paper
    <3>2. doc' \in {doc, "draft", "approved", "in_transit", "cancelled"}
      BY <2>2 DEF Serve, CreateTransfer, ReadTransfer, WriteStatus, ConfirmReceive, paper, Written
    <3> QED
      BY <3>1, <3>2 DEF CompletedDelivered
  <2>3. CASE UNCHANGED allVars
    BY <2>3 DEF allVars, paper, CompletedDelivered
  <2> QED
    BY <2>1, <2>2, <2>3 DEF Next, Done
<1> QED
  BY <1>1, <1>2, PTL DEF Spec

---------------------------------------------------------------------------
(***************************************************************************)
(* The goods of a document                                                 *)
(***************************************************************************)

\* What was delivered once more.
LEMMA OnceMore == ASSUME NEW n \in Int, NEW q \in Int PROVE (n + 1) * q = n * q + q
OBVIOUS

\* Only finitely many exchanges are behind a shelf, and it shows what they and the
\* deliveries make.
GoodsInv ==
    /\ delivered \in Nat
    /\ \A w \in Warehouse : IsFiniteSet(Exchanges(w))
    /\ GoodsFollowDocument

\* A step that leaves the shelves and the deliveries alone, and after which no other
\* exchange is done.
LEMMA GoodsStay ==
  ASSUME GoodsInv, UNCHANGED <<shelf, delivered, job>>,
         \A r \in Request : job[r].kind = "exchange" => (resp'[r] = "ok" <=> resp[r] = "ok")
  PROVE  GoodsInv'
<1>1. \A w : Exchanges(w)' = Exchanges(w)
  BY DEF Exchanges
<1>2. \A w : Exchanged(w)' = Exchanged(w)
  BY <1>1 DEF Exchanged
<1> QED
  BY <1>1, <1>2 DEF GoodsInv, GoodsFollowDocument

\* What the exchanges of a shelf come to is an integer.
LEMMA ExchangedInt ==
  ASSUME RowTypes, NEW w \in Warehouse, IsFiniteSet(Exchanges(w))
  PROVE  Exchanged(w) \in Int
<1> DEFINE f == [r \in Request |-> job[r].qty]
           S == Exchanges(w)
<1>1. \A r \in S : f[r] \in Int
  BY JobFacts DEF RowTypes, Exchanges
<1> HIDE DEF f, S
<1>2. SumFunctionOnSet(f, S) \in Int
  BY <1>1, SumType DEF S
<1> QED
  BY <1>2 DEF f, S, Exchanged

\* The commit of the receiving transaction.
LEMMA Delivery ==
  ASSUME StockInv, RowTypes', GoodsInv, NEW r \in Request, Commit(r), job[r].kind = "receive",
         delivered' = delivered + 1,
         \A q \in Request : q # r => resp'[q] = resp[q]
  PROVE  GoodsInv'
<1>1. job' = job /\ RowTypes /\ shelf \in [Warehouse -> Int]
  BY DEF Commit, End, StockInv, RowTypes
<1>2. \A w : Exchanges(w)' = Exchanges(w)
  BY <1>1 DEF Exchanges
<1>3. \A w : Exchanged(w)' = Exchanged(w)
  BY <1>1, <1>2 DEF Exchanged
<1>4. shelf' = [shelf EXCEPT ![job[r].from] = @ - job[r].qty, ![job[r].to] = @ + job[r].qty]
  BY CommitMoves DEF How, Moving
<1>5. ASSUME NEW j \in Jobs, j.kind = "receive"
      PROVE  /\ shelf'[j.from] = Supply[j.from] + Exchanged(j.from)' - delivered' * j.qty
             /\ shelf'[j.to] = Supply[j.to] + Exchanged(j.to)' + delivered' * j.qty
  <2>1. job[r] = j /\ j.from \in Warehouse /\ j.to \in Warehouse /\ j.from # j.to /\ j.qty \in Int
    <3>1. job[r] \in Jobs
      BY <1>1 DEF RowTypes
    <3>2. job[r] = j
      BY <1>5, <3>1, DocumentAssumption
    <3> QED
      BY <1>1, <3>2, JobFacts DEF RowTypes, Moving
  <2>2. /\ shelf'[j.from] = shelf[j.from] - j.qty
        /\ shelf'[j.to] = shelf[j.to] + j.qty
    BY <1>1, <1>4, <2>1
  <2>3. /\ shelf[j.from] = Supply[j.from] + Exchanged(j.from) - delivered * j.qty
        /\ shelf[j.to] = Supply[j.to] + Exchanged(j.to) + delivered * j.qty
    BY <1>5 DEF GoodsInv, GoodsFollowDocument
  <2>4. /\ Supply[j.from] \in Int /\ Supply[j.to] \in Int /\ delivered \in Nat
        /\ Exchanged(j.from) \in Int /\ Exchanged(j.to) \in Int
    BY <1>1, <2>1, SupplyAssumption, ExchangedInt DEF GoodsInv
  <2>5. delivered' * j.qty = delivered * j.qty + j.qty /\ delivered * j.qty \in Int
    BY <2>1, <2>4, OnceMore
  <2> QED
    BY <1>3, <2>1, <2>2, <2>3, <2>4, <2>5
<1> QED
  BY <1>2, <1>5 DEF GoodsInv, GoodsFollowDocument

\* The commit of an exchange.
LEMMA Exchange ==
  ASSUME StockInv, RowTypes', GoodsInv, NEW r \in Request, Commit(r), job[r].kind = "exchange",
         delivered' = delivered, resp[r] # "ok",
         \A q \in Request : q # r => resp'[q] = resp[q]
  PROVE  GoodsInv'
<1> DEFINE f == [q \in Request |-> job[q].qty]
<1>1. /\ job' = job /\ RowTypes /\ shelf \in [Warehouse -> Int] /\ resp'[r] = "ok"
      /\ job[r].from \in Warehouse /\ job[r].qty \in Int
  BY JobFacts DEF Commit, End, StockInv, RowTypes
<1> PICK v \in Warehouse : v = job[r].from
  BY <1>1
<1>2. /\ \A w : w # v => Exchanges(w)' = Exchanges(w)
      /\ Exchanges(v)' = Exchanges(v) \union {r} /\ r \notin Exchanges(v)
  BY <1>1 DEF Exchanges
<1>3. \A w : w # v => Exchanged(w)' = Exchanged(w)
  BY <1>1, <1>2 DEF Exchanged
<1>4. Exchanged(v)' = Exchanged(v) + job[r].qty
  <2> DEFINE S == Exchanges(v)
  <2>1. \A q \in S : f[q] \in Int
    BY <1>1, JobFacts DEF RowTypes, Exchanges
  <2>2. IsFiniteSet(S) /\ r \notin S /\ f[r] \in Int /\ f[r] = job[r].qty
    BY <1>1, <1>2 DEF GoodsInv
  <2> HIDE DEF S, f
  <2>3. SumFunctionOnSet(f, S \union {r}) = SumFunctionOnSet(f, S) + f[r]
    BY <2>1, <2>2, SumAdds
  <2>4. Exchanged(v) = SumFunctionOnSet(f, S) /\ Exchanged(v)' = SumFunctionOnSet(f, S \union {r})
    BY <1>1, <1>2 DEF Exchanged, f, S
  <2> QED
    BY <2>2, <2>3, <2>4
<1>5. ASSUME NEW w \in Warehouse PROVE IsFiniteSet(Exchanges(w)')
  <2>1. IsFiniteSet(Exchanges(w)) /\ IsFiniteSet(Exchanges(w) \union {r})
    BY FS_AddElement DEF GoodsInv
  <2> QED
    BY <1>2, <2>1
<1>6. shelf' = [shelf EXCEPT ![v] = @ + job[r].qty]
  BY CommitMoves DEF How, Moving
<1>7. ASSUME NEW w \in Warehouse, NEW n \in Int, shelf[w] = Supply[w] + Exchanged(w) + n
      PROVE  shelf'[w] = Supply[w] + Exchanged(w)' + n
  <2>1. Supply[w] \in Int /\ Exchanged(w) \in Int
    BY <1>1, SupplyAssumption, ExchangedInt DEF GoodsInv
  <2>2. CASE w = v
    BY <1>1, <1>4, <1>6, <1>7, <2>1, <2>2
  <2>3. CASE w # v
    BY <1>1, <1>3, <1>6, <1>7, <2>3
  <2> QED
    BY <2>2, <2>3
<1>8. ASSUME NEW j \in Jobs, j.kind = "receive"
      PROVE  /\ shelf'[j.from] = Supply[j.from] + Exchanged(j.from)' - delivered' * j.qty
             /\ shelf'[j.to] = Supply[j.to] + Exchanged(j.to)' + delivered' * j.qty
  <2>1. j.from \in Warehouse /\ j.to \in Warehouse /\ j.qty \in Int
    BY JobsAssumption DEF Job
  <2>2. /\ shelf[j.from] = Supply[j.from] + Exchanged(j.from) - delivered * j.qty
        /\ shelf[j.to] = Supply[j.to] + Exchanged(j.to) + delivered * j.qty
        /\ delivered \in Nat
    BY <1>8 DEF GoodsInv, GoodsFollowDocument
  <2>3. PICK n \in Int : n = delivered * j.qty
    BY <2>1, <2>2
  <2>4. /\ Supply[j.from] \in Int /\ Exchanged(j.from) \in Int
        /\ Exchanged(j.from)' \in Int /\ -n \in Int
    BY <1>1, <1>3, <1>4, <2>1, SupplyAssumption, ExchangedInt DEF GoodsInv
  <2>5. shelf[j.from] = Supply[j.from] + Exchanged(j.from) + (-n)
    BY <2>2, <2>3, <2>4
  <2>6. shelf'[j.from] = Supply[j.from] + Exchanged(j.from)' + (-n)
    BY <1>7, <2>1, <2>4, <2>5
  <2>7. shelf'[j.to] = Supply[j.to] + Exchanged(j.to)' + n
    BY <1>7, <2>1, <2>2, <2>3
  <2> QED
    BY <2>3, <2>4, <2>6, <2>7
<1> QED
  BY <1>5, <1>8 DEF GoodsInv, GoodsFollowDocument

\* The commit of a count or of a direct transfer, which is of other shelves.
LEMMA Elsewhere ==
  ASSUME StockInv, RowTypes', GoodsInv, NEW r \in Request, Commit(r),
         job[r].kind \in {"set", "transfer"}, delivered' = delivered,
         \A q \in Request : q # r => resp'[q] = resp[q]
  PROVE  GoodsInv'
<1>1. /\ job' = job /\ RowTypes /\ shelf \in [Warehouse -> Int] /\ job[r] \in Jobs
      /\ job[r].from \in Warehouse /\ job[r].to \in Warehouse
  BY JobFacts DEF Commit, End, StockInv, RowTypes
<1>2. \A w : Exchanges(w)' = Exchanges(w)
  BY <1>1 DEF Exchanges
<1>3. \A w : Exchanged(w)' = Exchanged(w)
  BY <1>1, <1>2 DEF Exchanged
<1>4. \A w \in Warehouse : w \notin {job[r].from, job[r].to} => shelf'[w] = shelf[w]
  <2>1. CASE How(r) = "move"
    BY <1>1, <2>1, CommitMoves
  <2>2. CASE How(r) # "move"
    <3>1. shelf' = [shelf EXCEPT ![job[r].from] = shelf'[job[r].from]]
      BY <2>2, CommitMoves
    <3> QED
      BY <1>1, <3>1
  <2> QED
    BY <2>1, <2>2
<1>5. ASSUME NEW j \in Jobs, j.kind = "receive"
      PROVE  /\ shelf'[j.from] = Supply[j.from] + Exchanged(j.from)' - delivered' * j.qty
             /\ shelf'[j.to] = Supply[j.to] + Exchanged(j.to)' + delivered' * j.qty
  <2>1. j.from \in Warehouse /\ j.to \in Warehouse
    BY JobsAssumption DEF Job
  <2>2. {j.from, j.to} \intersect {job[r].from, job[r].to} = {}
    BY <1>1, <1>5, DocumentAssumption
  <2>3. shelf'[j.from] = shelf[j.from] /\ shelf'[j.to] = shelf[j.to]
    BY <1>4, <2>1, <2>2
  <2>4. /\ shelf[j.from] = Supply[j.from] + Exchanged(j.from) - delivered * j.qty
        /\ shelf[j.to] = Supply[j.to] + Exchanged(j.to) + delivered * j.qty
    BY <1>5 DEF GoodsInv, GoodsFollowDocument
  <2> QED
    BY <1>3, <2>3, <2>4
<1> QED
  BY <1>2, <1>5 DEF GoodsInv, GoodsFollowDocument

\* Every step of the documents keeps the goods accounted for.
LEMMA GoodsStep ==
  ASSUME StockInv, RowTypes', GoodsInv, [Next]_allVars
  PROVE  GoodsInv'
<1>1. RowTypes /\ Legs /\ \A q \in Request : pc[q] # "done" => resp[q] = "none"
  BY DEF StockInv, Legs
<1>2. ASSUME NEW r \in Request, MoveGoods(r) PROVE GoodsInv'
  <2>1. Step(r) /\ CompleteTransfer(r)
    BY <1>2 DEF MoveGoods, Step
  <2>2. job' = job /\ \A q \in Request : q # r => resp'[q] = resp[q]
    BY <1>1, <2>1, Others
  <2>3. CASE Commit(r)
    <3>1. resp'[r] = "ok" /\ resp[r] = "none"
      BY <1>1, <2>3 DEF Commit, End, RowTypes
    <3>2. job[r].kind \in {"receive", "exchange", "set", "transfer"}
      BY <1>1, <2>3 DEF Commit, Legs, Moving, Counting
    <3>3. CASE job[r].kind = "receive"
      BY <2>1, <2>2, <2>3, <3>1, <3>3, Delivery DEF CompleteTransfer
    <3>4. CASE job[r].kind = "exchange"
      BY <2>1, <2>2, <2>3, <3>1, <3>4, Exchange DEF CompleteTransfer
    <3>5. CASE job[r].kind \in {"set", "transfer"}
      BY <2>1, <2>2, <2>3, <3>5, Elsewhere DEF CompleteTransfer
    <3> QED
      BY <3>2, <3>3, <3>4, <3>5
  <2>4. CASE ~Commit(r)
    <3>1. UNCHANGED <<shelf, stocked, moved>>
      BY <2>1, <2>4, OnlyCommits
    <3>2. resp'[r] = resp[r] \/ Ends(r)
      BY <1>1, <2>1, <2>4, StepForms DEF Starts, Pends, Claims, Turns
    <3>3. resp[r] # "ok" /\ (resp'[r] = "ok" => job[r].kind = "reconcile")
      <4>1. pc[r] # "done" /\ resp[r] = "none"
        BY <1>1, <1>2 DEF MoveGoods, LoadProduct, Proceed, Fail, Active, ReadForSet, CheckSource,
                          LockShelf, NoShelf, GiveUp, SumShelves, WriteTotal, Commit, Abort,
                          Deadlocked, WaitsFor
      <4>2. CASE Refused(r)
        BY <1>1, <4>1, <4>2 DEF Refused, EndUnwritten, End, RowTypes
      <4>3. CASE Reconcile(r)
        BY <4>1, <4>3 DEF Reconcile
      <4> QED
        BY <3>2, <4>1, <4>2, <4>3 DEF Ends
    <3>4. delivered' = delivered
      BY <2>1, <3>3 DEF CompleteTransfer
    <3> QED
      BY <2>2, <3>1, <3>3, <3>4, GoodsStay
  <2> QED
    BY <2>3, <2>4
<1>3. ASSUME NEW r \in Request, Serve(r) PROVE GoodsInv'
  <2>1. UNCHANGED <<shelf, delivered, job>> /\ job[r].kind # "exchange"
    BY <1>3 DEF Serve, CreateTransfer, ReadTransfer, WriteStatus, ConfirmReceive, Begin, End,
                EndUnwritten, tables, paper, Required, Written
  <2>2. \A q \in Request : q # r => resp'[q] = resp[q]
    BY <1>1, <1>3 DEF Serve, CreateTransfer, ReadTransfer, WriteStatus, ConfirmReceive, Begin, End,
                EndUnwritten, RowTypes
  <2> QED
    BY <2>1, <2>2, GoodsStay
<1>4. CASE UNCHANGED allVars
  BY <1>4, GoodsStay DEF allVars, vars, tables, paper
<1> QED
  BY <1>2, <1>3, <1>4 DEF Next, Done

\* Besides the exchanges, the shelves show exactly the deliveries of the document
\* (confirm_receive and complete_transfer move the goods in the transaction that writes
\* the status): none is lost, halved or recorded twice, whichever requests meet.
THEOREM GoodsAreDelivered == Spec => []GoodsFollowDocument
<1>1. Init => StockInv
  BY InvInit DEF Init
<1>2. Init => GoodsInv
  <2> SUFFICES ASSUME Init PROVE GoodsInv
    OBVIOUS
  <2>1. delivered = 0 /\ shelf = Supply /\ \A w : Exchanges(w) = {}
    BY DEF Init, StockInit, Exchanges
  <2>2. IsFiniteSet({}) /\ \A w : Exchanged(w) = 0
    BY <2>1, SumUnfolds, FS_EmptySet DEF Exchanged
  <2>3. ASSUME NEW j \in Jobs, j.kind = "receive"
        PROVE  /\ shelf[j.from] = Supply[j.from] + Exchanged(j.from) - delivered * j.qty
               /\ shelf[j.to] = Supply[j.to] + Exchanged(j.to) + delivered * j.qty
    <3>1. j.from \in Warehouse /\ j.to \in Warehouse /\ j.qty \in Int
      BY JobsAssumption DEF Job
    <3>2. Supply[j.from] \in Int /\ Supply[j.to] \in Int
      BY <3>1, SupplyAssumption
    <3> QED
      BY <2>1, <2>2, <3>1, <3>2
  <2> QED
    BY <2>1, <2>2, <2>3 DEF GoodsInv, GoodsFollowDocument
<1>3. StockInv /\ GoodsInv /\ [Next]_allVars => StockInv' /\ GoodsInv'
  BY DocumentStep, GoodsStep DEF StockInv
<1>4. GoodsInv => GoodsFollowDocument
  BY DEF GoodsInv
<1> QED
  BY <1>1, <1>2, <1>3, <1>4, PTL DEF Spec
=============================================================================
