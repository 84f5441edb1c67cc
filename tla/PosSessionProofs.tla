--------------------------- MODULE PosSessionProofs ---------------------------
(***************************************************************************)
(* Proofs about PosSession, for every set of requests, keys, jobs and any  *)
(* number of sessions: its types, its safety properties from the inductive *)
(* invariant SafetyInv, what a step may never do, and the refinement of    *)
(* ExactlyOnce.                                                            *)
(***************************************************************************)
EXTENDS PosSession, TLAPS

Answer == {"none", "ok", "replay", "conflict", "mismatch", "rejected", "error"}
Label  == {"idle", "lock", "begin", "insert", "number", "latest", "check",
           "post", "write", "done"}

Shared == {"books", "returns"}

---------------------------------------------------------------------------
(***************************************************************************)
(* Types                                                                   *)
(***************************************************************************)

\* A row that was never written and a freshly opened one are rows.
LEMMA FreshRows == NoRow \in Row /\ \A b \in Nat : NewRow(b) \in Row
<1>1. NoRow \in Row
  BY DEF NoRow, Row, Status
<1>2. ASSUME NEW b \in Nat PROVE NewRow(b) \in Row
  BY <1>1 DEF NewRow, Row, Status
<1> QED
  BY <1>1, <1>2

\* What a request asks is well formed, and its key names a slot of the ledger.
LEMMA JobFacts ==
  ASSUME job \in [Request -> Jobs], NEW r \in Request
  PROVE  /\ job[r].kind \in Kinds /\ job[r].amount \in Nat /\ job[r].tender \in Nat
         /\ job[r].key \in Key \union {NoKey}
         /\ job[r].kind \notin Keyed => ~IsKeyed(r)
         /\ IsKeyed(r) => SlotOf(r) \in L!Slot
<1>1. job[r] \in Jobs /\ Jobs \subseteq Job
  BY JobsAssumption
<1>2. /\ job[r].kind \in Kinds /\ job[r].amount \in Nat /\ job[r].tender \in Nat
      /\ job[r].key \in Key \union {NoKey}
  BY <1>1 DEF Job
<1>3. job[r].kind \notin Keyed => ~IsKeyed(r)
  BY <1>1, JobsAssumption DEF IsKeyed
<1>4. IsKeyed(r) => SlotOf(r) \in L!Slot
  BY <1>2, <1>3 DEF IsKeyed, SlotOf, L!Slot
<1> QED
  BY <1>2, <1>3, <1>4

\* The initial state is well typed.
LEMMA TypeInit == Init => TypeOK
<1> SUFFICES ASSUME Init PROVE TypeOK
  OBVIOUS
<1>1. session \in [Session -> Row] /\ last \in 0..MaxSession /\ drawer \in [Session -> Int]
  <2>1. PICK opened \in BOOLEAN :
          /\ last = IF opened THEN 1 ELSE 0
          /\ session = [s \in Session |-> IF opened /\ s = 1 THEN NewRow(Float) ELSE NoRow]
          /\ drawer = [s \in Session |-> IF opened /\ s = 1 THEN Float ELSE 0]
    BY DEF Init
  <2>2. NewRow(Float) \in Row /\ NoRow \in Row
    BY FreshRows, SizeAssumption
  <2> QED
    BY <2>1, <2>2, SizeAssumption
<1>2. L!LedgerType
  BY DEF Init, L!LedgerInit, L!LedgerType, L!Row, L!NoRow
<1>3. mem \in [Request -> Mem]
  BY FreshRows, SizeAssumption DEF Init, Mem, NoMem
<1>4. /\ lock \in [Session -> Request \union {None}]
      /\ shared \in [Shared -> Request \union {None}]
      /\ sale \in [Session -> [net : Nat, due : Nat]]
      /\ job \in [Request -> Jobs] /\ returned \in Nat /\ returns \in Nat
      /\ refunded \in [Session -> Nat] /\ office \in [Session -> Nat]
      /\ execs \in [L!Slot -> SUBSET Request]
  BY DEF Init, Shared
<1>5. pc \in [Request -> Label] /\ resp \in [Request -> Answer]
  BY DEF Init, Label, Answer
<1> QED
  BY <1>1, <1>2, <1>3, <1>4, <1>5 DEF TypeOK, Label, Answer, Shared

\* Ending a transaction without a write keeps the types.
LEMMA EndType ==
  ASSUME TypeOK, NEW r \in Request, NEW a \in Answer, EndUnwritten(r, a)
  PROVE  TypeOK'
<1>1. /\ resp' \in [Request -> Answer] /\ pc' \in [Request -> Label]
      /\ lock' \in [Session -> Request \union {None}]
      /\ shared' \in [Shared -> Request \union {None}]
  BY DEF TypeOK, EndUnwritten, Reply, Go, Unlocked, Answer, Label, Shared
<1>2. mem' \in [Request -> Mem]
  BY FreshRows, SizeAssumption DEF TypeOK, EndUnwritten, Reply, NoMem, Mem
<1>3. L!LedgerType'
  BY DEF TypeOK, EndUnwritten, L!Discard, L!LedgerType
<1> QED
  BY <1>1, <1>2, <1>3 DEF TypeOK, EndUnwritten, ghosts, Answer, Label, Shared

\* What a commit does to everything but the business rows keeps the types.
LEMMA CommitType ==
  ASSUME TypeOK, NEW r \in Request, Commit(r)
  PROVE  /\ (resp \in [Request -> Answer])' /\ (pc \in [Request -> Label])'
         /\ (lock \in [Session -> Request \union {None}])'
         /\ (shared \in [Shared -> Request \union {None}])'
         /\ (mem \in [Request -> Mem])'
         /\ L!LedgerType'
         /\ (execs \in [L!Slot -> SUBSET Request])'
         /\ (job \in [Request -> Jobs])'
<1>1. /\ (resp \in [Request -> Answer])' /\ (pc \in [Request -> Label])'
      /\ (lock \in [Session -> Request \union {None}])'
      /\ (shared \in [Shared -> Request \union {None}])'
  BY DEF TypeOK, Commit, Reply, Go, Unlocked, Answer, Label, Shared
<1>2. (mem \in [Request -> Mem])'
  BY FreshRows, SizeAssumption DEF TypeOK, Commit, Reply, NoMem, Mem
<1>3. CASE ~IsKeyed(r)
  BY <1>1, <1>2, <1>3 DEF TypeOK, Commit, L!LedgerType
<1>4. CASE IsKeyed(r)
  <2>1. SlotOf(r) \in L!Slot /\ job[r] \in Jobs
    BY <1>4, JobFacts DEF TypeOK
  <2>2. L!LedgerType'
    <3>1. [status |-> "completed", hash |-> job[r], aged |-> FALSE] \in L!Row
      BY <2>1 DEF L!Row
    <3> QED
      BY <1>4, <2>1, <3>1 DEF TypeOK, Commit, L!Complete, L!LedgerType
  <2>3. (execs \in [L!Slot -> SUBSET Request])'
    BY <1>4, <2>1 DEF TypeOK, Commit
  <2> QED
    BY <1>1, <1>2, <2>2, <2>3 DEF Commit, TypeOK
<1> QED
  BY <1>3, <1>4

\* Reading a session into the request's copy keeps the types.
LEMMA ReadType ==
  ASSUME TypeOK, NEW r \in Request, NEW s \in Session,
         mem' = [mem EXCEPT ![r].sid = s, ![r].row = session[s]]
  PROVE  mem' \in [Request -> Mem]
<1>1. session[s] \in Row /\ s \in 0..MaxSession
  BY SizeAssumption DEF TypeOK, Session
<1>2. mem[r] \in Mem /\ [mem[r] EXCEPT !.sid = s, !.row = session[s]] \in Mem
  BY <1>1 DEF TypeOK, Mem
<1> QED
  BY <1>2 DEF TypeOK

\* Remembering a document number keeps the types.
LEMMA NumberType ==
  ASSUME TypeOK, NEW r \in Request, NEW n \in Nat,
         mem' = [mem EXCEPT ![r].number = n]
  PROVE  mem' \in [Request -> Mem]
<1>1. mem[r] \in Mem /\ [mem[r] EXCEPT !.number = n] \in Mem
  BY DEF TypeOK, Mem
<1> QED
  BY <1>1 DEF TypeOK

\* The database ends a request of a circle like any other error does.
LEMMA AbortFails ==
  ASSUME NEW r \in Request, Abort(r)
  PROVE  Fail(r)
<1>1. PICK q \in Request : WaitsFor(r, q)
  BY DEF Abort, Deadlocked
<1> QED
  BY <1>1 DEF Abort, WaitsFor, Fail, Active

\* The steps before the business write keep the types.
LEMMA ReadStepType ==
  ASSUME TypeOK, NEW r \in Request,
         \/ Arrive(r) \/ LockOpen(r) \/ LockPaused(r) \/ LedgerLookup(r)
         \/ LedgerInsert(r) \/ OpenNumber(r) \/ OpenLockLatest(r)
         \/ RefundNumber(r) \/ RefundInsert(r) \/ RefundCheck(r)
         \/ RefundPost(r) \/ Fail(r)
  PROVE  TypeOK'
<1>1. \A a \in Answer : EndUnwritten(r, a) => TypeOK'
  BY EndType
<1>2. /\ "rejected" \in Answer /\ "mismatch" \in Answer /\ "conflict" \in Answer
      /\ "replay" \in Answer /\ "error" \in Answer
  BY DEF Answer
<1>3. CASE OpenGuard(r)
  BY <1>1, <1>2, <1>3 DEF OpenGuard, Go, TypeOK, tables, ghosts, L!LedgerType
<1>4. CASE CheckoutGuard(r)
  BY <1>1, <1>2, <1>4 DEF CheckoutGuard, Go, TypeOK, tables, ghosts, L!LedgerType
<1>5. CASE RefundGuard(r)
  BY <1>1, <1>2, <1>5, ReadType DEF RefundGuard, Go, TypeOK, tables, ghosts, L!LedgerType
<1>6. CASE CloseReplay(r)
  BY <1>1, <1>2, <1>6 DEF CloseReplay, Go, TypeOK, tables, ghosts, L!LedgerType
<1>7. CASE LockOpen(r)
  <2>1. ASSUME ~ (~HasStatus("open") /\ EndUnwritten(r, "rejected")) PROVE TypeOK'
    <3>1. PICK s \in Session :
            /\ lock' = [lock EXCEPT ![s] = r]
            /\ mem' = [mem EXCEPT ![r].sid = s, ![r].row = session[s]]
            /\ Go(r, IF job[r].kind \in Lockers THEN "write" ELSE "begin")
            /\ UNCHANGED <<session, last, shared, sale, returned, returns, ledger,
                           claim, job, resp, ghosts, execs>>
      BY <1>7, <2>1 DEF LockOpen
    <3>2. mem' \in [Request -> Mem]
      BY <3>1, ReadType
    <3> QED
      BY <3>1, <3>2 DEF Go, TypeOK, ghosts, L!LedgerType
  <2> QED
    BY <1>1, <1>2, <2>1
<1>8. CASE LockPaused(r)
  <2>1. ASSUME ~ (~HasStatus("paused") /\ EndUnwritten(r, "rejected")) PROVE TypeOK'
    <3>1. PICK s \in Session :
            /\ lock' = [lock EXCEPT ![s] = r]
            /\ mem' = [mem EXCEPT ![r].sid = s, ![r].row = session[s]]
            /\ Go(r, "write")
            /\ UNCHANGED <<session, last, shared, sale, returned, returns, ledger,
                           claim, job, resp, ghosts, execs>>
      BY <1>8, <2>1 DEF LockPaused
    <3>2. mem' \in [Request -> Mem]
      BY <3>1, ReadType
    <3> QED
      BY <3>1, <3>2 DEF Go, TypeOK, ghosts, L!LedgerType
  <2> QED
    BY <1>1, <1>2, <2>1
<1>9. CASE LedgerLookup(r)
  BY <1>1, <1>2, <1>9 DEF LedgerLookup, AfterLedger, Go, TypeOK, tables, ghosts, L!LedgerType
<1>10. CASE LedgerInsert(r)
  BY <1>1, <1>2, <1>10
     DEF LedgerInsert, L!Insert, AfterLedger, Go, TypeOK, tables, ghosts, L!LedgerType
<1>11. CASE OpenNumber(r)
  <2>1. last \in Nat
    BY SizeAssumption DEF TypeOK
  <2> QED
    BY <2>1, <1>11, NumberType DEF OpenNumber, Go, TypeOK, tables, ghosts, L!LedgerType
<1>12. CASE OpenLockLatest(r)
  BY <1>12 DEF OpenLockLatest, Go, TypeOK, tables, ghosts, L!LedgerType
<1>13. CASE RefundNumber(r)
  <2>1. returns \in Nat
    BY DEF TypeOK
  <2> QED
    BY <2>1, <1>13, NumberType DEF RefundNumber, Go, TypeOK, tables, ghosts, L!LedgerType
<1>14. CASE RefundCheck(r)
  BY <1>1, <1>2, <1>14 DEF RefundCheck, Go, TypeOK, tables, ghosts, L!LedgerType
<1>15. CASE Fail(r)
  BY <1>1, <1>2, <1>15 DEF Fail
<1>16. CASE RefundInsert(r)
  BY <1>1, <1>2, <1>16 DEF RefundInsert, Go, TypeOK, tables, ghosts, L!LedgerType
<1>17. CASE RefundPost(r)
  BY <1>17 DEF RefundPost, Go, TypeOK, tables, ghosts, L!LedgerType
<1> QED
  BY <1>3, <1>4, <1>5, <1>6, <1>7, <1>8, <1>9, <1>10, <1>11, <1>12, <1>13, <1>14, <1>15,
     <1>16, <1>17 DEF Arrive

\* The fields of a row, and the rows a write can make of it.
LEMMA RowFields ==
  ASSUME NEW row \in Row
  PROVE  /\ row.opening \in Nat /\ row.cash \in Nat /\ row.change \in Nat
         /\ row.refunds \in Nat /\ row.payIns \in Nat /\ row.payOuts \in Nat
         /\ Expected(row) = row.opening + row.cash - row.change - row.refunds
                            + row.payIns - row.payOuts
BY DEF Expected, Row

\* A row stays a row when one counter is replaced,
LEMMA RowWith ==
  ASSUME NEW row \in Row, NEW n \in Nat
  PROVE  /\ [row EXCEPT !.cash = n] \in Row
         /\ [row EXCEPT !.refunds = n] \in Row
         /\ [row EXCEPT !.payIns = n] \in Row
         /\ [row EXCEPT !.payOuts = n] \in Row
BY DEF Row

\* or its status,
LEMMA RowMoved ==
  ASSUME NEW row \in Row, NEW st \in Status
  PROVE  [row EXCEPT !.status = st] \in Row
BY DEF Row

\* or a tender is taken with change given,
LEMMA RowTendered ==
  ASSUME NEW row \in Row, NEW m \in Nat, NEW n \in Nat
  PROVE  /\ Tendered(row, m, n) \in Row
         /\ Tendered(row, m, n).cash = row.cash + m
         /\ Tendered(row, m, n).change = row.change + n
         /\ Tendered(row, m, n).status = row.status
         /\ Tendered(row, m, n).opening = row.opening
         /\ Tendered(row, m, n).refunds = row.refunds
         /\ Tendered(row, m, n).payIns = row.payIns
         /\ Tendered(row, m, n).payOuts = row.payOuts
<1>1. \A x, y \in Nat : [row EXCEPT !.cash = x, !.change = y] \in Row
  BY DEF Row, Status
<1>2. row.cash + m \in Nat /\ row.change + n \in Nat
  BY DEF Row
<1>3. Tendered(row, m, n) \in Row
  BY <1>1, <1>2 DEF Tendered
<1>4. Tendered(row, m, n).cash = row.cash + m
  BY DEF Tendered, Row, Status
<1>5. Tendered(row, m, n).change = row.change + n
  BY DEF Tendered, Row, Status
<1>6. /\ Tendered(row, m, n).status = row.status
      /\ Tendered(row, m, n).opening = row.opening
      /\ Tendered(row, m, n).refunds = row.refunds
      /\ Tendered(row, m, n).payIns = row.payIns
      /\ Tendered(row, m, n).payOuts = row.payOuts
  BY DEF Tendered, Row, Status
<1> QED
  BY <1>3, <1>4, <1>5, <1>6

\* or the row is closed.
LEMMA RowClosed ==
  ASSUME NEW row \in Row, NEW mine \in Row, NEW i \in Int
  PROVE  /\ Closed(row, mine, i) \in Row
         /\ Closed(row, mine, i).status = "closed"
         /\ Closed(row, mine, i).expected = Expected(mine)
         /\ Closed(row, mine, i).counted = i
         /\ Closed(row, mine, i).refunds = row.refunds
<1>1. Expected(mine) \in Int
  BY DEF Expected, Row
<1> QED
  BY <1>1 DEF Closed, Row, Status

\* Setting one value of a function keeps its range.
LEMMA PointUpdate ==
  ASSUME NEW S, NEW D, NEW f \in [S -> D], NEW t, NEW v, t \in S => v \in D
  PROVE  [f EXCEPT ![t] = v] \in [S -> D]
OBVIOUS

\* The business writes keep the types.
LEMMA WriteStepType ==
  ASSUME TypeOK, NEW r \in Request,
         \/ OpenWrite(r) \/ CheckoutWrite(r) \/ PayInWrite(r) \/ PayOutWrite(r)
         \/ PauseWrite(r) \/ ResumeWrite(r) \/ RefundWrite(r) \/ CloseWrite(r)
         \/ Receipt(r)
  PROVE  TypeOK'
<1> DEFINE Books == /\ session' \in [Session -> Row] /\ last' \in 0..MaxSession
                    /\ sale' \in [Session -> [net : Nat, due : Nat]]
                    /\ returned' \in Nat /\ returns' \in Nat
                    /\ drawer' \in [Session -> Int]
                    /\ refunded' \in [Session -> Nat] /\ office' \in [Session -> Nat]
<1> DEFINE s == mem[r].sid
<1>1. ASSUME Commit(r), Books PROVE TypeOK'
  BY <1>1, CommitType DEF TypeOK, Answer, Label, L!LedgerType, Shared
<1>2. \A a \in Answer : EndUnwritten(r, a) => TypeOK'
  BY EndType
<1>3. "error" \in Answer /\ "conflict" \in Answer /\ "rejected" \in Answer
  BY DEF Answer
<1>4. /\ job[r].amount \in Nat /\ job[r].tender \in Nat
      /\ mem[r].row \in Row
      /\ \A t \in Session : session[t] \in Row /\ sale[t] \in [net : Nat, due : Nat]
  BY JobFacts DEF TypeOK, Mem
<1>5. \A n \in Nat : /\ mem[r].row.refunds + n \in Nat
                     /\ mem[r].row.payIns + n \in Nat
                     /\ mem[r].row.payOuts + n \in Nat
  BY <1>4, RowFields
<1>6. \A n \in Nat : \A t : /\ [drawer EXCEPT ![t] = @ + n] \in [Session -> Int]
                            /\ [drawer EXCEPT ![t] = @ - n] \in [Session -> Int]
                            /\ [refunded EXCEPT ![t] = @ + n] \in [Session -> Nat]
  <2> TAKE n \in Nat
  <2> TAKE t
  <2>0. drawer \in [Session -> Int] /\ refunded \in [Session -> Nat]
    BY DEF TypeOK
  <2>1. [drawer EXCEPT ![t] = @ + n] \in [Session -> Int]
    BY <2>0, t \in Session => drawer[t] + n \in Int, PointUpdate
  <2>2. [drawer EXCEPT ![t] = @ - n] \in [Session -> Int]
    BY <2>0, t \in Session => drawer[t] - n \in Int, PointUpdate
  <2>3. [refunded EXCEPT ![t] = @ + n] \in [Session -> Nat]
    BY <2>0, t \in Session => refunded[t] + n \in Nat, PointUpdate
  <2> QED
    BY <2>1, <2>2, <2>3
<1>7. \A t, v : v \in Row => [session EXCEPT ![t] = v] \in [Session -> Row]
  BY DEF TypeOK
<1>8. CASE OpenWrite(r)
  <2>1. CASE EndUnwritten(r, "error")
    BY <1>2, <1>3, <2>1
  <2>2. CASE ~EndUnwritten(r, "error")
    <3>1. NewRow(job[r].amount) \in Row
      BY <1>4, FreshRows
    <3>2. session' \in [Session -> Row]
      BY <1>7, <1>8, <2>2, <3>1 DEF OpenWrite
    <3>3. last' \in 0..MaxSession
      BY <1>8, <2>2, SizeAssumption DEF OpenWrite, TypeOK
    <3>4. drawer' \in [Session -> Int]
      <4>1. drawer' = [drawer EXCEPT ![last + 1] = job[r].amount]
        BY <1>8, <2>2 DEF OpenWrite
      <4>2. drawer \in [Session -> Int] /\ job[r].amount \in Int
        BY <1>4 DEF TypeOK
      <4> QED
        BY <4>1, <4>2
    <3> QED
      BY <1>1, <1>8, <2>2, <3>2, <3>3, <3>4 DEF OpenWrite, TypeOK
  <2> QED
    BY <2>1, <2>2
<1>9. CASE CheckoutWrite(r)
  <2> DEFINE total  == job[r].amount
             tender == job[r].tender
             paid   == IF tender > total THEN total ELSE tender
  <2>1. paid \in Nat /\ tender - paid \in Nat /\ total - paid \in Nat
    BY <1>4
  <2>2. /\ session' = [session EXCEPT ![s] = Tendered(@, tender, tender - paid)]
        /\ sale' = [sale EXCEPT ![s] = Booked(@, paid, total - paid)]
        /\ drawer' = [drawer EXCEPT ![s] = @ + paid]
        /\ UNCHANGED <<last, returned, returns, refunded, office>>
    BY <1>9 DEF CheckoutWrite
  <2> HIDE DEF paid
  <2>3. \A t \in Session : Tendered(session[t], tender, tender - paid) \in Row
    BY <1>4, <2>1, RowTendered
  <2>4. \A t \in Session : Booked(sale[t], paid, total - paid) \in [net : Nat, due : Nat]
    BY <1>4, <2>1 DEF Booked
  <2>5. session' \in [Session -> Row]
    BY <2>2, <2>3 DEF TypeOK
  <2>6. sale' \in [Session -> [net : Nat, due : Nat]]
    BY <2>2, <2>4 DEF TypeOK
  <2>7. drawer' \in [Session -> Int]
    BY <1>6, <2>1, <2>2
  <2> QED
    BY <1>1, <1>9, <2>2, <2>5, <2>6, <2>7 DEF CheckoutWrite, TypeOK
<1>10. CASE PayInWrite(r)
  <2>1. session' \in [Session -> Row]
    <3>1. \A t \in Session :
            [session[t] EXCEPT !.payIns = mem[r].row.payIns + job[r].amount] \in Row
      BY <1>4, <1>5, RowWith
    <3> QED
      BY <1>10, <3>1 DEF PayInWrite, TypeOK
  <2>2. drawer' \in [Session -> Int]
    BY <1>4, <1>6, <1>10 DEF PayInWrite
  <2> QED
    BY <1>1, <1>10, <2>1, <2>2 DEF PayInWrite, TypeOK
<1>11. CASE PayOutWrite(r)
  <2>1. session' \in [Session -> Row]
    <3>1. \A t \in Session :
            [session[t] EXCEPT !.payOuts = mem[r].row.payOuts + job[r].amount] \in Row
      BY <1>4, <1>5, RowWith
    <3> QED
      BY <1>11, <3>1 DEF PayOutWrite, TypeOK
  <2>2. drawer' \in [Session -> Int]
    BY <1>4, <1>6, <1>11 DEF PayOutWrite
  <2> QED
    BY <1>1, <1>11, <2>1, <2>2 DEF PayOutWrite, TypeOK
<1>12. CASE PauseWrite(r) \/ ResumeWrite(r)
  <2>1. \A t \in Session : \A st \in {"open", "paused"} :
          [session[t] EXCEPT !.status = st] \in Row
    BY <1>4, RowMoved DEF Status
  <2>2. session' \in [Session -> Row]
    <3>1. CASE PauseWrite(r)
      BY <2>1, <3>1 DEF PauseWrite, TypeOK
    <3>2. CASE ResumeWrite(r)
      BY <2>1, <3>2 DEF ResumeWrite, TypeOK
    <3> QED
      BY <1>12, <3>1, <3>2
  <2> QED
    BY <1>1, <1>12, <2>2 DEF PauseWrite, ResumeWrite, TypeOK, ghosts
<1>13. CASE RefundWrite(r)
  <2>1. /\ returns' = returns + 1 /\ returned' = returned + job[r].amount
        /\ session' = [session EXCEPT ![s].refunds = mem[r].row.refunds + job[r].amount]
        /\ drawer' = [drawer EXCEPT ![s] = @ - job[r].amount]
        /\ refunded' = [refunded EXCEPT ![s] = @ + job[r].amount]
        /\ Commit(r)
        /\ UNCHANGED <<last, sale, office>>
    BY <1>13 DEF RefundWrite
  <2>2. \A t \in Session :
          [session[t] EXCEPT !.refunds = mem[r].row.refunds + job[r].amount] \in Row
    BY <1>4, <1>5, RowWith
  <2>3. session' \in [Session -> Row]
    BY <2>1, <2>2 DEF TypeOK
  <2>4. drawer' \in [Session -> Int] /\ refunded' \in [Session -> Nat]
    BY <1>4, <1>6, <2>1
  <2> QED
    BY <1>1, <1>4, <2>1, <2>3, <2>4 DEF TypeOK
<1>14. CASE CloseWrite(r)
  <2> DEFINE mine == [mem[r].row EXCEPT !.cash = sale[s].net + mem[r].row.change]
  <2>1. ASSUME s \in Session PROVE Closed(session[s], mine, drawer[s]) \in Row
    <3>1. sale[s].net + mem[r].row.change \in Nat /\ drawer[s] \in Int
      <4>1. mem[r].row.change \in Nat
        BY <1>4, RowFields
      <4> QED
        BY <1>4, <2>1, <4>1 DEF TypeOK
    <3>2. mine \in Row
      BY <1>4, <3>1, RowWith
    <3> HIDE DEF mine
    <3> QED
      BY <1>4, <2>1, <3>1, <3>2, RowClosed
  <2>2. session' \in [Session -> Row]
    BY <1>14, <2>1 DEF CloseWrite, Recomputed, TypeOK
  <2> QED
    BY <1>1, <1>14, <2>2 DEF CloseWrite, TypeOK, ghosts
<1>15. CASE Receipt(r)
  <2>1. CASE EndUnwritten(r, "rejected")
    BY <1>2, <1>3, <2>1
  <2>2. CASE ~EndUnwritten(r, "rejected")
    <3>1. PICK t \in Session :
            /\ sale[t].due > 0
            /\ LET paid == IF job[r].amount > sale[t].due THEN sale[t].due
                                                          ELSE job[r].amount
               IN /\ sale' = [sale EXCEPT ![t] = Booked(@, paid, -paid)]
                  /\ office' = [office EXCEPT ![t] = @ + paid]
            /\ Commit(r)
            /\ UNCHANGED <<session, last, returned, returns, drawer, refunded>>
      BY <1>15, <2>2 DEF Receipt
    <3> DEFINE paid == IF job[r].amount > sale[t].due THEN sale[t].due
                                                      ELSE job[r].amount
    <3>2. paid \in Nat /\ sale[t].due - paid \in Nat /\ sale[t].net + paid \in Nat
      BY <1>4
    <3>3. /\ sale' = [sale EXCEPT ![t] = Booked(@, paid, -paid)]
          /\ office' = [office EXCEPT ![t] = @ + paid]
      BY <3>1
    <3> HIDE DEF paid
    <3>4. Booked(sale[t], paid, -paid) \in [net : Nat, due : Nat]
      BY <1>4, <3>2 DEF Booked
    <3>5. sale' \in [Session -> [net : Nat, due : Nat]]
      BY <3>3, <3>4 DEF TypeOK
    <3>6. office' \in [Session -> Nat]
      BY <3>2, <3>3 DEF TypeOK
    <3> QED
      BY <1>1, <3>1, <3>5, <3>6 DEF TypeOK
  <2> QED
    BY <2>1, <2>2
<1> QED
  BY <1>8, <1>9, <1>10, <1>11, <1>12, <1>13, <1>14, <1>15

\* Every step keeps the types.
LEMMA TypeNext == TypeOK /\ [Next]_vars => TypeOK'
<1> SUFFICES ASSUME TypeOK, [Next]_vars PROVE TypeOK'
  OBVIOUS
<1>1. ASSUME NEW r \in Request, Arrive(r) \/ Proceed(r) \/ Receipt(r) \/ Fail(r)
      PROVE  TypeOK'
  BY <1>1, ReadStepType, WriteStepType, AbortFails DEF Proceed
<1>2. ASSUME NEW k \in L!Slot, KeyAges(k) PROVE TypeOK'
  <2>1. L!LedgerType'
    BY <1>2 DEF KeyAges, L!Age, TypeOK, L!LedgerType, L!Row
  <2> QED
    BY <1>2, <2>1 DEF KeyAges, TypeOK, tables, ghosts
<1>3. CASE UNCHANGED vars
  BY <1>3 DEF vars, tables, ghosts, TypeOK, L!LedgerType
<1> QED
  BY <1>1, <1>2, <1>3 DEF Next, Finished

\* Rows, counters, locks and ledger keep their types whatever requests do; every
\* amount of money but the drawer and the closing figures stays non-negative.
THEOREM TypeCorrect == Spec => []TypeOK
<1>1. Init => TypeOK
  BY TypeInit
<1>2. TypeOK /\ [Next]_vars => TypeOK'
  BY TypeNext
<1> QED
  BY <1>1, <1>2, PTL DEF Spec

---------------------------------------------------------------------------
Step(r) == Arrive(r) \/ Proceed(r) \/ Receipt(r) \/ Fail(r)

---------------------------------------------------------------------------
(***************************************************************************)
(* What a step of one request leaves to the others.                        *)
(***************************************************************************)

\* How a commit and a rollback end a request.
LEMMA EndFacts ==
  ASSUME TypeOK, NEW r \in Request,
         Commit(r) \/ \E a \in Answer : EndUnwritten(r, a)
  PROVE  /\ pc' = [pc EXCEPT ![r] = "done"] /\ mem' = [mem EXCEPT ![r] = NoMem]
         /\ job' = job /\ lock' = Unlocked(lock, r) /\ shared' = Unlocked(shared, r)
         /\ \A q \in Request : q # r => resp'[q] = resp[q]
BY DEF Commit, EndUnwritten, Reply, Go, TypeOK

\* A step of r does not move another request, and takes only free locks.
LEMMA Others ==
  ASSUME TypeOK, NEW r \in Request, Step(r)
  PROVE  /\ job' = job
         /\ \A q \in Request : q # r => pc'[q] = pc[q] /\ mem'[q] = mem[q]
         /\ \A s \in Session : /\ \/ lock'[s] = lock[s]
                                  \/ lock[s] = None /\ lock'[s] = r
                                  \/ lock[s] = r /\ lock'[s] = None
                               /\ lock'[s] = r => Active(r)'
         /\ \A x \in Shared : /\ \/ shared'[x] = shared[x]
                                 \/ shared[x] = None /\ shared'[x] = r
                                 \/ shared[x] = r /\ shared'[x] = None
                              /\ shared'[x] = r => Active(r)'
         /\ pc'[r] # "idle"
<1> DEFINE Goal == /\ job' = job
                   /\ \A q \in Request : q # r => pc'[q] = pc[q] /\ mem'[q] = mem[q]
                   /\ \A s \in Session : /\ \/ lock'[s] = lock[s]
                                            \/ lock[s] = None /\ lock'[s] = r
                                            \/ lock[s] = r /\ lock'[s] = None
                                         /\ lock'[s] = r => Active(r)'
                   /\ \A x \in Shared : /\ \/ shared'[x] = shared[x]
                                           \/ shared[x] = None /\ shared'[x] = r
                                           \/ shared[x] = r /\ shared'[x] = None
                                        /\ shared'[x] = r => Active(r)'
                   /\ pc'[r] # "idle"
<1>0. shared \in [Shared -> Request \union {None}]
  BY DEF TypeOK, Shared
<1>1. ASSUME Commit(r) \/ \E a \in Answer : EndUnwritten(r, a) PROVE Goal
  <2>1. /\ pc' = [pc EXCEPT ![r] = "done"] /\ mem' = [mem EXCEPT ![r] = NoMem]
        /\ job' = job /\ lock' = Unlocked(lock, r) /\ shared' = Unlocked(shared, r)
    BY <1>1, EndFacts
  <2> QED
    BY <1>0, <2>1, NoneAssumption DEF Unlocked, TypeOK
<1>2. \A a \in {"rejected", "mismatch", "conflict", "replay", "error"} :
        EndUnwritten(r, a) => Goal
  BY <1>1 DEF Answer
<1>3. CASE Arrive(r)
  BY <1>2, <1>3 DEF Arrive, OpenGuard, CheckoutGuard, RefundGuard, CloseReplay, Go,
                    tables, TypeOK, Active
<1>4. CASE LockOpen(r)
  BY <1>2, <1>4 DEF LockOpen, Go, TypeOK, Active
<1>5. CASE LockPaused(r)
  BY <1>2, <1>5 DEF LockPaused, Go, TypeOK, Active
<1>6. CASE LedgerLookup(r)
  BY <1>2, <1>6 DEF LedgerLookup, AfterLedger, Go, tables, TypeOK, Active
<1>7. CASE LedgerInsert(r)
  BY <1>2, <1>7 DEF LedgerInsert, AfterLedger, Go, tables, TypeOK, Active
<1>8. CASE OpenNumber(r) \/ RefundNumber(r) \/ RefundCheck(r)
  BY <1>2, <1>8 DEF OpenNumber, RefundNumber, RefundCheck, Go, tables, TypeOK, Active
<1>11. CASE RefundInsert(r) \/ RefundPost(r)
  BY <1>0, <1>2, <1>11 DEF RefundInsert, RefundPost, Go, TypeOK, Active
<1>9. CASE OpenLockLatest(r)
  BY <1>9 DEF OpenLockLatest, Go, TypeOK, Active
<1>10. CASE \/ OpenWrite(r) \/ CheckoutWrite(r) \/ PayInWrite(r) \/ PayOutWrite(r)
            \/ PauseWrite(r) \/ ResumeWrite(r) \/ RefundWrite(r) \/ CloseWrite(r)
            \/ Receipt(r) \/ Fail(r)
  <2>1. Commit(r) \/ \E a \in Answer : EndUnwritten(r, a)
    BY <1>10 DEF OpenWrite, CheckoutWrite, PayInWrite, PayOutWrite, PauseWrite,
                 ResumeWrite, RefundWrite, CloseWrite, Receipt, Fail, Answer
  <2> QED
    BY <1>1, <2>1
<1> QED
  BY <1>3, <1>4, <1>5, <1>6, <1>7, <1>8, <1>9, <1>10, <1>11, AbortFails DEF Step, Proceed

\* While another request holds the lock of an existing row, r does not change it.
LEMMA RowsKept ==
  ASSUME TypeOK, UnopenedBlank, LocksHeld, NEW r \in Request, Step(r),
         NEW s \in Session, lock[s] # None, lock[s] # r, Exists(s)
  PROVE  session'[s] = session[s]
<1>1. Holding(r) => mem[r].sid # s
  BY DEF LocksHeld
<1>2. s # last + 1
  BY SizeAssumption DEF UnopenedBlank, Session, TypeOK
<1>3. ASSUME NEW a, EndUnwritten(r, a) PROVE session'[s] = session[s]
  BY <1>3 DEF EndUnwritten
<1>4. CASE OpenWrite(r)
  BY <1>2, <1>3, <1>4 DEF OpenWrite, TypeOK
<1>5. CASE CheckoutWrite(r) \/ CloseWrite(r)
  BY <1>1, <1>5 DEF CheckoutWrite, CloseWrite, Holding, TypeOK
<1>6. CASE PayInWrite(r) \/ PayOutWrite(r) \/ PauseWrite(r) \/ ResumeWrite(r)
  BY <1>1, <1>6 DEF PayInWrite, PayOutWrite, PauseWrite, ResumeWrite, Holding, Lockers, TypeOK
<1>7. CASE RefundWrite(r)
  <2>1. CASE mem[r].sid = s
    BY <1>3, <1>7, <2>1 DEF RefundWrite
  <2>2. CASE mem[r].sid # s
    BY <1>3, <1>7, <2>2 DEF RefundWrite, TypeOK
  <2> QED
    BY <2>1, <2>2
<1>8. CASE Receipt(r)
  BY <1>3, <1>8 DEF Receipt
<1>9. CASE \/ Arrive(r) \/ LockOpen(r) \/ LockPaused(r) \/ LedgerLookup(r)
           \/ LedgerInsert(r) \/ OpenNumber(r) \/ OpenLockLatest(r)
           \/ RefundNumber(r) \/ RefundInsert(r) \/ RefundCheck(r)
           \/ RefundPost(r) \/ Fail(r)
  BY <1>3, <1>9 DEF Arrive, OpenGuard, CheckoutGuard, RefundGuard, CloseReplay, LockOpen,
       LockPaused, LedgerLookup, LedgerInsert, OpenNumber, OpenLockLatest,
       RefundNumber, RefundInsert, RefundCheck, RefundPost, Fail, tables
<1> QED
  BY <1>4, <1>5, <1>6, <1>7, <1>8, <1>9, AbortFails DEF Step, Proceed

\* Where a write of r goes: to an existing session, unlike the row an open creates.
LEMMA WriteTarget ==
  ASSUME TypeOK, UnopenedBlank, LocksHeld, RefundsBehind, NEW r \in Request,
         pc[r] = "write", job[r].kind # "open", job[r].kind # "receipt"
  PROVE  /\ mem[r].sid \in Session /\ Exists(mem[r].sid) /\ mem[r].sid <= last
         /\ job[r].kind # "refund" =>
               /\ lock[mem[r].sid] = r /\ mem[r].row = session[mem[r].sid]
               /\ session[mem[r].sid].status =
                     IF job[r].kind = "resume" THEN "paused" ELSE "open"
<1>1. job[r].kind \in Kinds
  BY JobFacts DEF TypeOK
<1>2. CASE job[r].kind = "refund"
  <2>1. mem[r].sid \in Session /\ Exists(mem[r].sid)
    BY <1>2 DEF RefundsBehind, Active
  <2> QED
    BY <1>2, <2>1, SizeAssumption DEF UnopenedBlank, TypeOK, Session
<1>3. CASE job[r].kind # "refund"
  <2>1. Holding(r)
    BY <1>1, <1>3 DEF Holding, Kinds, Keyed, Lockers
  <2>2. /\ mem[r].sid \in Session /\ lock[mem[r].sid] = r
        /\ mem[r].row = session[mem[r].sid]
        /\ session[mem[r].sid].status = IF job[r].kind = "resume" THEN "paused" ELSE "open"
    BY <2>1 DEF LocksHeld
  <2> QED
    BY <2>2, SizeAssumption DEF Exists, UnopenedBlank, TypeOK, Session
<1> QED
  BY <1>2, <1>3

---------------------------------------------------------------------------
(***************************************************************************)
(* The inductive invariant, conjunct by conjunct.                          *)
(***************************************************************************)

\* The steps that write no business row.
Quiet(r) ==
    \/ Arrive(r) \/ LockOpen(r) \/ LockPaused(r) \/ LedgerLookup(r) \/ LedgerInsert(r)
    \/ OpenNumber(r) \/ OpenLockLatest(r) \/ RefundNumber(r) \/ RefundInsert(r) \/ RefundCheck(r)
    \/ RefundPost(r) \/ Fail(r)
    \/ \E a \in Answer : EndUnwritten(r, a)

\* A quiet step leaves the business tables and the cash alone.
LEMMA QuietFrame ==
  ASSUME NEW r \in Request, Quiet(r)
  PROVE  UNCHANGED <<session, last, sale, returned, returns, drawer, refunded, office>>
<1>1. ASSUME NEW a, EndUnwritten(r, a)
      PROVE UNCHANGED <<session, last, sale, returned, returns, drawer, refunded, office>>
  BY <1>1 DEF EndUnwritten, ghosts
<1> QED
  BY <1>1 DEF Quiet, Arrive, OpenGuard, CheckoutGuard, RefundGuard, CloseReplay, LockOpen,
       LockPaused, LedgerLookup, LedgerInsert, OpenNumber, OpenLockLatest,
       RefundNumber, RefundInsert, RefundCheck, RefundPost, Fail, tables, ghosts

\* Every step is quiet or one of the commits.
LEMMA StepCases ==
  ASSUME NEW r \in Request, Step(r)
  PROVE  \/ Quiet(r)
         \/ /\ Commit(r)
            /\ \/ OpenWrite(r) \/ CheckoutWrite(r) \/ PayInWrite(r) \/ PayOutWrite(r)
               \/ PauseWrite(r) \/ ResumeWrite(r) \/ RefundWrite(r) \/ CloseWrite(r)
               \/ Receipt(r)
<1>1. /\ "error" \in Answer /\ "conflict" \in Answer /\ "rejected" \in Answer
  BY DEF Answer
<1>2. ASSUME OpenWrite(r) \/ RefundWrite(r) \/ Receipt(r)
      PROVE  Commit(r) \/ \E a \in Answer : EndUnwritten(r, a)
  BY <1>1, <1>2 DEF OpenWrite, RefundWrite, Receipt
<1>3. ASSUME \/ CheckoutWrite(r) \/ PayInWrite(r) \/ PayOutWrite(r)
             \/ PauseWrite(r) \/ ResumeWrite(r) \/ CloseWrite(r)
      PROVE  Commit(r)
  BY <1>3 DEF CheckoutWrite, PayInWrite, PayOutWrite, PauseWrite, ResumeWrite, CloseWrite
<1> QED
  BY <1>2, <1>3, AbortFails DEF Step, Proceed, Quiet

\* The row a write leaves behind.
LEMMA WrittenRow ==
  ASSUME TypeOK, UnopenedBlank, LocksHeld, RefundsBehind, NEW r \in Request,
         \/ CheckoutWrite(r) \/ PayInWrite(r) \/ PayOutWrite(r) \/ PauseWrite(r)
         \/ ResumeWrite(r) \/ CloseWrite(r) \/ (RefundWrite(r) /\ ~Quiet(r))
  PROVE  LET t == mem[r].sid
             o == session[t]
             n == session'[t]
         IN
         /\ CheckoutWrite(r) => n = Tendered(o, job[r].tender,
              job[r].tender - (IF job[r].tender > job[r].amount THEN job[r].amount
                                                                ELSE job[r].tender))
         /\ PayInWrite(r)  => n = [o EXCEPT !.payIns = o.payIns + job[r].amount]
         /\ PayOutWrite(r) => n = [o EXCEPT !.payOuts = o.payOuts + job[r].amount]
         /\ PauseWrite(r)  => n = [o EXCEPT !.status = "paused"] /\ o.status = "open"
         /\ ResumeWrite(r) => n = [o EXCEPT !.status = "open"] /\ o.status = "paused"
         /\ RefundWrite(r) => n = [o EXCEPT !.refunds = mem[r].row.refunds + job[r].amount]
         /\ CloseWrite(r)  => /\ n = Closed(o, [o EXCEPT !.cash = sale[t].net + o.change],
                                           drawer[t])
                             /\ o.status = "open"
<1> DEFINE t == mem[r].sid
<1>1. pc[r] = "write" /\ job[r].kind # "open" /\ job[r].kind # "receipt"
  BY DEF CheckoutWrite, PayInWrite, PayOutWrite, PauseWrite, ResumeWrite, CloseWrite,
         RefundWrite
<1>2. /\ t \in Session
      /\ job[r].kind # "refund" =>
            /\ mem[r].row = session[t]
            /\ session[t].status = IF job[r].kind = "resume" THEN "paused" ELSE "open"
  BY <1>1, WriteTarget
<1>3. session \in [Session -> Row]
  BY DEF TypeOK
<1>4. ASSUME CheckoutWrite(r)
      PROVE  session'[t] = Tendered(session[t], job[r].tender,
              job[r].tender - (IF job[r].tender > job[r].amount THEN job[r].amount
                                                                ELSE job[r].tender))
  BY <1>2, <1>3, <1>4 DEF CheckoutWrite
<1>5. PayInWrite(r) =>
        session'[t] = [session[t] EXCEPT !.payIns = session[t].payIns + job[r].amount]
  BY <1>2, <1>3 DEF PayInWrite
<1>6. PayOutWrite(r) =>
        session'[t] = [session[t] EXCEPT !.payOuts = session[t].payOuts + job[r].amount]
  BY <1>2, <1>3 DEF PayOutWrite
<1>7. PauseWrite(r) => /\ session'[t] = [session[t] EXCEPT !.status = "paused"]
                       /\ session[t].status = "open"
  BY <1>2, <1>3 DEF PauseWrite
<1>8. ResumeWrite(r) => /\ session'[t] = [session[t] EXCEPT !.status = "open"]
                        /\ session[t].status = "paused"
  BY <1>2, <1>3 DEF ResumeWrite
<1>9. RefundWrite(r) =>
        session'[t] = [session[t] EXCEPT !.refunds = mem[r].row.refunds + job[r].amount]
  <2> SUFFICES ASSUME RefundWrite(r)
               PROVE session'[t] =
                       [session[t] EXCEPT !.refunds = mem[r].row.refunds + job[r].amount]
    OBVIOUS
  <2>1. ~Quiet(r)
    BY DEF CheckoutWrite, PayInWrite, PayOutWrite, PauseWrite, ResumeWrite, CloseWrite,
           RefundWrite
  <2> QED
    BY <1>2, <1>3, <2>1 DEF RefundWrite, Quiet, Answer
<1>10. CloseWrite(r) =>
         /\ session'[t] = Closed(session[t],
                                 [session[t] EXCEPT !.cash = sale[t].net + session[t].change],
                                 drawer[t])
         /\ session[t].status = "open"
  BY <1>2, <1>3 DEF CloseWrite, Recomputed
<1> QED
  BY <1>4, <1>5, <1>6, <1>7, <1>8, <1>9, <1>10

\* A write changes one session, and the cash of that session only.
LEMMA WriteElsewhere ==
  ASSUME TypeOK, NEW r \in Request,
         \/ CheckoutWrite(r) \/ PayInWrite(r) \/ PayOutWrite(r) \/ PauseWrite(r)
         \/ ResumeWrite(r) \/ CloseWrite(r) \/ (RefundWrite(r) /\ ~Quiet(r))
  PROVE  \A s \in Session : s # mem[r].sid =>
            /\ session'[s] = session[s] /\ sale'[s] = sale[s] /\ drawer'[s] = drawer[s]
            /\ refunded'[s] = refunded[s] /\ office'[s] = office[s]
<1>1. CASE CheckoutWrite(r)
  BY <1>1 DEF CheckoutWrite, TypeOK
<1>2. CASE PayInWrite(r) \/ PayOutWrite(r)
  BY <1>2 DEF PayInWrite, PayOutWrite, TypeOK
<1>3. CASE PauseWrite(r) \/ ResumeWrite(r) \/ CloseWrite(r)
  BY <1>3 DEF PauseWrite, ResumeWrite, CloseWrite, TypeOK, ghosts
<1>4. CASE RefundWrite(r) /\ ~Quiet(r)
  BY <1>4 DEF RefundWrite, Quiet, Answer, TypeOK
<1> QED
  BY <1>1, <1>2, <1>3, <1>4

\* A number is given once: rows up to last exist, the ones past it are untouched.
LEMMA BlankNext ==
  ASSUME TypeOK, IndInv, NEW r \in Request, Step(r)
  PROVE  UnopenedBlank'
<1> USE DEF IndInv
<1>1. CASE Quiet(r)
  <2>1. UNCHANGED <<session, last, sale, refunded, office>>
    BY <1>1, QuietFrame
  <2> QED
    BY <2>1 DEF UnopenedBlank, Exists
<1>2. CASE OpenWrite(r) /\ ~Quiet(r)
  <2>1. /\ last' = last + 1 /\ last < MaxSession
        /\ session' = [session EXCEPT ![last + 1] = NewRow(job[r].amount)]
        /\ UNCHANGED <<sale, refunded, office>>
    BY <1>2 DEF OpenWrite, Quiet, Answer
  <2>2. NewRow(job[r].amount).status = "open"
    BY DEF NewRow, NoRow
  <2>3. \A s \in Session : s # last + 1 => session'[s] = session[s]
    BY <2>1 DEF TypeOK
  <2>4. last + 1 \in Session => session'[last + 1].status = "open"
    BY <2>1, <2>2 DEF TypeOK
  <2> QED
    BY <2>1, <2>3, <2>4, SizeAssumption DEF UnopenedBlank, Exists, Session, TypeOK
<1>3. CASE \/ CheckoutWrite(r) \/ PayInWrite(r) \/ PayOutWrite(r) \/ PauseWrite(r)
           \/ ResumeWrite(r) \/ CloseWrite(r) \/ (RefundWrite(r) /\ ~Quiet(r))
  <2> DEFINE t == mem[r].sid
  <2>1. pc[r] = "write" /\ job[r].kind # "open" /\ job[r].kind # "receipt"
    BY <1>3 DEF CheckoutWrite, PayInWrite, PayOutWrite, PauseWrite, ResumeWrite,
                CloseWrite, RefundWrite
  <2>2. t \in Session /\ Exists(t) /\ t <= last
    BY <2>1, WriteTarget
  <2>3. \A s \in Session : s # t =>
          /\ session'[s] = session[s] /\ sale'[s] = sale[s]
          /\ refunded'[s] = refunded[s] /\ office'[s] = office[s]
    BY <1>3, WriteElsewhere
  <2>4. last' = last
    BY <1>3 DEF CheckoutWrite, PayInWrite, PayOutWrite, PauseWrite, ResumeWrite,
                CloseWrite, RefundWrite, Quiet, Answer
  <2>5. session'[t].status # "none"
    <3>1. session[t] \in Row /\ session[t].status # "none"
      BY <2>2 DEF TypeOK, Exists
    <3>2. job[r].amount \in Nat /\ job[r].tender \in Nat
      BY JobFacts DEF TypeOK
    <3>3. CASE CheckoutWrite(r)
      <4> DEFINE change == job[r].tender - (IF job[r].tender > job[r].amount
                                            THEN job[r].amount ELSE job[r].tender)
      <4>1. session'[t] = Tendered(session[t], job[r].tender, change)
        BY <3>3, WrittenRow
      <4>2. change \in Nat
        BY <3>2
      <4> HIDE DEF change
      <4>3. Tendered(session[t], job[r].tender, change).status = session[t].status
        BY <3>1, <3>2, <4>2, RowTendered
      <4> QED
        BY <3>1, <4>1, <4>3
    <3>4. CASE \/ PayInWrite(r) \/ PayOutWrite(r) \/ PauseWrite(r) \/ ResumeWrite(r)
               \/ (RefundWrite(r) /\ ~Quiet(r))
      <4>1. CASE PayInWrite(r)
        BY <3>1, <4>1, WrittenRow DEF Row
      <4>2. CASE PayOutWrite(r)
        BY <3>1, <4>2, WrittenRow DEF Row
      <4>3. CASE PauseWrite(r)
        BY <3>1, <4>3, WrittenRow DEF Row
      <4>4. CASE ResumeWrite(r)
        <5>1. session'[t] = [session[t] EXCEPT !.status = "open"]
          BY <2>2, <4>4 DEF ResumeWrite, TypeOK
        <5> QED
          BY <3>1, <5>1 DEF Row
      <4>5. CASE RefundWrite(r) /\ ~Quiet(r)
        BY <3>1, <4>5, WrittenRow DEF Row
      <4> QED
        BY <3>4, <4>1, <4>2, <4>3, <4>4, <4>5
    <3>5. CASE CloseWrite(r)
      <4>1. PICK mine : session'[t] = Closed(session[t], mine, drawer[t])
        BY <2>2, <3>5 DEF CloseWrite, Recomputed, TypeOK
      <4> QED
        BY <3>1, <4>1 DEF Closed, Row
    <3> QED
      BY <1>3, <3>3, <3>4, <3>5
  <2> QED
    BY <2>2, <2>3, <2>4, <2>5, SizeAssumption DEF UnopenedBlank, Exists, Session, TypeOK
<1>4. CASE Receipt(r) /\ ~Quiet(r)
  <2>1. PICK t \in Session :
          /\ sale[t].due > 0
          /\ \A s \in Session : s # t => sale'[s] = sale[s] /\ office'[s] = office[s]
          /\ UNCHANGED <<session, last, refunded>>
    BY <1>4 DEF Receipt, Quiet, Answer, TypeOK
  <2>2. t \in Int /\ last \in Int /\ ~(t > last)
    <3>1. t \in Int /\ last \in Int
      BY SizeAssumption DEF Session, TypeOK
    <3>2. t > last => sale[t] = [net |-> 0, due |-> 0]
      BY DEF UnopenedBlank
    <3> QED
      BY <2>1, <3>1, <3>2
  <2>3. \A s \in Session : s > last => sale'[s] = sale[s] /\ office'[s] = office[s]
    BY <2>1, <2>2
  <2> QED
    BY <2>1, <2>3 DEF UnopenedBlank, Exists
<1> QED
  BY <1>1, <1>2, <1>3, <1>4, StepCases

\* Every step leads to a place of its kind of request.
LEMMA PlacesNext ==
  ASSUME TypeOK, IndInv, NEW r \in Request, Step(r)
  PROVE  Places'
<1>1. /\ job' = job
      /\ \A q \in Request : q # r => pc'[q] = pc[q]
  BY Others
<1>2. ASSUME pc' = [pc EXCEPT ![r] = "done"] PROVE Places'
  BY <1>1, <1>2 DEF IndInv, Places, TypeOK, IsKeyed, KeyOf
<1>3. ASSUME \E a \in Answer : EndUnwritten(r, a) PROVE Places'
  BY <1>2, <1>3, EndFacts
<1>4. ASSUME Commit(r) PROVE Places'
  BY <1>2, <1>4, EndFacts
<1>5. ASSUME NEW l \in {"lock", "begin", "insert", "number", "latest", "check", "post",
                       "write"},
             pc' = [pc EXCEPT ![r] = l],
             /\ l = "lock" => job[r].kind \in {"checkout", "close"}
             /\ l \in {"begin", "insert"} => job[r].kind \in Keyed
             /\ l = "insert" => IsKeyed(r)
             /\ l = "number" => job[r].kind \in {"open", "refund"}
             /\ l = "latest" => job[r].kind \in {"open", "refund"}
             /\ l \in {"check", "post"} => job[r].kind = "refund"
      PROVE  Places'
  BY <1>1, <1>5 DEF IndInv, Places, TypeOK, IsKeyed, KeyOf
<1>6. /\ "error" \in Answer /\ "conflict" \in Answer /\ "rejected" \in Answer
      /\ "mismatch" \in Answer /\ "replay" \in Answer
  BY DEF Answer
<1>7. CASE Arrive(r)
  BY <1>3, <1>5, <1>6, <1>7 DEF Arrive, OpenGuard, CheckoutGuard, RefundGuard,
       CloseReplay, Go, Keyed
<1>8. CASE LockOpen(r) \/ LockPaused(r)
  BY <1>3, <1>5, <1>6, <1>8 DEF LockOpen, LockPaused, Go, Keyed, IndInv, Places
<1>9. CASE LedgerLookup(r) \/ LedgerInsert(r)
  BY <1>3, <1>5, <1>6, <1>9 DEF LedgerLookup, LedgerInsert, AfterLedger, Go, IndInv, Places
<1>10. CASE \/ OpenNumber(r) \/ OpenLockLatest(r) \/ RefundNumber(r) \/ RefundInsert(r)
            \/ RefundCheck(r) \/ RefundPost(r)
  BY <1>3, <1>5, <1>6, <1>10 DEF OpenNumber, OpenLockLatest, RefundNumber, RefundInsert,
       RefundCheck, RefundPost, Go, IndInv, Places
<1>11. CASE Fail(r)
  BY <1>3, <1>6, <1>11 DEF Fail
<1> QED
  BY <1>3, <1>4, <1>7, <1>8, <1>9, <1>10, <1>11, StepCases DEF Quiet

\* A row stays with the request that locked it, unchanged, until that request ends.
LEMMA LocksNext ==
  ASSUME TypeOK, IndInv, NEW r \in Request, Step(r)
  PROVE  LocksHeld'
<1> USE DEF IndInv
<1>1. /\ job' = job
      /\ \A q \in Request : q # r => pc'[q] = pc[q] /\ mem'[q] = mem[q]
      /\ \A s \in Session : /\ \/ lock'[s] = lock[s]
                               \/ lock[s] = None /\ lock'[s] = r
                               \/ lock[s] = r /\ lock'[s] = None
                            /\ lock'[s] = r => Active(r)'
      /\ \A x \in Shared : /\ \/ shared'[x] = shared[x]
                              \/ shared[x] = None /\ shared'[x] = r
                              \/ shared[x] = r /\ shared'[x] = None
                           /\ shared'[x] = r => Active(r)'
  BY Others
<1> DEFINE Held(q) == /\ mem[q].sid \in Session /\ lock[mem[q].sid] = q
                      /\ mem[q].row = session[mem[q].sid]
                      /\ mem[q].row.status = IF job[q].kind = "resume" THEN "paused"
                                                                      ELSE "open"
<1>2. ASSUME NEW q \in Request, q # r, Holding(q)' PROVE Held(q)'
  <2>1. Holding(q)
    BY <1>1, <1>2 DEF Holding
  <2>2. Held(q)
    BY <2>1 DEF LocksHeld
  <2> DEFINE s == mem[q].sid
  <2>3. lock'[s] = q
    BY <1>1, <1>2, <2>2, NoneAssumption
  <2>4. session'[s] = session[s]
    BY <1>2, <2>2, RowsKept, NoneAssumption DEF Exists
  <2> QED
    BY <1>1, <1>2, <2>2, <2>3, <2>4
<1>3. ASSUME Holding(r)' PROVE Held(r)'
  <2>1. pc'[r] # "done"
    BY <1>3 DEF Holding
  <2>2. ~ (Commit(r) \/ \E a \in Answer : EndUnwritten(r, a))
    BY <2>1, EndFacts DEF TypeOK
  <2>3. /\ "error" \in Answer /\ "conflict" \in Answer /\ "rejected" \in Answer
        /\ "mismatch" \in Answer /\ "replay" \in Answer
    BY DEF Answer
  <2>4. CASE LockOpen(r)
    <3>1. job[r].kind # "resume"
      BY <2>4 DEF LockOpen, Places, Lockers
    <3>2. PICK s \in Session : /\ session[s].status = "open"
                               /\ lock' = [lock EXCEPT ![s] = r]
                               /\ mem' = [mem EXCEPT ![r].sid = s, ![r].row = session[s]]
                               /\ session' = session
      BY <2>2, <2>3, <2>4 DEF LockOpen, Newest
    <3>3. mem'[r].sid = s /\ mem'[r].row = session[s]
      BY <3>2 DEF TypeOK, Mem
    <3> QED
      BY <1>1, <3>1, <3>2, <3>3 DEF TypeOK
  <2>5. CASE LockPaused(r)
    <3>1. job[r].kind = "resume"
      BY <2>5 DEF LockPaused
    <3>2. PICK s \in Session : /\ session[s].status = "paused"
                               /\ lock' = [lock EXCEPT ![s] = r]
                               /\ mem' = [mem EXCEPT ![r].sid = s, ![r].row = session[s]]
                               /\ session' = session
      BY <2>2, <2>3, <2>5 DEF LockPaused, Newest
    <3>3. mem'[r].sid = s /\ mem'[r].row = session[s]
      BY <3>2 DEF TypeOK, Mem
    <3> QED
      BY <1>1, <3>1, <3>2, <3>3 DEF TypeOK
  <2>6. CASE LedgerLookup(r) \/ LedgerInsert(r)
    <3>1. Holding(r)
      BY <1>1, <1>3, <2>6 DEF LedgerLookup, LedgerInsert, Holding, Places, Keyed, Lockers
    <3>2. UNCHANGED <<session, lock, mem>>
      BY <2>2, <2>3, <2>6 DEF LedgerLookup, LedgerInsert, tables
    <3> QED
      BY <1>1, <3>1, <3>2 DEF LocksHeld
  <2>7. CASE Arrive(r)
    <3>1. \/ pc' = [pc EXCEPT ![r] = "begin"] /\ job[r].kind \in {"open", "refund"}
          \/ pc' = [pc EXCEPT ![r] = "lock"]
      BY <2>2, <2>3, <2>7 DEF Arrive, OpenGuard, CheckoutGuard, RefundGuard, CloseReplay, Go
    <3> QED
      BY <1>1, <1>3, <3>1 DEF Holding, Lockers, TypeOK
  <2>8. CASE \/ OpenNumber(r) \/ OpenLockLatest(r) \/ RefundNumber(r) \/ RefundInsert(r)
             \/ RefundCheck(r) \/ RefundPost(r)
    <3>1. job[r].kind \in {"open", "refund"}
      BY <2>8 DEF OpenNumber, OpenLockLatest, RefundNumber, RefundInsert, RefundCheck,
                  RefundPost, Places
    <3> QED
      BY <1>1, <1>3, <3>1 DEF Holding, Lockers
  <2>9. CASE Fail(r)
    BY <2>2, <2>3, <2>9 DEF Fail
  <2> QED
    BY <2>2, <2>4, <2>5, <2>6, <2>7, <2>8, <2>9, StepCases DEF Quiet
<1>4. ASSUME NEW s \in Session, (lock[s] # None)' PROVE Active(lock[s])'
  <2>1. CASE lock'[s] = r
    BY <1>1, <2>1 DEF Active
  <2>2. CASE lock'[s] # r
    <3>1. lock'[s] = lock[s] /\ lock[s] # r /\ lock[s] \in Request
      BY <1>1, <1>4, <2>2 DEF TypeOK
    <3>2. Active(lock[s])
      BY <1>4, <3>1 DEF LocksHeld
    <3> QED
      BY <1>1, <3>1, <3>2 DEF Active
  <2> QED
    BY <2>1, <2>2
<1>5. ASSUME NEW x \in Shared, (shared[x] # None)' PROVE Active(shared[x])'
  <2>1. CASE shared'[x] = r
    BY <1>1, <2>1 DEF Active
  <2>2. CASE shared'[x] # r
    <3>1. shared'[x] = shared[x] /\ shared[x] # r /\ shared[x] \in Request
      BY <1>1, <1>5, <2>2 DEF TypeOK, Shared
    <3>2. Active(shared[x])
      BY <1>5, <3>1 DEF LocksHeld, TypeOK, Shared
    <3> QED
      BY <1>1, <3>1, <3>2 DEF Active
  <2> QED
    BY <2>1, <2>2
<1>6. DOMAIN shared' = Shared
  BY TypeNext DEF Step, Next, TypeOK, Shared
<1> QED
  BY <1>2, <1>3, <1>4, <1>5, <1>6 DEF LocksHeld

---------------------------------------------------------------------------
(***************************************************************************)
(* The money.                                                              *)
(***************************************************************************)

\* The row after one field is updated: a new status,
LEMMA SetStatus ==
  ASSUME NEW o \in Row, NEW x \in Status, NEW n, n = [o EXCEPT !.status = x]
  PROVE  /\ n \in Row
         /\ n.status = x
         /\ n.opening = o.opening
         /\ n.cash = o.cash
         /\ n.change = o.change
         /\ n.refunds = o.refunds
         /\ n.payIns = o.payIns
         /\ n.payOuts = o.payOuts
BY DEF Row, Status

\* a new pay-in total,
LEMMA SetPayIns ==
  ASSUME NEW o \in Row, NEW x \in Nat, NEW n, n = [o EXCEPT !.payIns = x]
  PROVE  /\ n \in Row
         /\ n.status = o.status
         /\ n.opening = o.opening
         /\ n.cash = o.cash
         /\ n.change = o.change
         /\ n.refunds = o.refunds
         /\ n.payIns = x
         /\ n.payOuts = o.payOuts
BY DEF Row, Status

\* a new pay-out total,
LEMMA SetPayOuts ==
  ASSUME NEW o \in Row, NEW x \in Nat, NEW n, n = [o EXCEPT !.payOuts = x]
  PROVE  /\ n \in Row
         /\ n.status = o.status
         /\ n.opening = o.opening
         /\ n.cash = o.cash
         /\ n.change = o.change
         /\ n.refunds = o.refunds
         /\ n.payIns = o.payIns
         /\ n.payOuts = x
BY DEF Row, Status

\* a new refund total.
LEMMA SetRefunds ==
  ASSUME NEW o \in Row, NEW x \in Nat, NEW n, n = [o EXCEPT !.refunds = x]
  PROVE  /\ n \in Row
         /\ n.status = o.status
         /\ n.opening = o.opening
         /\ n.cash = o.cash
         /\ n.change = o.change
         /\ n.refunds = x
         /\ n.payIns = o.payIns
         /\ n.payOuts = o.payOuts
BY DEF Row, Status

\* The row after a tender with change.
LEMMA SetTendered ==
  ASSUME NEW o \in Row, NEW x \in Nat, NEW y \in Nat, NEW n, n = Tendered(o, x, y)
  PROVE  /\ n \in Row /\ n.status = o.status /\ n.opening = o.opening
         /\ n.cash = o.cash + x /\ n.change = o.change + y
         /\ n.refunds = o.refunds /\ n.payIns = o.payIns /\ n.payOuts = o.payOuts
BY RowTendered

\* What a write adds to the counters of its session is what it moves in the drawer.
LEMMA WriteMoney ==
  ASSUME TypeOK, UnopenedBlank, LocksHeld, RefundsBehind, NEW r \in Request,
         \/ CheckoutWrite(r) \/ PayInWrite(r) \/ PayOutWrite(r) \/ PauseWrite(r)
         \/ ResumeWrite(r) \/ CloseWrite(r) \/ (RefundWrite(r) /\ ~Quiet(r))
  PROVE  LET t == mem[r].sid
             o == session[t]
             n == session'[t]
         IN
         /\ t \in Session /\ o \in Row /\ n \in Row
         /\ n.status # "closed" =>
              /\ Live(t)
              /\ (n.opening + n.cash - n.change + n.payIns - n.payOuts)
                   - (o.opening + o.cash - o.change + o.payIns - o.payOuts)
                   = (drawer'[t] + refunded'[t]) - (drawer[t] + refunded[t])
              /\ (n.cash - n.change) - (o.cash - o.change) = sale'[t].net - sale[t].net
         /\ office'[t] = office[t]
         /\ \/ /\ job[r].kind = "refund"
               /\ n.refunds = mem[r].row.refunds + job[r].amount
               /\ refunded'[t] = refunded[t] + job[r].amount
            \/ n.refunds = o.refunds /\ refunded'[t] = refunded[t]
<1> DEFINE t == mem[r].sid
           o == session[t]
           n == session'[t]
<1>1. /\ pc[r] = "write" /\ job[r].kind # "open" /\ job[r].kind # "receipt"
  BY DEF CheckoutWrite, PayInWrite, PayOutWrite, PauseWrite, ResumeWrite, CloseWrite,
         RefundWrite
<1>2. /\ t \in Session /\ Exists(t)
      /\ job[r].kind # "refund" =>
            o.status = IF job[r].kind = "resume" THEN "paused" ELSE "open"
  BY <1>1, WriteTarget
<1>3. /\ o \in Row /\ job[r].amount \in Nat /\ job[r].tender \in Nat
      /\ mem[r].row \in Row /\ drawer[t] \in Int /\ refunded[t] \in Nat
      /\ sale[t] \in [net : Nat, due : Nat]
  BY <1>2, JobFacts DEF TypeOK, Mem
<1>4. /\ o.opening \in Nat /\ o.cash \in Nat /\ o.change \in Nat
      /\ o.refunds \in Nat /\ o.payIns \in Nat /\ o.payOuts \in Nat
      /\ mem[r].row.refunds \in Nat
  BY <1>3, RowFields
<1>5. CASE CheckoutWrite(r)
  <2> DEFINE paid == IF job[r].tender > job[r].amount THEN job[r].amount ELSE job[r].tender
             change == job[r].tender - paid
  <2>1. paid \in Nat /\ change \in Nat /\ job[r].amount - paid \in Nat
        /\ job[r].tender - change = paid
    BY <1>3
  <2>2. /\ session' = [session EXCEPT ![t] = Tendered(@, job[r].tender, change)]
        /\ sale' = [sale EXCEPT ![t] = Booked(@, paid, job[r].amount - paid)]
        /\ drawer' = [drawer EXCEPT ![t] = @ + paid]
        /\ UNCHANGED <<refunded, office>>
    BY <1>5 DEF CheckoutWrite
  <2> HIDE DEF paid, change
  <2>3. /\ n = Tendered(o, job[r].tender, change)
        /\ sale'[t] = Booked(sale[t], paid, job[r].amount - paid)
        /\ drawer'[t] = drawer[t] + paid
    BY <1>2, <2>2 DEF TypeOK
  <2>4. /\ n \in Row /\ n.status = o.status /\ n.opening = o.opening
        /\ n.cash = o.cash + job[r].tender /\ n.change = o.change + change
        /\ n.refunds = o.refunds /\ n.payIns = o.payIns /\ n.payOuts = o.payOuts
    <3> HIDE DEF o, n
    <3>1. o \in Row
      BY <1>3
    <3>2. PICK x \in Nat : x = job[r].tender
      BY <1>3
    <3>3. PICK y \in Nat : y = change
      BY <2>1
    <3>4. n = Tendered(o, x, y)
      BY <2>3, <3>2, <3>3
    <3>5. /\ n \in Row /\ n.status = o.status /\ n.opening = o.opening
          /\ n.cash = o.cash + x /\ n.change = o.change + y
          /\ n.refunds = o.refunds /\ n.payIns = o.payIns /\ n.payOuts = o.payOuts
      BY <3>1, <3>4, SetTendered
    <3> QED
      BY <3>2, <3>3, <3>5
  <2>5. sale'[t].net = sale[t].net + paid
    BY <2>3 DEF Booked
  <2>6. Live(t)
    BY <1>2, <1>5 DEF CheckoutWrite, Live
  <2>7. UNCHANGED <<refunded, office>>
    BY <2>2
  <2> HIDE DEF t, o, n
  <2> QED
    BY <1>2, <1>3, <1>4, <2>1, <2>3, <2>4, <2>5, <2>6, <2>7 DEF t, o, n
<1>6. CASE PayInWrite(r)
  <2>1. n = [o EXCEPT !.payIns = o.payIns + job[r].amount]
    BY <1>2, <1>6, WrittenRow
  <2>2. n \in Row /\ n.status = o.status /\ n.opening = o.opening /\ n.cash = o.cash
        /\ n.change = o.change /\ n.payIns = o.payIns + job[r].amount
        /\ n.payOuts = o.payOuts /\ n.refunds = o.refunds
    <3>1. o.payIns + job[r].amount \in Nat
      BY <1>3, <1>4
    <3> HIDE DEF o, n
    <3> QED
      BY <1>3, <2>1, <3>1, SetPayIns
  <2>3. /\ drawer'[t] = drawer[t] + job[r].amount
        /\ UNCHANGED <<refunded, office, sale>>
    BY <1>2, <1>6 DEF PayInWrite, TypeOK
  <2>4. Live(t)
    BY <1>2, <1>6 DEF PayInWrite, Live
  <2> QED
    BY <1>2, <1>3, <1>4, <2>2, <2>3, <2>4
<1>7. CASE PayOutWrite(r)
  <2>1. n = [o EXCEPT !.payOuts = o.payOuts + job[r].amount]
    BY <1>2, <1>7, WrittenRow
  <2>2. n \in Row /\ n.status = o.status /\ n.opening = o.opening /\ n.cash = o.cash
        /\ n.change = o.change /\ n.payIns = o.payIns
        /\ n.payOuts = o.payOuts + job[r].amount /\ n.refunds = o.refunds
    <3>1. o.payOuts + job[r].amount \in Nat
      BY <1>3, <1>4
    <3> HIDE DEF o, n
    <3> QED
      BY <1>3, <2>1, <3>1, SetPayOuts
  <2>3. /\ drawer'[t] = drawer[t] - job[r].amount
        /\ UNCHANGED <<refunded, office, sale>>
    BY <1>2, <1>7 DEF PayOutWrite, TypeOK
  <2>4. Live(t)
    BY <1>2, <1>7 DEF PayOutWrite, Live
  <2> QED
    BY <1>2, <1>3, <1>4, <2>2, <2>3, <2>4
<1>8. CASE PauseWrite(r) \/ ResumeWrite(r)
  <2>1. PICK st \in Status : n = [o EXCEPT !.status = st]
    <3>1. "paused" \in Status /\ "open" \in Status
      BY DEF Status
    <3> QED
      BY <1>2, <1>8, <3>1 DEF PauseWrite, ResumeWrite, TypeOK
  <2>2. n \in Row /\ n.opening = o.opening /\ n.cash = o.cash /\ n.change = o.change
        /\ n.payIns = o.payIns /\ n.payOuts = o.payOuts /\ n.refunds = o.refunds
    <3> HIDE DEF o, n
    <3> QED
      BY <1>3, <2>1, SetStatus
  <2>3. UNCHANGED <<drawer, refunded, office, sale>>
    BY <1>8 DEF PauseWrite, ResumeWrite, ghosts
  <2>4. Live(t)
    BY <1>2, <1>8 DEF PauseWrite, ResumeWrite, Live
  <2> QED
    BY <1>2, <1>3, <1>4, <2>2, <2>3, <2>4
<1>9. CASE CloseWrite(r)
  <2>1. PICK mine : n = Closed(o, mine, drawer[t])
    BY <1>2, <1>9 DEF CloseWrite, Recomputed, TypeOK
  <2>2. n.status = "closed" /\ n.refunds = o.refunds
    BY <1>3, <2>1 DEF Closed, Row
  <2>3. n \in Row
    BY <1>2, <1>9, WriteStepType DEF TypeOK
  <2>4. UNCHANGED <<office, refunded>>
    BY <1>9 DEF CloseWrite, ghosts
  <2> QED
    BY <1>2, <1>3, <2>2, <2>3, <2>4
<1>10. CASE RefundWrite(r) /\ ~Quiet(r)
  <2>1. n = [o EXCEPT !.refunds = mem[r].row.refunds + job[r].amount]
    BY <1>2, <1>10, WrittenRow
  <2>2. n \in Row /\ n.status = o.status /\ n.opening = o.opening /\ n.cash = o.cash
        /\ n.change = o.change /\ n.payIns = o.payIns /\ n.payOuts = o.payOuts
        /\ n.refunds = mem[r].row.refunds + job[r].amount
    <3>1. mem[r].row.refunds + job[r].amount \in Nat
      BY <1>3, <1>4
    <3> HIDE DEF o, n
    <3> QED
      BY <1>3, <2>1, <3>1, SetRefunds
  <2>3. /\ drawer'[t] = drawer[t] - job[r].amount
        /\ refunded'[t] = refunded[t] + job[r].amount
        /\ UNCHANGED <<office, sale>>
    BY <1>2, <1>10 DEF RefundWrite, Quiet, Answer, TypeOK
  <2>4. job[r].kind = "refund"
    BY <1>10 DEF RefundWrite
  <2>5. n.status # "closed" => Live(t)
    BY <1>2, <1>3, <2>2 DEF Exists, Live, Row, Status
  <2> QED
    BY <1>2, <1>3, <1>4, <2>2, <2>3, <2>4, <2>5
<1> QED
  BY <1>2, <1>5, <1>6, <1>7, <1>8, <1>9, <1>10

\* The writes of a request to the session it works on.
SessionWrite(r) ==
    \/ CheckoutWrite(r) \/ PayInWrite(r) \/ PayOutWrite(r) \/ PauseWrite(r)
    \/ ResumeWrite(r) \/ CloseWrite(r) \/ (RefundWrite(r) /\ ~Quiet(r))

\* What an open adds: one row, with the opening balance in the drawer.
LEMMA OpenMoney ==
  ASSUME TypeOK, UnopenedBlank, NEW r \in Request, OpenWrite(r), ~Quiet(r)
  PROVE  LET t == last + 1 IN
         /\ t \in Session /\ ~Exists(t)
         /\ session'[t].status = "open" /\ session'[t].refunds = 0
         /\ session'[t].opening + session'[t].cash - session'[t].change
              + session'[t].payIns - session'[t].payOuts = drawer'[t] + refunded'[t]
         /\ sale'[t].net = session'[t].cash - session'[t].change + office'[t]
         /\ refunded'[t] = 0
         /\ \A s \in Session : s # t =>
              /\ session'[s] = session[s] /\ drawer'[s] = drawer[s] /\ sale'[s] = sale[s]
              /\ refunded'[s] = refunded[s] /\ office'[s] = office[s]
<1> DEFINE t == last + 1
<1>1. /\ last < MaxSession
      /\ session' = [session EXCEPT ![t] = NewRow(job[r].amount)]
      /\ drawer' = [drawer EXCEPT ![t] = job[r].amount]
      /\ UNCHANGED <<sale, refunded, office>>
  BY DEF OpenWrite, Quiet, Answer
<1>2. t \in Session /\ t > last
  BY <1>1, SizeAssumption DEF TypeOK, Session
<1>3. ~Exists(t) /\ sale[t] = [net |-> 0, due |-> 0] /\ refunded[t] = 0 /\ office[t] = 0
  BY <1>2 DEF UnopenedBlank
<1>4. session'[t] = NewRow(job[r].amount) /\ drawer'[t] = job[r].amount
  BY <1>1, <1>2 DEF TypeOK
<1>5. job[r].amount \in Nat
  BY JobFacts DEF TypeOK
<1>6. LET n == NewRow(job[r].amount) IN
      /\ n.status = "open" /\ n.refunds = 0 /\ n.opening = job[r].amount
      /\ n.cash = 0 /\ n.change = 0 /\ n.payIns = 0 /\ n.payOuts = 0
  BY DEF NewRow, NoRow
<1>7. \A s \in Session : s # t => session'[s] = session[s] /\ drawer'[s] = drawer[s]
  BY <1>1 DEF TypeOK
<1> QED
  BY <1>1, <1>2, <1>3, <1>4, <1>5, <1>6, <1>7

\* What a receipt adds: the same to the payments of a session and to the office.
LEMMA ReceiptMoney ==
  ASSUME TypeOK, NEW r \in Request, Receipt(r), ~Quiet(r)
  PROVE  /\ UNCHANGED <<session, drawer, refunded, last, returned, returns>>
         /\ \A s \in Session : sale'[s].net - sale[s].net = office'[s] - office[s]
<1>1. PICK t \in Session :
        LET paid == IF job[r].amount > sale[t].due THEN sale[t].due ELSE job[r].amount
        IN /\ sale' = [sale EXCEPT ![t] = Booked(@, paid, -paid)]
           /\ office' = [office EXCEPT ![t] = @ + paid]
           /\ UNCHANGED <<session, drawer, refunded, last, returned, returns>>
  BY DEF Receipt, Quiet, Answer
<1>2. job[r].amount \in Nat /\ \A s \in Session : sale[s].due \in Nat /\ sale[s].net \in Nat
  BY JobFacts DEF TypeOK
<1>3. PICK paid \in Nat :
        /\ sale' = [sale EXCEPT ![t] = Booked(@, paid, -paid)]
        /\ office' = [office EXCEPT ![t] = @ + paid]
  BY <1>1, <1>2
<1>4. /\ sale'[t] = Booked(sale[t], paid, -paid) /\ office'[t] = office[t] + paid
      /\ \A s \in Session : s # t => sale'[s] = sale[s] /\ office'[s] = office[s]
  BY <1>3 DEF TypeOK
<1>5. sale'[t].net = sale[t].net + paid
  BY <1>4 DEF Booked
<1>6. \A s \in Session : office[s] \in Nat
  BY DEF TypeOK
<1>7. sale'[t].net - sale[t].net = office'[t] - office[t]
  BY <1>2, <1>4, <1>5, <1>6
<1>8. ASSUME NEW s \in Session, s # t
      PROVE  sale'[s].net - sale[s].net = office'[s] - office[s]
  <2>1. sale'[s].net = sale[s].net /\ office'[s] = office[s]
    BY <1>4, <1>8
  <2> QED
    BY <1>2, <1>6, <2>1
<1>9. UNCHANGED <<session, drawer, refunded, last, returned, returns>>
  BY <1>1
<1> QED
  BY <1>7, <1>8, <1>9

\* The three ways a step touches the books.
LEMMA MoneyCases ==
  ASSUME NEW r \in Request, Step(r), ~Quiet(r)
  PROVE  OpenWrite(r) \/ SessionWrite(r) \/ Receipt(r)
BY StepCases DEF SessionWrite


\* No counter update is lost: the row lock keeps the copy a locker writes from
\* equal to the row, and the other writes are increments or touch other counters.
LEMMA CountersNext ==
  ASSUME TypeOK, IndInv, CountersMatchDrawer, NEW r \in Request, Step(r)
  PROVE  CountersMatchDrawer'
<1> USE DEF IndInv
<1> DEFINE Sum(row) == row.opening + row.cash - row.change + row.payIns - row.payOuts
<1>1. CASE Quiet(r)
  <2>1. UNCHANGED <<session, drawer, refunded>>
    BY <1>1, QuietFrame
  <2> QED
    BY <2>1 DEF CountersMatchDrawer, Live
<1>2. CASE OpenWrite(r) /\ ~Quiet(r)
  BY <1>2, OpenMoney DEF CountersMatchDrawer, Live
<1>3. CASE SessionWrite(r)
  <2> DEFINE t == mem[r].sid
  <2>1. /\ t \in Session /\ session[t] \in Row /\ session'[t] \in Row
        /\ session'[t].status # "closed" =>
             /\ Live(t)
             /\ Sum(session'[t]) - Sum(session[t])
                  = (drawer'[t] + refunded'[t]) - (drawer[t] + refunded[t])
    BY <1>3, WriteMoney DEF SessionWrite
  <2>2. \A s \in Session : s # t => /\ session'[s] = session[s] /\ drawer'[s] = drawer[s]
                                    /\ refunded'[s] = refunded[s]
    BY <1>3, WriteElsewhere DEF SessionWrite
  <2>3. Live(t) => Sum(session[t]) = drawer[t] + refunded[t]
    BY <2>1 DEF CountersMatchDrawer
  <2>4. Sum(session'[t]) \in Int /\ Sum(session[t]) \in Int
    BY <2>1, RowFields
  <2>5. /\ drawer[t] \in Int /\ refunded[t] \in Int
        /\ drawer'[t] \in Int /\ refunded'[t] \in Int
    <3>1. TypeOK'
      BY <1>3, TypeNext DEF SessionWrite, Step, Proceed, Next
    <3> QED
      BY <2>1, <3>1 DEF TypeOK
  <2>6. (session'[t].status \in {"open", "paused"}) =>
           Sum(session'[t]) = drawer'[t] + refunded'[t]
    <3> HIDE DEF Sum
    <3> QED
      BY <2>1, <2>3, <2>4, <2>5
  <2> QED
    BY <2>2, <2>6 DEF CountersMatchDrawer, Live
<1>4. CASE Receipt(r) /\ ~Quiet(r)
  <2>1. UNCHANGED <<session, drawer, refunded>>
    BY <1>4, ReceiptMoney
  <2> QED
    BY <2>1 DEF CountersMatchDrawer, Live
<1> QED
  BY <1>1, <1>2, <1>3, <1>4, MoneyCases

\* The sum of the sale payments stays the cash less the change, plus the office.
LEMMA RecomputedNext ==
  ASSUME TypeOK, IndInv, RecomputedCashAgrees, NEW r \in Request, Step(r)
  PROVE  RecomputedCashAgrees'
<1> USE DEF IndInv
<1>1. CASE Quiet(r)
  <2>1. UNCHANGED <<session, sale, office>>
    BY <1>1, QuietFrame
  <2> QED
    BY <2>1 DEF RecomputedCashAgrees, Live
<1>2. CASE OpenWrite(r) /\ ~Quiet(r)
  BY <1>2, OpenMoney DEF RecomputedCashAgrees, Live
<1>3. CASE SessionWrite(r)
  <2> DEFINE t == mem[r].sid
             Kept(row) == row.cash - row.change
  <2>1. /\ t \in Session /\ session[t] \in Row /\ session'[t] \in Row
        /\ session'[t].status # "closed" =>
             Live(t) /\ Kept(session'[t]) - Kept(session[t]) = sale'[t].net - sale[t].net
        /\ office'[t] = office[t]
    BY <1>3, WriteMoney DEF SessionWrite
  <2>2. \A s \in Session : s # t => /\ session'[s] = session[s] /\ sale'[s] = sale[s]
                                    /\ office'[s] = office[s]
    BY <1>3, WriteElsewhere DEF SessionWrite
  <2>3. Live(t) => sale[t].net = Kept(session[t]) + office[t]
    BY <2>1 DEF RecomputedCashAgrees
  <2>4. Kept(session'[t]) \in Int /\ Kept(session[t]) \in Int
    BY <2>1, RowFields
  <2>5. sale[t].net \in Int /\ sale'[t].net \in Int /\ office[t] \in Int
    <3>1. TypeOK'
      BY <1>3, TypeNext DEF SessionWrite, Step, Proceed, Next
    <3> QED
      BY <2>1, <3>1 DEF TypeOK
  <2>6. (session'[t].status \in {"open", "paused"}) =>
           sale'[t].net = Kept(session'[t]) + office'[t]
    <3> HIDE DEF Kept
    <3> QED
      BY <2>1, <2>3, <2>4, <2>5
  <2> QED
    BY <2>2, <2>6 DEF RecomputedCashAgrees, Live
<1>4. CASE Receipt(r) /\ ~Quiet(r)
  <2>1. /\ session' = session
        /\ \A s \in Session : sale'[s].net - sale[s].net = office'[s] - office[s]
    BY <1>4, ReceiptMoney
  <2>2. TypeOK'
    BY <1>4, TypeNext DEF Step, Next
  <2>3. \A s \in Session :
          /\ sale[s].net \in Int /\ sale'[s].net \in Int
          /\ office[s] \in Int /\ office'[s] \in Int
          /\ session[s].cash \in Int /\ session[s].change \in Int
    BY <2>2 DEF TypeOK, Row
  <2>4. ASSUME NEW s \in Session, session[s].status \in {"open", "paused"}
        PROVE  sale'[s].net = session[s].cash - session[s].change + office'[s]
    <3>1. sale[s].net = session[s].cash - session[s].change + office[s]
      BY <2>4 DEF RecomputedCashAgrees, Live
    <3> QED
      BY <2>1, <2>3, <3>1
  <2> QED
    BY <2>1, <2>4 DEF RecomputedCashAgrees, Live
<1> QED
  BY <1>1, <1>2, <1>3, <1>4, MoneyCases

\* A refund counter is written from a copy that was not ahead of the cash.
LEMMA RefundsNext ==
  ASSUME TypeOK, IndInv, RefundsNotOvercounted, NEW r \in Request, Step(r)
  PROVE  RefundsNotOvercounted'
<1> USE DEF IndInv
<1>1. CASE Quiet(r)
  <2>1. UNCHANGED <<session, refunded>>
    BY <1>1, QuietFrame
  <2> QED
    BY <2>1 DEF RefundsNotOvercounted
<1>2. CASE OpenWrite(r) /\ ~Quiet(r)
  BY <1>2, OpenMoney DEF RefundsNotOvercounted
<1>3. CASE SessionWrite(r)
  <2> DEFINE t == mem[r].sid
  <2>1. /\ t \in Session
        /\ \/ /\ job[r].kind = "refund"
              /\ session'[t].refunds = mem[r].row.refunds + job[r].amount
              /\ refunded'[t] = refunded[t] + job[r].amount
           \/ session'[t].refunds = session[t].refunds /\ refunded'[t] = refunded[t]
    BY <1>3, WriteMoney DEF SessionWrite
  <2>2. \A s \in Session : s # t =>
          session'[s] = session[s] /\ refunded'[s] = refunded[s]
    BY <1>3, WriteElsewhere DEF SessionWrite
  <2>3. Active(r)
    BY <1>3 DEF SessionWrite, CheckoutWrite, PayInWrite, PayOutWrite, PauseWrite,
                ResumeWrite, CloseWrite, RefundWrite, Active
  <2>4. job[r].kind = "refund" => mem[r].row.refunds <= refunded[t]
    BY <2>3 DEF RefundsBehind
  <2>5. mem[r].row.refunds \in Nat /\ refunded[t] \in Nat /\ job[r].amount \in Nat
    BY <2>1, JobFacts DEF TypeOK, Mem, Row
  <2>6. session'[t].refunds <= refunded'[t]
    BY <2>1, <2>4, <2>5 DEF RefundsNotOvercounted
  <2> QED
    BY <2>2, <2>6 DEF RefundsNotOvercounted
<1>4. CASE Receipt(r) /\ ~Quiet(r)
  <2>1. UNCHANGED <<session, refunded>>
    BY <1>4, ReceiptMoney
  <2> QED
    BY <2>1 DEF RefundsNotOvercounted
<1> QED
  BY <1>1, <1>2, <1>3, <1>4, MoneyCases


\* Rows, refunds and return numbers only grow; only a return that was checked and
\* posted adds to the units returned.
LEMMA Growth ==
  ASSUME TypeOK, IndInv, NEW r \in Request, Step(r)
  PROVE  /\ \A s \in Session : /\ Exists(s) => session'[s].status # "none"
                               /\ refunded'[s] >= refunded[s]
         /\ \/ UNCHANGED <<returned, returns>>
            \/ /\ pc[r] = "write" /\ job[r].kind = "refund"
               /\ returns' = returns + 1 /\ returned' = returned + job[r].amount
               /\ pc' = [pc EXCEPT ![r] = "done"]
<1> USE DEF IndInv
<1>1. UnopenedBlank'
  BY BlankNext
<1>2. last' = last \/ last' = last + 1
  <2>1. CASE Quiet(r)
    BY <2>1, QuietFrame
  <2>2. CASE ~Quiet(r)
    BY <2>2, MoneyCases, ReceiptMoney DEF SessionWrite, OpenWrite, CheckoutWrite, PayInWrite,
       PayOutWrite, PauseWrite, ResumeWrite, CloseWrite, RefundWrite, Quiet, Answer
  <2> QED
    BY <2>1, <2>2
<1>3. \A s \in Session : Exists(s) => session'[s].status # "none"
  <2>1. \A s \in Session : s > last <=> session[s].status = "none"
    BY DEF UnopenedBlank, Exists
  <2>2. \A s \in Session : s > last' <=> session'[s].status = "none"
    BY <1>1 DEF UnopenedBlank, Exists
  <2>3. last \in Int /\ Session \subseteq Int
    BY SizeAssumption DEF TypeOK, Session
  <2> QED
    BY <1>2, <2>1, <2>2, <2>3 DEF Exists
<1>4. \A s \in Session : refunded'[s] >= refunded[s]
  <2>0. \A s \in Session : refunded[s] \in Nat
    BY DEF TypeOK
  <2>1. CASE Quiet(r)
    BY <2>0, <2>1, QuietFrame
  <2>2. CASE OpenWrite(r) /\ ~Quiet(r)
    <3>1. UNCHANGED refunded
      BY <2>2 DEF OpenWrite, Quiet, Answer
    <3> QED
      BY <2>0, <3>1
  <2>3. CASE SessionWrite(r)
    <3> DEFINE t == mem[r].sid
    <3>1. refunded'[t] = refunded[t] + job[r].amount \/ refunded'[t] = refunded[t]
      BY <2>3, WriteMoney DEF SessionWrite
    <3>2. t \in Session
      BY <2>3, WriteMoney DEF SessionWrite
    <3>3. \A s \in Session : s # t => refunded'[s] = refunded[s]
      BY <2>3, WriteElsewhere DEF SessionWrite
    <3>4. job[r].amount \in Nat
      BY JobFacts DEF TypeOK
    <3>5. refunded'[t] >= refunded[t]
      BY <2>0, <3>1, <3>2, <3>4
    <3> QED
      BY <2>0, <3>3, <3>5
  <2>4. CASE Receipt(r) /\ ~Quiet(r)
    <3>1. UNCHANGED refunded
      BY <2>4, ReceiptMoney
    <3> QED
      BY <2>0, <3>1
  <2> QED
    BY <2>1, <2>2, <2>3, <2>4, MoneyCases
<1>5. \/ UNCHANGED <<returned, returns>>
      \/ /\ pc[r] = "write" /\ job[r].kind = "refund"
         /\ returns' = returns + 1 /\ returned' = returned + job[r].amount
         /\ pc' = [pc EXCEPT ![r] = "done"]
  <2>1. CASE Quiet(r)
    BY <2>1, QuietFrame
  <2>2. CASE RefundWrite(r) /\ ~Quiet(r)
    BY <2>2 DEF RefundWrite, Quiet, Answer, Commit, Reply, Go
  <2>3. CASE ~Quiet(r) /\ ~RefundWrite(r)
    BY <2>3, MoneyCases, ReceiptMoney DEF SessionWrite, OpenWrite, CheckoutWrite, PayInWrite,
       PayOutWrite, PauseWrite, ResumeWrite, CloseWrite, Quiet, Answer
  <2> QED
    BY <2>1, <2>2, <2>3
<1> QED
  BY <1>3, <1>4, <1>5

\* The copy a return works on is never ahead of the cash handed back.
LEMMA BehindNext ==
  ASSUME TypeOK, IndInv, RefundsNotOvercounted, NEW r \in Request, Step(r)
  PROVE  RefundsBehind'
<1> USE DEF IndInv
<1>1. /\ job' = job
      /\ \A q \in Request : q # r => pc'[q] = pc[q] /\ mem'[q] = mem[q]
  BY Others
<1>2. \A s \in Session : /\ Exists(s) => session'[s].status # "none"
                         /\ refunded'[s] >= refunded[s]
  BY Growth
<1>3. \A s \in Session : refunded[s] \in Nat /\ refunded'[s] \in Nat
  <2>1. TypeOK'
    BY TypeNext DEF Step, Next
  <2> QED
    BY <2>1 DEF TypeOK
<1> DEFINE Behind(q) == /\ mem[q].sid \in Session /\ Exists(mem[q].sid)
                        /\ mem[q].row.refunds <= refunded[mem[q].sid]
<1>4. ASSUME NEW q \in Request, mem'[q].sid = mem[q].sid, mem'[q].row = mem[q].row,
             Behind(q)
      PROVE  Behind(q)'
  <2>1. mem[q].row.refunds \in Nat
    BY DEF TypeOK, Mem, Row
  <2> QED
    BY <1>2, <1>3, <1>4, <2>1 DEF Exists
<1>5. ASSUME NEW q \in Request, q # r, job'[q].kind = "refund" /\ Active(q)'
      PROVE  Behind(q)'
  <2>1. job[q].kind = "refund" /\ Active(q) /\ mem'[q] = mem[q]
    BY <1>1, <1>5 DEF Active
  <2>2. Behind(q)
    BY <2>1 DEF RefundsBehind
  <2> QED
    BY <1>4, <2>1, <2>2
<1>6. ASSUME job[r].kind = "refund", Active(r)' PROVE Behind(r)'
  <2>1. pc'[r] # "done"
    BY <1>6 DEF Active
  <2>2. ~ (Commit(r) \/ \E a \in Answer : EndUnwritten(r, a))
    BY <2>1, EndFacts DEF TypeOK
  <2>3. /\ "error" \in Answer /\ "conflict" \in Answer /\ "rejected" \in Answer
        /\ "mismatch" \in Answer /\ "replay" \in Answer
    BY DEF Answer
  <2>4. CASE RefundGuard(r)
    <3>1. PICK s \in Session : /\ session[s].status = "open"
                               /\ mem' = [mem EXCEPT ![r].sid = s, ![r].row = session[s]]
                               /\ UNCHANGED <<session, refunded>>
      BY <2>2, <2>3, <2>4 DEF RefundGuard, Newest, tables, ghosts
    <3>2. mem'[r].sid = s /\ mem'[r].row = session[s]
      BY <3>1 DEF TypeOK, Mem
    <3> QED
      BY <3>1, <3>2 DEF RefundsNotOvercounted, Exists
  <2>5. CASE \/ LedgerLookup(r) \/ LedgerInsert(r) \/ RefundNumber(r)
             \/ RefundInsert(r) \/ RefundCheck(r) \/ RefundPost(r)
    <3>1. Active(r)
      BY <2>5 DEF LedgerLookup, LedgerInsert, RefundNumber, RefundInsert, RefundCheck,
                  RefundPost, Active
    <3>2. Behind(r)
      BY <1>6, <3>1 DEF RefundsBehind
    <3>3. mem' = mem \/ mem' = [mem EXCEPT ![r].number = returns]
      BY <2>2, <2>3, <2>5 DEF LedgerLookup, LedgerInsert, RefundNumber, RefundInsert,
                              RefundCheck, RefundPost
    <3>4. mem'[r].sid = mem[r].sid /\ mem'[r].row = mem[r].row
      BY <3>3 DEF TypeOK, Mem
    <3> QED
      BY <1>4, <3>2, <3>4
  <2>6. ~ (LockOpen(r) \/ LockPaused(r) \/ OpenNumber(r) \/ OpenLockLatest(r))
    BY <1>6 DEF LockOpen, LockPaused, OpenNumber, OpenLockLatest, Places, Lockers
  <2>7. ~ Fail(r)
    BY <2>2, <2>3 DEF Fail
  <2>8. ~ (OpenGuard(r) \/ CheckoutGuard(r) \/ CloseReplay(r))
    BY <1>6 DEF OpenGuard, CheckoutGuard, CloseReplay
  <2> QED
    BY <2>2, <2>4, <2>5, <2>6, <2>7, <2>8, StepCases DEF Quiet, Arrive
<1> QED
  BY <1>1, <1>5, <1>6 DEF RefundsBehind

\* A return keeps its number, and the quantity it has checked stays right.
LEMMA FreshNext ==
  ASSUME TypeOK, IndInv, NEW r \in Request, Step(r)
  PROVE  ChecksFresh'
<1> USE DEF IndInv
<1>1. /\ job' = job
      /\ \A q \in Request : q # r => pc'[q] = pc[q] /\ mem'[q] = mem[q]
      /\ \/ shared'["returns"] = shared["returns"]
         \/ shared["returns"] = None /\ shared'["returns"] = r
         \/ shared["returns"] = r /\ shared'["returns"] = None
  BY Others DEF Shared
<1>2. \/ UNCHANGED <<returned, returns>>
      \/ /\ pc[r] = "write" /\ job[r].kind = "refund"
         /\ pc' = [pc EXCEPT ![r] = "done"]
  BY Growth
<1> DEFINE Fresh(q) == /\ shared["returns"] = q
                       /\ pc[q] # "check" => returned + job[q].amount <= SoldUnits
<1>3. shared \in [Shared -> Request \union {None}] /\ "returns" \in Shared
  BY DEF TypeOK, Shared
<1>4. ASSUME NEW q \in Request, q # r, job'[q].kind = "refund",
             pc'[q] \in {"check", "post", "write"}
      PROVE  Fresh(q)'
  <2>1. Fresh(q) /\ pc'[q] = pc[q]
    BY <1>1, <1>4 DEF ChecksFresh
  <2>2. ~(pc[r] = "write" /\ job[r].kind = "refund")
    BY <1>4, <2>1 DEF ChecksFresh
  <2> QED
    BY <1>1, <1>2, <1>4, <2>1, <2>2, NoneAssumption
<1>5. ASSUME job[r].kind = "refund", pc'[r] \in {"check", "post", "write"} PROVE Fresh(r)'
  <2>2. ~ (Commit(r) \/ \E a \in Answer : EndUnwritten(r, a))
    BY <1>5, EndFacts DEF TypeOK
  <2>3. /\ "error" \in Answer /\ "conflict" \in Answer /\ "rejected" \in Answer
        /\ "mismatch" \in Answer /\ "replay" \in Answer
    BY DEF Answer
  <2>4. CASE RefundInsert(r)
    <3>1. pc' = [pc EXCEPT ![r] = "check"] /\ shared' = [shared EXCEPT !["returns"] = r]
      BY <2>2, <2>3, <2>4 DEF RefundInsert, Go
    <3> QED
      BY <1>3, <3>1 DEF TypeOK
  <2>5. CASE RefundCheck(r)
    <3>1. /\ pc[r] = "check" /\ UNCHANGED <<shared, returned>>
          /\ returned + job[r].amount <= SoldUnits
      BY <2>2, <2>3, <2>5 DEF RefundCheck, tables
    <3>2. shared["returns"] = r
      BY <1>5, <3>1 DEF ChecksFresh
    <3> QED
      BY <1>1, <3>1, <3>2
  <2>6. CASE RefundPost(r)
    <3>1. pc[r] = "post" /\ UNCHANGED returned /\ shared' = [shared EXCEPT !["books"] = r]
      BY <2>6 DEF RefundPost
    <3>2. Fresh(r)
      BY <1>5, <3>1 DEF ChecksFresh
    <3> QED
      BY <1>1, <1>3, <3>1, <3>2
  <2>7. CASE RefundGuard(r) \/ LedgerLookup(r) \/ LedgerInsert(r) \/ RefundNumber(r)
    <3>1. \/ pc' = [pc EXCEPT ![r] = "begin"] \/ pc' = [pc EXCEPT ![r] = "insert"]
          \/ pc' = [pc EXCEPT ![r] = "number"] \/ pc' = [pc EXCEPT ![r] = "latest"]
      BY <1>5, <2>2, <2>3, <2>7 DEF RefundGuard, LedgerLookup, LedgerInsert, RefundNumber,
         AfterLedger, Go
    <3> QED
      BY <1>5, <3>1 DEF TypeOK
  <2>8. ~ (LockOpen(r) \/ LockPaused(r) \/ OpenNumber(r) \/ OpenLockLatest(r))
    BY <1>5 DEF LockOpen, LockPaused, OpenNumber, OpenLockLatest, Places, Lockers
  <2>9. ~ Fail(r)
    BY <2>2, <2>3 DEF Fail
  <2>10. ~ (OpenGuard(r) \/ CheckoutGuard(r) \/ CloseReplay(r))
    BY <1>5 DEF OpenGuard, CheckoutGuard, CloseReplay
  <2> QED
    BY <2>2, <2>4, <2>5, <2>6, <2>7, <2>8, <2>9, <2>10, StepCases DEF Quiet, Arrive
<1> QED
  BY <1>1, <1>4, <1>5 DEF ChecksFresh

\* The unit a return takes back is covered by the check it made.
LEMMA ReturnsNext ==
  ASSUME TypeOK, IndInv, NoOverReturn, NEW r \in Request, Step(r)
  PROVE  NoOverReturn'
<1>1. CASE UNCHANGED <<returned, returns>>
  BY <1>1 DEF NoOverReturn
<1>2. CASE /\ pc[r] = "write" /\ job[r].kind = "refund"
           /\ returned' = returned + job[r].amount
  BY <1>2 DEF NoOverReturn, IndInv, ChecksFresh
<1> QED
  BY <1>1, <1>2, Growth

---------------------------------------------------------------------------
(***************************************************************************)
(* The keys.                                                               *)
(***************************************************************************)

\* Only the four keyed kinds of request carry a key.
LEMMA KeyedFacts ==
  ASSUME TypeOK, NEW r \in Request, IsKeyed(r)
  PROVE  job[r].kind \in Keyed /\ SlotOf(r) \in L!Slot
<1>1. job[r] \in Jobs
  BY DEF TypeOK
<1>2. job[r].kind \in Keyed
  BY <1>1, JobsAssumption DEF IsKeyed, KeyOf
<1>3. job[r].key \in Key
  BY <1>1, JobsAssumption DEF IsKeyed, KeyOf, Job
<1> QED
  BY <1>2, <1>3 DEF SlotOf, L!Slot

KeysInv == KeysHeld /\ AtMostOncePerKey /\ LedgerTellsTruth

\* A step that leaves ledger and executions alone keeps the two properties of keys.
LEMMA KeysQuiet ==
  ASSUME TypeOK, IndInv, KeysInv, NEW r \in Request, Step(r), UNCHANGED <<ledger, execs>>
  PROVE  /\ AtMostOncePerKey' /\ LedgerTellsTruth'
         /\ \A k \in L!Slot : /\ ledger'[k].status # "in_progress"
                              /\ ledger'[k].status = "absent" => execs'[k] = {}
         /\ \A k \in L!Slot : L!Present(k)' <=> L!Present(k)
<1>1. job' = job
  BY Others
<1> QED
  BY <1>1 DEF KeysInv, AtMostOncePerKey, LedgerTellsTruth, KeysHeld, L!Present

\* A request gets a key at its insert, gives it up when it ends, and while it
\* has it nobody else completes it.
LEMMA KeysNext ==
  ASSUME TypeOK, IndInv, KeysInv, NEW r \in Request, Step(r)
  PROVE  KeysInv'
<1>1. /\ job' = job
      /\ \A q \in Request : q # r => pc'[q] = pc[q]
  BY Others
<1>2. /\ "error" \in Answer /\ "conflict" \in Answer /\ "rejected" \in Answer
      /\ "mismatch" \in Answer /\ "replay" \in Answer
  BY DEF Answer
<1>3. claim \in [L!Slot -> Request \union {None}]
  BY DEF TypeOK, L!LedgerType
<1>4. /\ \A q \in Request : IsKeyed(q) /\ Working(q) => claim[SlotOf(q)] = q
      /\ \A k \in L!Slot : claim[k] # None =>
            /\ IsKeyed(claim[k]) /\ SlotOf(claim[k]) = k /\ Working(claim[k])
            /\ ~L!Present(k)
      /\ \A k \in L!Slot : /\ ledger[k].status # "in_progress"
                           /\ ledger[k].status = "absent" => execs[k] = {}
  BY DEF KeysInv, KeysHeld
<1>5. \A q \in Request : (IsKeyed(q)' <=> IsKeyed(q)) /\ SlotOf(q)' = SlotOf(q)
  BY <1>1 DEF IsKeyed, KeyOf, SlotOf
<1>6. \A q \in Request : q # r => (Working(q)' <=> Working(q))
  BY <1>1 DEF Working
\* The request ends without having completed a key.
<1>7. ASSUME UNCHANGED <<ledger, execs>>, L!Discard(r), pc'[r] = "done" PROVE KeysInv'
  <2>1. \A k \in L!Slot : claim'[k] = IF claim[k] = r THEN None ELSE claim[k]
    BY <1>7 DEF L!Discard
  <2>2. ~Working(r)'
    BY <1>7 DEF Working
  <2>3. ASSUME NEW q \in Request, (IsKeyed(q) /\ Working(q))' PROVE claim'[SlotOf(q)] = q
    <3>1. q # r /\ IsKeyed(q) /\ Working(q)
      BY <1>5, <1>6, <2>2, <2>3
    <3> QED
      BY <1>4, <2>1, <3>1, KeyedFacts
  <2>4. ASSUME NEW k \in L!Slot, claim'[k] # None
        PROVE  /\ claim'[k] = claim[k] /\ claim[k] \in Request /\ claim[k] # r
    BY <1>3, <2>1, <2>4
  <2>5. KeysHeld'
    BY <1>1, <1>4, <1>5, <1>6, <1>7, <2>3, <2>4, KeysQuiet DEF KeysHeld
  <2> QED
    BY <1>7, <2>5, KeysQuiet DEF KeysInv
\* The request goes on, in the same state of the ledger.
<1>8. ASSUME UNCHANGED <<ledger, claim, execs>>,
             IsKeyed(r) /\ Working(r)' => Working(r),
             IsKeyed(r) /\ Working(r) => Working(r)'
      PROVE  KeysInv'
  <2>1. \A q \in Request : IsKeyed(q) => (Working(q)' <=> Working(q))
    BY <1>6, <1>8
  <2>2. \A q \in Request : IsKeyed(q)' /\ Working(q)' => claim'[SlotOf(q)'] = q
    BY <1>4, <1>5, <1>8, <2>1
  <2>3. ASSUME NEW k \in L!Slot, claim'[k] # None
        PROVE  /\ claim'[k] = claim[k] /\ claim[k] \in Request
               /\ IsKeyed(claim[k])' /\ SlotOf(claim[k])' = k /\ Working(claim[k])'
    BY <1>3, <1>4, <1>5, <1>8, <2>1, <2>3
  <2>4. KeysHeld'
    BY <1>4, <1>8, <2>2, <2>3, KeysQuiet DEF KeysHeld
  <2> QED
    BY <1>8, <2>4, KeysQuiet DEF KeysInv
\* The request inserts its key.
<1>9. ASSUME pc[r] = "insert", claim[SlotOf(r)] = None, ~L!Present(SlotOf(r)),
             L!Insert(SlotOf(r), r), UNCHANGED execs, Working(r)'
      PROVE  KeysInv'
  <2> DEFINE slot == SlotOf(r)
  <2>1. IsKeyed(r) /\ slot \in L!Slot
    BY <1>9, KeyedFacts DEF IndInv, Places
  <2>2. /\ ledger' = ledger /\ claim'[slot] = r
        /\ \A k \in L!Slot : k # slot => claim'[k] = claim[k]
    BY <1>3, <1>9, <2>1 DEF L!Insert
  <2>3. ASSUME NEW q \in Request, (IsKeyed(q) /\ Working(q))' PROVE claim'[SlotOf(q)] = q
    <3>1. CASE q = r
      BY <2>2, <3>1
    <3>2. CASE q # r
      <4>1. IsKeyed(q) /\ Working(q)
        BY <1>5, <1>6, <2>3, <3>2
      <4>2. claim[SlotOf(q)] = q /\ SlotOf(q) \in L!Slot
        BY <1>4, <4>1, KeyedFacts
      <4>3. SlotOf(q) # slot
        BY <1>9, <4>2, NoneAssumption
      <4> QED
        BY <2>2, <4>2, <4>3
    <3> QED
      BY <3>1, <3>2
  <2>4. ASSUME NEW k \in L!Slot, claim'[k] # None
        PROVE  /\ IsKeyed(claim[k])' /\ SlotOf(claim[k])' = k /\ Working(claim[k])'
               /\ ~L!Present(k)
    <3>1. CASE k = slot
      BY <1>5, <1>9, <2>1, <2>2, <3>1
    <3>2. CASE k # slot
      <4>1. claim'[k] = claim[k] /\ claim[k] \in Request /\ claim[k] # r
        <5>1. claim'[k] = claim[k] /\ claim[k] \in Request /\ Working(claim[k])
          BY <1>3, <1>4, <2>2, <2>4, <3>2
        <5>2. ~Working(r)
          BY <1>9 DEF Working
        <5> QED
          BY <5>1, <5>2
      <4> QED
        BY <1>4, <1>5, <1>6, <2>4, <4>1
    <3> QED
      BY <3>1, <3>2
  <2>5. KeysHeld'
    BY <1>5, <1>9, <2>2, <2>3, <2>4, KeysQuiet DEF KeysHeld
  <2> QED
    BY <1>9, <2>2, <2>5, KeysQuiet DEF KeysInv
\* The request completes its key with its business write.
<1>10. ASSUME Commit(r), IsKeyed(r), Working(r) PROVE KeysInv'
  <2> DEFINE slot == SlotOf(r)
  <2>1. slot \in L!Slot /\ claim[slot] = r /\ ~L!Present(slot)
    BY <1>4, <1>10, KeyedFacts, NoneAssumption
  <2>2. execs \in [L!Slot -> SUBSET Request] /\ ledger \in [L!Slot -> L!Row]
    BY DEF TypeOK, L!LedgerType
  <2>3. /\ L!Complete(slot, job[r])
        /\ execs' = [execs EXCEPT ![slot] = IF ledger[slot].aged THEN {r} ELSE @ \union {r}]
        /\ pc'[r] = "done"
    BY <1>10, EndFacts DEF Commit, TypeOK
  <2>4. /\ ledger'[slot] = [status |-> "completed", hash |-> job[r], aged |-> FALSE]
        /\ claim'[slot] = None
        /\ \A k \in L!Slot : k # slot => ledger'[k] = ledger[k] /\ claim'[k] = claim[k]
    BY <1>3, <2>1, <2>2, <2>3 DEF L!Complete
  <2>5. ~ledger[slot].aged => execs[slot] = {}
    BY <1>4, <2>1 DEF L!Present
  <2>6. /\ execs'[slot] = {r}
        /\ \A k \in L!Slot : k # slot => execs'[k] = execs[k]
    BY <2>1, <2>2, <2>3, <2>5
  <2>7. ~Working(r)'
    BY <2>3 DEF Working
  <2>8. ASSUME NEW q \in Request, (IsKeyed(q) /\ Working(q))' PROVE claim'[SlotOf(q)] = q
    <3>1. q # r /\ IsKeyed(q) /\ Working(q)
      BY <1>5, <1>6, <2>7, <2>8
    <3>2. claim[SlotOf(q)] = q /\ SlotOf(q) \in L!Slot
      BY <1>4, <3>1, KeyedFacts
    <3>3. SlotOf(q) # slot
      BY <2>1, <3>1, <3>2
    <3> QED
      BY <2>4, <3>2, <3>3
  <2>9. ASSUME NEW k \in L!Slot, claim'[k] # None
        PROVE  /\ IsKeyed(claim[k])' /\ SlotOf(claim[k])' = k /\ Working(claim[k])'
               /\ k # slot /\ ~L!Present(k)
    <3>1. k # slot /\ claim'[k] = claim[k] /\ claim[k] \in Request
      BY <1>3, <2>4, <2>9
    <3>2. IsKeyed(claim[k]) /\ SlotOf(claim[k]) = k /\ Working(claim[k]) /\ ~L!Present(k)
      BY <1>4, <2>9, <3>1
    <3>3. claim[k] # r
      BY <3>1, <3>2
    <3> QED
      BY <1>5, <1>6, <3>1, <3>2, <3>3
  <2>10. \A k \in L!Slot : k # slot => (L!Present(k)' <=> L!Present(k))
    BY <2>4 DEF L!Present
  <2>11. \A k \in L!Slot : /\ ledger'[k].status # "in_progress"
                           /\ ledger'[k].status = "absent" => execs'[k] = {}
    BY <1>4, <2>4, <2>6
  <2>12. KeysHeld'
    BY <1>5, <2>8, <2>9, <2>10, <2>11 DEF KeysHeld
  <2>13. AtMostOncePerKey'
    BY <2>6 DEF AtMostOncePerKey, KeysInv
  <2>14. ASSUME NEW k \in L!Slot, L!Present(k)'
         PROVE  \E q \in execs'[k] : job'[q] = ledger'[k].hash
    <3>1. CASE k = slot
      BY <1>1, <2>4, <2>6, <3>1
    <3>2. CASE k # slot
      BY <1>1, <2>4, <2>6, <2>10, <2>14, <3>2 DEF KeysInv, LedgerTellsTruth
    <3> QED
      BY <3>1, <3>2
  <2>15. LedgerTellsTruth'
    BY <2>14 DEF LedgerTellsTruth
  <2> QED
    BY <2>12, <2>13, <2>15 DEF KeysInv
\* The steps.
<1>11. ASSUME NEW a \in Answer, EndUnwritten(r, a) PROVE KeysInv'
  <2>1. L!Discard(r) /\ UNCHANGED <<ledger, execs>> /\ pc'[r] = "done"
    BY <1>11 DEF EndUnwritten, L!Discard, Reply, Go, TypeOK
  <2> QED
    BY <1>7, <2>1
<1>12. ASSUME Commit(r), ~IsKeyed(r) PROVE KeysInv'
  <2>1. UNCHANGED <<ledger, claim, execs>>
    BY <1>12 DEF Commit
  <2> QED
    BY <1>8, <1>12, <2>1
<1>13. CASE Arrive(r)
  <2>1. ASSUME UNCHANGED <<ledger, claim, execs>>, pc[r] = "idle",
               pc'[r] = "begin" \/ pc'[r] = "lock"
        PROVE  KeysInv'
    BY <1>8, <2>1 DEF Working
  <2> QED
    BY <1>2, <1>11, <1>13, <2>1 DEF Arrive, OpenGuard, CheckoutGuard, RefundGuard,
       CloseReplay, Go, TypeOK
<1>14. CASE LockOpen(r) \/ LockPaused(r)
  <2>1. ~Working(r) /\ (job[r].kind \in Lockers \union {"resume"} \/ job[r].kind \in Keyed)
    BY <1>14 DEF LockOpen, LockPaused, Working, IndInv, Places, Keyed
  <2>2. ASSUME UNCHANGED <<ledger, claim, execs>>,
               IF job[r].kind \in Lockers \union {"resume"} THEN pc'[r] = "write"
                                                           ELSE pc'[r] = "begin"
        PROVE  KeysInv'
    <3>1. job[r].kind \in Lockers \union {"resume"} => ~IsKeyed(r)
      BY KeyedFacts DEF Keyed, Lockers
    <3> QED
      BY <1>8, <2>1, <2>2, <3>1 DEF Working
  <2>3. \/ \E a \in Answer : EndUnwritten(r, a)
        \/ /\ UNCHANGED <<ledger, claim, execs>>
           /\ IF job[r].kind \in Lockers \union {"resume"} THEN pc'[r] = "write"
                                                          ELSE pc'[r] = "begin"
    BY <1>2, <1>14 DEF LockOpen, LockPaused, Go, TypeOK, IndInv, Places, Lockers
  <2> QED
    BY <1>11, <2>2, <2>3
<1>15. CASE LedgerLookup(r)
  <2>1. ~Working(r)
    BY <1>15 DEF LedgerLookup, Working
  <2>2. \/ \E a \in Answer : EndUnwritten(r, a)
        \/ /\ UNCHANGED <<ledger, claim, execs>>
           /\ IsKeyed(r) => pc'[r] = "insert"
    BY <1>2, <1>15 DEF LedgerLookup, Go, TypeOK
  <2>3. ASSUME UNCHANGED <<ledger, claim, execs>>, IsKeyed(r) => pc'[r] = "insert"
        PROVE  KeysInv'
    BY <1>8, <2>1, <2>3 DEF Working
  <2> QED
    BY <1>11, <2>2, <2>3
<1>16. CASE LedgerInsert(r)
  <2>1. \/ \E a \in Answer : EndUnwritten(r, a)
        \/ /\ ~L!Present(SlotOf(r)) /\ L!Insert(SlotOf(r), r) /\ UNCHANGED execs
           /\ pc'[r] = AfterLedger(r)
    BY <1>2, <1>16 DEF LedgerInsert, Go, TypeOK
  <2>2. pc[r] = "insert" /\ claim[SlotOf(r)] = None
    BY <1>16 DEF LedgerInsert, L!CanInsert
  <2>3. pc'[r] = AfterLedger(r) => Working(r)'
    BY DEF AfterLedger, Working
  <2> QED
    BY <1>9, <1>11, <2>1, <2>2, <2>3
<1>17. CASE \/ OpenNumber(r) \/ OpenLockLatest(r) \/ RefundNumber(r) \/ RefundInsert(r)
            \/ RefundCheck(r) \/ RefundPost(r)
  <2>1. Working(r)
    BY <1>17 DEF OpenNumber, OpenLockLatest, RefundNumber, RefundInsert, RefundCheck,
                 RefundPost, Working
  <2>2. \/ \E a \in Answer : EndUnwritten(r, a)
        \/ UNCHANGED <<ledger, claim, execs>> /\ Working(r)'
    BY <1>2, <1>17 DEF OpenNumber, OpenLockLatest, RefundNumber, RefundInsert, RefundCheck,
       RefundPost, Go, TypeOK, Working
  <2> QED
    BY <1>8, <1>11, <2>1, <2>2
<1>18. CASE Fail(r)
  BY <1>2, <1>11, <1>18 DEF Fail
<1>19. CASE OpenWrite(r) \/ SessionWrite(r)
  <2>1. Working(r)
    BY <1>19 DEF OpenWrite, SessionWrite, CheckoutWrite, PayInWrite, PayOutWrite, PauseWrite,
       ResumeWrite, CloseWrite, RefundWrite, Working
  <2>2. Commit(r) \/ Quiet(r)
    BY <1>19, StepCases DEF OpenWrite, SessionWrite, CheckoutWrite, PayInWrite, PayOutWrite,
       PauseWrite, ResumeWrite, CloseWrite, RefundWrite
  <2> QED
    BY <1>10, <1>11, <1>12, <1>13, <1>14, <1>15, <1>16, <1>17, <1>18, <2>1, <2>2 DEF Quiet
<1>20. CASE Receipt(r)
  <2>1. ~IsKeyed(r)
    BY <1>20, KeyedFacts DEF Receipt, Keyed
  <2> QED
    BY <1>2, <1>11, <1>12, <1>20, <2>1 DEF Receipt
<1> QED
  BY <1>11, <1>13, <1>14, <1>15, <1>16, <1>17, <1>18, <1>19, <1>20, MoneyCases DEF Quiet


---------------------------------------------------------------------------
(***************************************************************************)
(* The whole invariant, and the theorems.                                  *)
(***************************************************************************)

SafetyInv == /\ TypeOK /\ IndInv
             /\ CountersMatchDrawer /\ RecomputedCashAgrees /\ RefundsNotOvercounted
             /\ NoOverReturn /\ AtMostOncePerKey /\ LedgerTellsTruth

\* It holds before the first request, with or without an open session.
LEMMA SafetyInit == Init => SafetyInv
<1> SUFFICES ASSUME Init PROVE SafetyInv
  OBVIOUS
<1>1. TypeOK
  BY TypeInit
<1>2. PICK opened \in BOOLEAN :
        /\ last = IF opened THEN 1 ELSE 0
        /\ session = [s \in Session |-> IF opened /\ s = 1 THEN NewRow(Float) ELSE NoRow]
        /\ drawer = [s \in Session |-> IF opened /\ s = 1 THEN Float ELSE 0]
  BY DEF Init
<1>3. /\ \A s \in Session : /\ sale[s] = [net |-> 0, due |-> 0]
                            /\ refunded[s] = 0 /\ office[s] = 0 /\ lock[s] = None
      /\ \A x \in DOMAIN shared : shared[x] = None
      /\ returned = 0 /\ pc = [r \in Request |-> "idle"]
      /\ \A k \in L!Slot : /\ ledger[k].status = "absent" /\ claim[k] = None
                           /\ execs[k] = {}
  BY DEF Init, L!LedgerInit, L!NoRow
<1>4. /\ NoRow.status = "none" /\ NoRow.refunds = 0
      /\ \A b \in Nat : LET n == NewRow(b) IN
           /\ n.status = "open" /\ n.opening = b /\ n.cash = 0 /\ n.change = 0
           /\ n.refunds = 0 /\ n.payIns = 0 /\ n.payOuts = 0
  BY DEF NewRow, NoRow
<1>5. \A s \in Session :
        \/ /\ s # 1 \/ ~opened
           /\ session[s] = NoRow /\ drawer[s] = 0
        \/ opened /\ s = 1 /\ session[s] = NewRow(Float) /\ drawer[s] = Float
  BY <1>2
<1>6. Float \in Nat /\ SoldUnits \in Nat
  BY SizeAssumption
<1>7. UnopenedBlank
  BY <1>2, <1>3, <1>4, <1>6, SizeAssumption DEF UnopenedBlank, Exists, Session
<1>8. Places /\ LocksHeld /\ RefundsBehind /\ ChecksFresh
  BY <1>3 DEF Places, LocksHeld, Holding, RefundsBehind, ChecksFresh, Active
<1>9. KeysHeld /\ AtMostOncePerKey /\ LedgerTellsTruth
  BY <1>3 DEF KeysHeld, Working, AtMostOncePerKey, LedgerTellsTruth, L!Present
<1>10. CountersMatchDrawer
  BY <1>2, <1>3, <1>4, <1>6 DEF CountersMatchDrawer, Live
<1>11. RecomputedCashAgrees
  BY <1>2, <1>3, <1>4, <1>6 DEF RecomputedCashAgrees, Live
<1>12. RefundsNotOvercounted
  BY <1>2, <1>3, <1>4, <1>6 DEF RefundsNotOvercounted
<1>13. NoOverReturn
  BY <1>3, <1>6 DEF NoOverReturn
<1> QED
  BY <1>1, <1>7, <1>8, <1>9, <1>10, <1>11, <1>12, <1>13 DEF SafetyInv, IndInv

\* A step of a request preserves it.
LEMMA SafetyStep ==
  ASSUME SafetyInv, NEW r \in Request, Step(r)
  PROVE  SafetyInv'
<1>1. TypeOK /\ IndInv
  BY DEF SafetyInv
<1>2. TypeOK'
  BY <1>1, TypeNext DEF Step, Next
<1>3. KeysInv'
  BY <1>1, KeysNext DEF SafetyInv, IndInv, KeysInv
<1>4. IndInv'
  BY <1>1, <1>3, BlankNext, PlacesNext, LocksNext, BehindNext, FreshNext
     DEF SafetyInv, IndInv, KeysInv
<1> QED
  BY <1>1, <1>2, <1>3, <1>4, CountersNext, RecomputedNext, RefundsNext, ReturnsNext
     DEF SafetyInv, KeysInv

\* The ageing of a key preserves it, and touches nothing but the ledger.
LEMMA SafetyAges ==
  ASSUME SafetyInv, NEW k \in L!Slot, KeyAges(k)
  PROVE  SafetyInv'
<1>1. TypeOK'
  BY TypeNext DEF SafetyInv, Next
<1>2. UNCHANGED <<session, last, lock, shared, sale, returned, returns, job, pc, mem, resp, drawer,
                  refunded, office, execs, claim>>
  BY DEF KeyAges, tables, ghosts, L!Age
<1>3. /\ ledger' = [ledger EXCEPT ![k].aged = TRUE]
      /\ L!Present(k) /\ claim[k] = None
  BY DEF KeyAges, L!Age
<1>4. ledger \in [L!Slot -> L!Row]
  BY DEF SafetyInv, TypeOK, L!LedgerType
<1>5. /\ ledger'[k].status = ledger[k].status /\ ledger'[k].aged
      /\ \A j \in L!Slot : j # k => ledger'[j] = ledger[j]
  BY <1>3, <1>4 DEF L!Row
<1>6. \A j \in L!Slot : L!Present(j)' => L!Present(j) /\ j # k
  BY <1>5 DEF L!Present
<1>7. LedgerTellsTruth'
  BY <1>2, <1>5, <1>6 DEF SafetyInv, LedgerTellsTruth
<1>8. KeysHeld'
  <2>1. \A r \in Request : IsKeyed(r)' /\ Working(r)' => claim'[SlotOf(r)'] = r
    BY <1>2 DEF SafetyInv, IndInv, KeysHeld, IsKeyed, KeyOf, SlotOf, Working
  <2>2. ASSUME NEW j \in L!Slot, claim'[j] # None
        PROVE  /\ IsKeyed(claim[j])' /\ SlotOf(claim[j])' = j /\ Working(claim[j])'
               /\ ~L!Present(j)'
    BY <1>2, <1>6, <2>2 DEF SafetyInv, IndInv, KeysHeld, IsKeyed, KeyOf, SlotOf, Working
  <2>3. \A j \in L!Slot : /\ ledger'[j].status # "in_progress"
                          /\ ledger'[j].status = "absent" => execs'[j] = {}
    BY <1>2, <1>5 DEF SafetyInv, IndInv, KeysHeld
  <2> QED
    BY <2>1, <2>2, <2>3 DEF KeysHeld
<1>9. UnopenedBlank' /\ Places' /\ LocksHeld' /\ RefundsBehind' /\ ChecksFresh'
  BY <1>2 DEF SafetyInv, IndInv, UnopenedBlank, Exists, Places, IsKeyed, KeyOf, LocksHeld,
     Holding, RefundsBehind, ChecksFresh, Active
<1>10. /\ CountersMatchDrawer' /\ RecomputedCashAgrees' /\ RefundsNotOvercounted'
       /\ NoOverReturn' /\ AtMostOncePerKey'
  BY <1>2 DEF SafetyInv, CountersMatchDrawer, RecomputedCashAgrees, RefundsNotOvercounted,
     NoOverReturn, AtMostOncePerKey, Live
<1> QED
  BY <1>1, <1>7, <1>8, <1>9, <1>10 DEF SafetyInv, IndInv

\* A step that changes nothing preserves it.
LEMMA SafetyStutter == SafetyInv /\ UNCHANGED vars => SafetyInv'
<1> SUFFICES ASSUME SafetyInv, UNCHANGED vars PROVE SafetyInv'
  OBVIOUS
<1>1. UNCHANGED <<session, last, lock, shared, sale, returned, returns, ledger, claim, job, pc,
                  mem, resp, drawer, refunded, office, execs>>
  BY DEF vars, tables, ghosts
<1>2. TypeOK'
  BY TypeNext DEF SafetyInv
<1>3. UnopenedBlank' /\ Places' /\ LocksHeld' /\ RefundsBehind' /\ ChecksFresh'
  BY <1>1 DEF SafetyInv, IndInv, UnopenedBlank, Exists, Places, IsKeyed, KeyOf, LocksHeld,
     Holding, RefundsBehind, ChecksFresh, Active
<1>4. KeysHeld' /\ LedgerTellsTruth'
  BY <1>1 DEF SafetyInv, IndInv, KeysHeld, IsKeyed, KeyOf, SlotOf, Working, L!Present,
     LedgerTellsTruth
<1>5. /\ CountersMatchDrawer' /\ RecomputedCashAgrees' /\ RefundsNotOvercounted'
      /\ NoOverReturn' /\ AtMostOncePerKey'
  BY <1>1 DEF SafetyInv, CountersMatchDrawer, RecomputedCashAgrees, RefundsNotOvercounted,
     NoOverReturn, AtMostOncePerKey, Live
<1> QED
  BY <1>2, <1>3, <1>4, <1>5 DEF SafetyInv, IndInv

\* The invariant holds in every state of every run, for any set of requests,
\* keys and jobs.
THEOREM Safety == Spec => []SafetyInv
<1>1. Init => SafetyInv
  BY SafetyInit
<1>2. SafetyInv /\ [Next]_vars => SafetyInv'
  BY SafetyStep, SafetyAges, SafetyStutter DEF Next, Step, Finished
<1> QED
  BY <1>1, <1>2, PTL DEF Spec

\* While a session is live, its counters account for the cash in the drawer: no
\* update by checkout, pay-in, pay-out or a return is lost.
THEOREM CountersAccount == Spec => []CountersMatchDrawer
<1>1. SafetyInv => CountersMatchDrawer
  BY DEF SafetyInv
<1> QED
  BY <1>1, Safety, PTL

\* The cash close_pos_session recomputes from the sale payments is what the
\* checkouts accumulated, plus what the office took.
THEOREM RecomputationAgrees == Spec => []RecomputedCashAgrees
<1>1. SafetyInv => RecomputedCashAgrees
  BY DEF SafetyInv
<1> QED
  BY <1>1, Safety, PTL

\* The refund counter of a session never runs ahead of the cash handed back.
THEOREM RefundsUndercount == Spec => []RefundsNotOvercounted
<1>1. SafetyInv => RefundsNotOvercounted
  BY DEF SafetyInv
<1> QED
  BY <1>1, Safety, PTL

\* However many returns run at once, they take back no more than was sold.
THEOREM ReturnsCovered == Spec => []NoOverReturn
<1>1. SafetyInv => NoOverReturn
  BY DEF SafetyInv
<1> QED
  BY <1>1, Safety, PTL

\* No two requests execute under one key in its lifetime.
THEOREM ExecutedOnce == Spec => []AtMostOncePerKey
<1>1. SafetyInv => AtMostOncePerKey
  BY DEF SafetyInv
<1> QED
  BY <1>1, Safety, PTL

\* A completed key in force was executed, with the payload the ledger holds.
THEOREM LedgerTruthful == Spec => []LedgerTellsTruth
<1>1. SafetyInv => LedgerTellsTruth
  BY DEF SafetyInv
<1> QED
  BY <1>1, Safety, PTL

\* A request that is over holds neither a row lock nor a key.
THEOREM NothingLeftBehind == Spec => []NothingHeldByFinished
<1>1. SafetyInv => NothingHeldByFinished
  BY DEF SafetyInv, IndInv, LocksHeld, KeysHeld, NothingHeldByFinished, Working, Active
<1> QED
  BY <1>1, Safety, PTL


---------------------------------------------------------------------------
(***************************************************************************)
(* What a step may never do.                                               *)
(***************************************************************************)

\* How one step moves a row: only an open, a pause, a resume and a close change
\* its status, only a refund counter changes on a closed row, and a close sets
\* the figures from the request's copy.
RowStep(s) ==
    \/ session'[s] = session[s]
    \/ session[s].status = "none" /\ session'[s].status = "open"
    \/ session[s].status = "open" /\ session'[s].status = "paused"
    \/ session[s].status = "paused" /\ session'[s].status = "open"
    \/ session[s].status = "open" /\ session'[s].status = "open"
    \/ \E n \in Nat : session'[s] = [session[s] EXCEPT !.refunds = n]
    \/ /\ session[s].status = "open"
       /\ session'[s] = Closed(session[s],
            [session[s] EXCEPT !.cash = sale[s].net + session[s].change], drawer[s])

\* Every step of a request moves a row in one of these ways.
LEMMA RowSteps ==
  ASSUME SafetyInv, NEW r \in Request, Step(r), NEW s \in Session
  PROVE  RowStep(s)
<1>1. /\ TypeOK /\ UnopenedBlank /\ LocksHeld /\ RefundsBehind
      /\ session \in [Session -> Row]
  BY DEF SafetyInv, IndInv, TypeOK
<1>2. CASE Quiet(r)
  BY <1>2, QuietFrame DEF RowStep
<1>3. CASE Receipt(r) /\ ~Quiet(r)
  BY <1>1, <1>3, ReceiptMoney DEF RowStep
<1>4. CASE OpenWrite(r) /\ ~Quiet(r)
  BY <1>1, <1>4, OpenMoney DEF RowStep, Exists
<1>5. CASE SessionWrite(r)
  <2>1. CASE s # mem[r].sid
    BY <1>1, <1>5, <2>1, WriteElsewhere DEF RowStep, SessionWrite
  <2>2. CASE s = mem[r].sid
    <3> DEFINE o == session[s]
               n == session'[s]
    <3>1. /\ o \in Row /\ n \in Row
          /\ job[r].amount \in Nat /\ job[r].tender \in Nat /\ mem[r].row.refunds \in Nat
      BY <1>1, <1>5, <2>2, WriteMoney, JobFacts DEF SessionWrite, TypeOK, Mem, Row
    <3>2. pc[r] = "write" /\ job[r].kind # "open" /\ job[r].kind # "receipt"
      BY <1>5 DEF SessionWrite, CheckoutWrite, PayInWrite, PayOutWrite, PauseWrite,
                  ResumeWrite, CloseWrite, RefundWrite
    <3>3. job[r].kind \notin {"refund", "resume"} => o.status = "open"
      BY <1>1, <2>2, <3>2, WriteTarget
    <3>4. CASE CheckoutWrite(r)
      <4> DEFINE change == job[r].tender - (IF job[r].tender > job[r].amount
                                            THEN job[r].amount ELSE job[r].tender)
      <4>1. n = Tendered(o, job[r].tender, change)
        BY <1>1, <2>2, <3>4, WrittenRow
      <4>2. change \in Nat
        BY <3>1
      <4> HIDE DEF change, o, n
      <4>3. n.status = o.status
        <5>1. PICK x \in Nat : x = job[r].tender
          BY <3>1
        <5>2. PICK y \in Nat : y = change
          BY <4>2
        <5>3. o \in Row /\ n = Tendered(o, x, y)
          BY <3>1, <4>1, <5>1, <5>2
        <5> QED
          BY <5>3, SetTendered
      <4>4. o.status = "open"
        BY <3>3, <3>4 DEF CheckoutWrite
      <4> QED
        BY <4>3, <4>4 DEF RowStep, o, n
    <3>5. CASE PayInWrite(r)
      <4>1. n = [o EXCEPT !.payIns = o.payIns + job[r].amount]
        BY <1>1, <2>2, <3>5, WrittenRow
      <4>2. n.status = o.status
        BY <3>1, <4>1 DEF Row
      <4> QED
        BY <3>3, <3>5, <4>2 DEF RowStep, PayInWrite
    <3>6. CASE PayOutWrite(r)
      <4>1. n = [o EXCEPT !.payOuts = o.payOuts + job[r].amount]
        BY <1>1, <2>2, <3>6, WrittenRow
      <4>2. n.status = o.status
        BY <3>1, <4>1 DEF Row
      <4> QED
        BY <3>3, <3>6, <4>2 DEF RowStep, PayOutWrite
    <3>7. CASE PauseWrite(r)
      <4>1. n = [o EXCEPT !.status = "paused"] /\ o.status = "open"
        BY <1>1, <2>2, <3>7, WrittenRow
      <4>2. n.status = "paused"
        BY <3>1, <4>1 DEF Row
      <4> QED
        BY <4>1, <4>2 DEF RowStep
    <3>8. CASE ResumeWrite(r)
      <4>1. n = [o EXCEPT !.status = "open"] /\ o.status = "paused"
        BY <1>1, <2>2, <3>8, WrittenRow
      <4>2. n.status = "open"
        BY <3>1, <4>1 DEF Row
      <4> QED
        BY <4>1, <4>2 DEF RowStep
    <3>9. CASE RefundWrite(r) /\ ~Quiet(r)
      <4>1. n = [o EXCEPT !.refunds = mem[r].row.refunds + job[r].amount]
        BY <1>1, <2>2, <3>9, WrittenRow
      <4>2. mem[r].row.refunds + job[r].amount \in Nat
        BY <3>1
      <4> QED
        BY <4>1, <4>2 DEF RowStep
    <3>10. CASE CloseWrite(r)
      BY <1>1, <2>2, <3>10, WrittenRow DEF RowStep
    <3> QED
      BY <1>5, <3>4, <3>5, <3>6, <3>7, <3>8, <3>9, <3>10 DEF SessionWrite
  <2> QED
    BY <2>1, <2>2
<1> QED
  BY <1>2, <1>3, <1>4, <1>5, MoneyCases

\* The same for every step of the specification.
LEMMA NextRowSteps == SafetyInv /\ [Next]_vars => \A s \in Session : RowStep(s)
<1> SUFFICES ASSUME SafetyInv, [Next]_vars, NEW s \in Session PROVE RowStep(s)
  OBVIOUS
<1>1. CASE \E r \in Request : Step(r)
  BY <1>1, RowSteps
<1>2. CASE \E k \in L!Slot : KeyAges(k)
  BY <1>2 DEF KeyAges, tables, RowStep
<1>3. CASE Finished \/ UNCHANGED vars
  BY <1>3 DEF Finished, vars, tables, RowStep
<1> QED
  BY <1>1, <1>2, <1>3 DEF Next, Step

\* The figures a close writes.
LEMMA ClosedFigures ==
  ASSUME SafetyInv, NEW s \in Session, session[s].status = "open",
         session'[s] = Closed(session[s],
            [session[s] EXCEPT !.cash = sale[s].net + session[s].change], drawer[s])
  PROVE  /\ session'[s].status = "closed"
         /\ session'[s].expected - session'[s].counted
              = office[s] + (refunded[s] - session[s].refunds)
<1> DEFINE o    == session[s]
           mine == [o EXCEPT !.cash = sale[s].net + o.change]
<1>1. /\ o \in Row /\ drawer[s] \in Int /\ refunded[s] \in Nat /\ office[s] \in Nat
      /\ sale[s].net \in Nat
  BY DEF SafetyInv, TypeOK
<1>2. /\ o.opening \in Nat /\ o.cash \in Nat /\ o.change \in Nat
      /\ o.refunds \in Nat /\ o.payIns \in Nat /\ o.payOuts \in Nat
  BY <1>1, RowFields
<1>3. sale[s].net + o.change \in Nat
  BY <1>1, <1>2
<1>4. mine \in Row
  <2> DEFINE x == sale[s].net + o.change
  <2>1. x \in Nat
    BY <1>3
  <2> HIDE DEF x, o
  <2>2. [o EXCEPT !.cash = x] \in Row
    BY <1>1, <2>1, RowWith
  <2> QED
    BY <2>2 DEF x
<1>5. Expected(mine) = o.opening + (sale[s].net + o.change) - o.change - o.refunds
                       + o.payIns - o.payOuts
  BY <1>1 DEF Expected, Row
<1>6. /\ session'[s].status = "closed" /\ session'[s].expected = Expected(mine)
      /\ session'[s].counted = drawer[s]
  <2>1. session'[s] = Closed(o, mine, drawer[s])
    OBVIOUS
  <2>2. PICK i \in Int : i = drawer[s]
    BY <1>1
  <2>3. o \in Row
    BY <1>1
  <2> HIDE DEF o, mine
  <2>4. session'[s] = Closed(o, mine, i)
    BY <2>1, <2>2
  <2>5. /\ Closed(o, mine, i).status = "closed"
        /\ Closed(o, mine, i).expected = Expected(mine)
        /\ Closed(o, mine, i).counted = i
    BY <1>4, <2>3, RowClosed
  <2> QED
    BY <2>2, <2>4, <2>5
<1>7. o.opening + o.cash - o.change + o.payIns - o.payOuts = drawer[s] + refunded[s]
  BY DEF SafetyInv, CountersMatchDrawer, Live
<1>8. sale[s].net = o.cash - o.change + office[s]
  BY DEF SafetyInv, RecomputedCashAgrees, Live
<1> HIDE DEF o, mine
<1>9. session'[s].expected - session'[s].counted = office[s] + (refunded[s] - o.refunds)
  BY <1>1, <1>2, <1>5, <1>6, <1>7, <1>8
<1> QED
  BY <1>6, <1>9 DEF o

\* A session only moves along ALLOWED_TRANSITIONS, whatever runs beside it.
THEOREM StatusMoves == Spec => StatusMovesAllowed
<1>1. SafetyInv /\ [Next]_vars =>
        \A s \in Session : session'[s].status # session[s].status =>
           \/ session[s].status = "none" /\ session'[s].status = "open"
           \/ <<session[s].status, session'[s].status>> \in Allowed
  <2> SUFFICES ASSUME SafetyInv, [Next]_vars, NEW s \in Session,
                      session'[s].status # session[s].status
               PROVE  \/ session[s].status = "none" /\ session'[s].status = "open"
                      \/ <<session[s].status, session'[s].status>> \in Allowed
    OBVIOUS
  <2>1. RowStep(s) /\ session[s] \in Row
    BY NextRowSteps DEF SafetyInv, TypeOK
  <2>2. ~ \E n \in Nat : session'[s] = [session[s] EXCEPT !.refunds = n]
    BY <2>1 DEF Row
  <2> QED
    BY <2>1, <2>2, ClosedFigures DEF RowStep, Allowed
<1> QED
  BY <1>1, Safety, PTL DEF Spec, StatusMovesAllowed

\* After the close only the refund counter of a row can change.
THEOREM ClosedStands == Spec => ClosedFiguresStand
<1>1. SafetyInv /\ [Next]_vars =>
        \A s \in Session : session[s].status = "closed" =>
           session'[s] = [session[s] EXCEPT !.refunds = session'[s].refunds]
  <2> SUFFICES ASSUME SafetyInv, [Next]_vars, NEW s \in Session,
                      session[s].status = "closed"
               PROVE  session'[s] = [session[s] EXCEPT !.refunds = session'[s].refunds]
    OBVIOUS
  <2>1. RowStep(s) /\ session[s] \in Row
    BY NextRowSteps DEF SafetyInv, TypeOK
  <2>2. CASE session'[s] = session[s]
    BY <2>1, <2>2 DEF Row
  <2>3. CASE \E n \in Nat : session'[s] = [session[s] EXCEPT !.refunds = n]
    BY <2>1, <2>3 DEF Row
  <2> QED
    BY <2>1, <2>2, <2>3 DEF RowStep
<1> QED
  BY <1>1, Safety, PTL DEF Spec, ClosedFiguresStand

\* With an honest count, the difference a close books is what the office took and
\* what the refund counter missed, and nothing else.
THEOREM DifferenceExplained == Spec => CloseDifferenceExplained
<1>1. SafetyInv /\ [Next]_vars =>
        \A s \in Session : Live(s) /\ session'[s].status = "closed" =>
           session'[s].expected - session'[s].counted
              = office[s] + (refunded[s] - session[s].refunds)
  <2> SUFFICES ASSUME SafetyInv, [Next]_vars, NEW s \in Session,
                      Live(s), session'[s].status = "closed"
               PROVE  session'[s].expected - session'[s].counted
                         = office[s] + (refunded[s] - session[s].refunds)
    OBVIOUS
  <2>1. RowStep(s) /\ session[s] \in Row
    BY NextRowSteps DEF SafetyInv, TypeOK
  <2>2. ~ \E n \in Nat : session'[s] = [session[s] EXCEPT !.refunds = n]
    BY <2>1 DEF Row, Live
  <2> QED
    BY <2>1, <2>2, ClosedFigures DEF RowStep, Live
<1> QED
  BY <1>1, Safety, PTL DEF Spec, CloseDifferenceExplained

---------------------------------------------------------------------------
(***************************************************************************)
(* PosSession implements ExactlyOnce: under the mapping of KeepsPromise    *)
(* every step executes, replays, refuses or forgets a key, or stutters.    *)
(***************************************************************************)

\* A request is told nothing before it is over.
Unanswered == \A r \in Request : pc[r] # "done" => resp[r] = "none"

RefineInv == SafetyInv /\ Unanswered

Refusal == {"conflict", "mismatch", "rejected", "error"}

\* How a step of a request shows to the client: it goes on, it is refused, it is
\* answered from the ledger, or it commits its write (with its key, if it has one).
LEMMA Outcomes ==
  ASSUME SafetyInv, NEW r \in Request, Step(r)
  PROVE  /\ pc[r] # "done"
         /\ \/ UNCHANGED <<ledger, execs, resp, job>>
            \/ \E a \in Refusal : EndUnwritten(r, a)
            \/ EndUnwritten(r, "replay") /\ IsKeyed(r) /\ L!Replays(SlotOf(r), job[r])
            \/ Commit(r) /\ (IsKeyed(r) => Working(r))
<1> DEFINE Goal == /\ pc[r] # "done"
                   /\ \/ UNCHANGED <<ledger, execs, resp, job>>
                      \/ \E a \in Refusal : EndUnwritten(r, a)
                      \/ EndUnwritten(r, "replay") /\ IsKeyed(r) /\ L!Replays(SlotOf(r), job[r])
                      \/ Commit(r) /\ (IsKeyed(r) => Working(r))
<1>1. /\ "conflict" \in Refusal /\ "mismatch" \in Refusal
      /\ "rejected" \in Refusal /\ "error" \in Refusal
  BY DEF Refusal
<1>2. CASE OpenGuard(r) \/ CheckoutGuard(r) \/ RefundGuard(r)
  BY <1>1, <1>2 DEF OpenGuard, CheckoutGuard, RefundGuard
<1>3. CASE CloseReplay(r)
  BY <1>1, <1>3 DEF CloseReplay
<1>4. CASE LockOpen(r) \/ LockPaused(r)
  BY <1>1, <1>4 DEF LockOpen, LockPaused
<1>5. CASE LedgerLookup(r)
  BY <1>1, <1>5 DEF LedgerLookup
<1>6. CASE LedgerInsert(r)
  BY <1>1, <1>6 DEF LedgerInsert, L!Insert
<1>7. CASE \/ OpenNumber(r) \/ OpenLockLatest(r) \/ RefundNumber(r) \/ RefundInsert(r)
           \/ RefundCheck(r) \/ RefundPost(r)
  BY <1>1, <1>7 DEF OpenNumber, OpenLockLatest, RefundNumber, RefundInsert, RefundCheck, RefundPost
<1>8. CASE Fail(r)
  BY <1>1, <1>8 DEF Fail, Active
<1>9. CASE OpenWrite(r) \/ RefundWrite(r)
  BY <1>1, <1>9 DEF OpenWrite, RefundWrite, Working
<1>10. CASE \/ CheckoutWrite(r) \/ PayInWrite(r) \/ PayOutWrite(r)
            \/ PauseWrite(r) \/ ResumeWrite(r) \/ CloseWrite(r)
  BY <1>10 DEF CheckoutWrite, PayInWrite, PayOutWrite, PauseWrite, ResumeWrite,
     CloseWrite, Working
<1>11. CASE Receipt(r)
  <2>1. ~IsKeyed(r)
    BY <1>11, JobFacts DEF Receipt, SafetyInv, TypeOK, Keyed
  <2> QED
    BY <1>1, <1>11, <2>1 DEF Receipt
<1> QED
  BY <1>2, <1>3, <1>4, <1>5, <1>6, <1>7, <1>8, <1>9, <1>10, <1>11, AbortFails
     DEF Step, Arrive, Proceed

\* A step that moves a request tells it at most once.
LEMMA UnansweredNext == RefineInv /\ [Next]_vars => Unanswered'
<1> SUFFICES ASSUME RefineInv, [Next]_vars PROVE Unanswered'
  OBVIOUS
<1>1. ASSUME NEW r \in Request, Step(r) PROVE Unanswered'
  <2>1. \A q \in Request : q # r => pc'[q] = pc[q]
    BY <1>1, Others DEF RefineInv, SafetyInv
  <2>2. resp \in [Request -> {"none", "ok", "replay", "conflict", "mismatch", "rejected",
                              "error"}]
        /\ pc \in [Request -> {"idle", "lock", "begin", "insert", "number",
                           "latest", "check", "post", "write", "done"}]
    BY DEF RefineInv, SafetyInv, TypeOK
  <2>3. \/ resp' = resp /\ pc[r] # "done"
        \/ pc'[r] = "done" /\ \E a : resp' = [resp EXCEPT ![r] = a]
    BY <1>1, <2>2, Outcomes DEF RefineInv, EndUnwritten, Commit, Reply, Go
  <2> QED
    BY <2>1, <2>2, <2>3 DEF RefineInv, Unanswered
<1>2. ASSUME UNCHANGED <<pc, resp>> PROVE Unanswered'
  BY <1>2 DEF RefineInv, Unanswered
<1>3. ASSUME NEW k \in L!Slot, KeyAges(k) PROVE Unanswered'
  BY <1>2, <1>3 DEF KeyAges
<1>4. UNCHANGED vars => UNCHANGED <<pc, resp>>
  BY DEF vars
<1> QED
  BY <1>1, <1>2, <1>3, <1>4 DEF Next, Step, Finished

\* The slot no key stands for is no slot of the ledger, and a request asks for a slot
\* of the ledger exactly when it carries a key.
LEMMA SlotFacts ==
  ASSUME TypeOK, NEW r \in Request
  PROVE  /\ NoSlot \notin L!Slot
         /\ AskedOf[r].slot = IF IsKeyed(r) THEN SlotOf(r) ELSE NoSlot
         /\ AskedOf[r].payload = job[r]
         /\ IsKeyed(r) => SlotOf(r) \in L!Slot
BY JobFacts, NoneAssumption DEF NoSlot, L!Slot, AskedOf, TypeOK, Keyed

\* Who executed a key in force: some request, with the payload the ledger holds.
LEMMA DoneByFacts ==
  ASSUME SafetyInv, NEW k \in L!Slot
  PROVE  /\ ~L!Present(k) => DoneBy[k] = None
         /\ L!Present(k) => /\ DoneBy[k] \in execs[k] /\ DoneBy[k] \in Request
                            /\ DoneBy[k] # None /\ job[DoneBy[k]] = ledger[k].hash
<1>1. DoneBy[k] = IF L!Present(k) THEN CHOOSE q \in execs[k] : TRUE ELSE None
  BY DEF DoneBy
<1>2. ASSUME L!Present(k)
      PROVE  /\ DoneBy[k] \in execs[k] /\ DoneBy[k] \in Request
             /\ DoneBy[k] # None /\ job[DoneBy[k]] = ledger[k].hash
  <2>1. PICK q \in execs[k] : job[q] = ledger[k].hash
    BY <1>2 DEF SafetyInv, LedgerTellsTruth
  <2>2. DoneBy[k] \in execs[k]
    BY <1>1, <1>2, <2>1
  <2>3. execs[k] \subseteq Request
    BY DEF SafetyInv, TypeOK
  <2>4. DoneBy[k] = q
    BY <2>1, <2>2 DEF SafetyInv, AtMostOncePerKey
  <2> QED
    BY <2>1, <2>2, <2>3, <2>4, NoneAssumption
<1> QED
  BY <1>1, <1>2

\* What a step does to the executor of a key.
LEMMA DoneByNext ==
  ASSUME NEW k \in L!Slot
  PROVE  /\ ~L!Present(k)' => DoneBy'[k] = None
         /\ \A r : L!Present(k)' /\ execs'[k] = {r} => DoneBy'[k] = r
         /\ ledger'[k] = ledger[k] /\ execs'[k] = execs[k] => DoneBy'[k] = DoneBy[k]
<1>1. /\ DoneBy[k] = IF L!Present(k) THEN CHOOSE q \in execs[k] : TRUE ELSE None
      /\ DoneBy'[k] = IF L!Present(k)' THEN CHOOSE q \in execs'[k] : TRUE ELSE None
  BY DEF DoneBy
<1>2. ledger'[k] = ledger[k] => (L!Present(k)' <=> L!Present(k))
  BY DEF L!Present
<1>3. \A r : execs'[k] = {r} => (CHOOSE q \in execs'[k] : TRUE) = r
  OBVIOUS
<1> QED
  BY <1>1, <1>2, <1>3

\* When the executor of one key changes, the others keep theirs.
LEMMA DoneByChanged ==
  ASSUME NEW k \in L!Slot, NEW v, DoneBy'[k] = v,
         \A j \in L!Slot : j # k => DoneBy'[j] = DoneBy[j]
  PROVE  DoneBy' = [DoneBy EXCEPT ![k] = v]
<1> DEFINE after == DoneBy'
<1>1. after = [j \in L!Slot |-> after[j]]
  BY DEF DoneBy
<1>2. DoneBy = [j \in L!Slot |-> DoneBy[j]]
  BY DEF DoneBy
<1> QED
  BY <1>1, <1>2

\* The ledger and the executions as they were name the same executors.
LEMMA DoneBySame == UNCHANGED <<ledger, execs>> => UNCHANGED DoneBy
BY DEF DoneBy, L!Present

\* What the requests asked stands.
LEMMA AskedSame == UNCHANGED job => UNCHANGED AskedOf
BY DEF AskedOf, IsKeyed, SlotOf

\* A request that is over is told its answer, once.
LEMMA Telling ==
  ASSUME RefineInv, NEW r \in Request, pc[r] # "done", UNCHANGED job,
         NEW a \in Answer, resp' = [resp EXCEPT ![r] = a], a # "none"
  PROVE  Promise!Tell(r, CASE a = "ok"     -> "executed"
                           [] a = "replay" -> "replayed"
                           [] OTHER        -> "refused")
<1> DEFINE told == CASE a = "ok"     -> "executed"
                     [] a = "replay" -> "replayed"
                     [] OTHER        -> "refused"
<1>1. resp \in [Request -> Answer] /\ resp[r] = "none"
  BY DEF RefineInv, SafetyInv, TypeOK, Unanswered, Answer
<1>2. ToldTo[r] = "none"
  BY <1>1 DEF ToldTo, Told
<1>3. Told(r)' = told
  BY <1>1 DEF Told
<1>4. \A q \in Request : q # r => Told(q)' = Told(q)
  BY <1>1 DEF Told
<1>5. ToldTo' = [ToldTo EXCEPT ![r] = told]
  BY <1>3, <1>4 DEF ToldTo
<1> QED
  BY <1>2, <1>5, AskedSame DEF Promise!Tell

\* A commit executes: a key it carries had not been executed and now has been, by it.
LEMMA CommitExecutes ==
  ASSUME RefineInv, NEW r \in Request, Commit(r), pc[r] # "done", IsKeyed(r) => Working(r)
  PROVE  Promise!Execute(r)
<1>1. Promise!Tell(r, "executed")
  BY Telling DEF Commit, Reply, Answer
<1>2. CASE ~IsKeyed(r)
  <2>1. UNCHANGED DoneBy
    BY <1>2, DoneBySame DEF Commit
  <2>2. AskedOf[r].slot = NoSlot
    BY <1>2, SlotFacts DEF RefineInv, SafetyInv
  <2> QED
    BY <1>1, <2>1, <2>2 DEF Promise!Execute
<1>3. CASE IsKeyed(r)
  <2>0. PICK k \in L!Slot : k = SlotOf(r)
    BY <1>3, SlotFacts DEF RefineInv, SafetyInv
  <2>1. /\ AskedOf[r].slot = k /\ k # NoSlot
    BY <1>3, <2>0, SlotFacts DEF RefineInv, SafetyInv
  <2>2. claim[k] = r /\ ~L!Present(k) /\ (ledger[k].status = "absent" => execs[k] = {})
    BY <1>3, <2>0, NoneAssumption DEF RefineInv, SafetyInv, IndInv, KeysHeld
  <2>3. /\ ledger' = [ledger EXCEPT ![k] = [status |-> "completed", hash |-> job[r],
                                            aged |-> FALSE]]
        /\ execs' = [execs EXCEPT ![k] = IF ledger[k].aged THEN {r} ELSE @ \union {r}]
    BY <1>3, <2>0 DEF Commit, L!Complete
  <2>4. ledger \in [L!Slot -> L!Row] /\ execs \in [L!Slot -> SUBSET Request]
    BY DEF RefineInv, SafetyInv, TypeOK, L!LedgerType
  <2>5. execs'[k] = {r} /\ L!Present(k)'
    <3>1. execs'[k] = IF ledger[k].aged THEN {r} ELSE execs[k] \union {r}
      BY <2>3, <2>4
    <3>2. ledger'[k].status = "completed" /\ ~ledger'[k].aged
      BY <2>3, <2>4
    <3> QED
      BY <2>2, <3>1, <3>2 DEF L!Present
  <2>6. \A j \in L!Slot : j # k => ledger'[j] = ledger[j] /\ execs'[j] = execs[j]
    BY <2>3, <2>4
  <2>7. DoneBy'[k] = r
    BY <2>5, DoneByNext
  <2>8. \A j \in L!Slot : j # k => DoneBy'[j] = DoneBy[j]
    BY <2>6, DoneByNext
  <2>9. DoneBy' = [DoneBy EXCEPT ![k] = r]
    BY <2>7, <2>8, DoneByChanged
  <2>10. DoneBy[k] = None
    BY <2>2, DoneByFacts DEF RefineInv
  <2> QED
    BY <1>1, <2>1, <2>9, <2>10 DEF Promise!Execute
<1> QED
  BY <1>2, <1>3

\* An answer from the ledger replays the execution of the same payload.
LEMMA ReplayReplays ==
  ASSUME RefineInv, NEW r \in Request, EndUnwritten(r, "replay"), pc[r] # "done",
         IsKeyed(r), L!Replays(SlotOf(r), job[r])
  PROVE  Promise!Replay(r)
<1>1. Promise!Tell(r, "replayed")
  BY Telling DEF EndUnwritten, Reply, Answer
<1>2. UNCHANGED DoneBy
  BY DoneBySame DEF EndUnwritten, L!Discard
<1>3. /\ SlotOf(r) \in L!Slot /\ AskedOf[r].slot = SlotOf(r) /\ SlotOf(r) # NoSlot
      /\ AskedOf[r].payload = job[r]
  BY SlotFacts DEF RefineInv, SafetyInv
<1>4. /\ DoneBy[SlotOf(r)] # None /\ DoneBy[SlotOf(r)] \in Request
      /\ job[DoneBy[SlotOf(r)]] = job[r]
  BY <1>3, DoneByFacts DEF RefineInv, L!Replays
<1>5. AskedOf[DoneBy[SlotOf(r)]].payload = job[r]
  BY <1>4, SlotFacts DEF RefineInv, SafetyInv
<1> QED
  BY <1>1, <1>2, <1>3, <1>4, <1>5 DEF Promise!Replay

\* A refusal tells the request so, and leaves every key as it was.
LEMMA RefusalRefuses ==
  ASSUME RefineInv, NEW r \in Request, pc[r] # "done",
         NEW a \in Refusal, EndUnwritten(r, a)
  PROVE  Promise!Refuse(r)
<1>1. a \in Answer /\ a # "none" /\ a # "ok" /\ a # "replay"
  BY DEF Refusal, Answer
<1>2. Promise!Tell(r, "refused")
  BY <1>1, Telling DEF EndUnwritten, Reply
<1>3. UNCHANGED DoneBy
  BY DoneBySame DEF EndUnwritten, L!Discard
<1> QED
  BY <1>2, <1>3 DEF Promise!Refuse

\* A key that ages is forgotten.
LEMMA AgeForgets ==
  ASSUME RefineInv, NEW k \in L!Slot, KeyAges(k)
  PROVE  Promise!Forget(k)
<1>1. /\ UNCHANGED <<job, resp, execs>> /\ L!Present(k)
      /\ ledger' = [ledger EXCEPT ![k].aged = TRUE]
  BY DEF KeyAges, L!Age
<1>2. ledger \in [L!Slot -> L!Row]
  BY DEF RefineInv, SafetyInv, TypeOK, L!LedgerType
<1>3. /\ ledger'[k].aged
      /\ \A j \in L!Slot : j # k => ledger'[j] = ledger[j]
  BY <1>1, <1>2 DEF L!Row
<1>4. ~L!Present(k)'
  BY <1>3 DEF L!Present
<1>5. DoneBy'[k] = None
  BY <1>4, DoneByNext
<1>6. \A j \in L!Slot : j # k => DoneBy'[j] = DoneBy[j]
  BY <1>1, <1>3, DoneByNext
<1>7. DoneBy' = [DoneBy EXCEPT ![k] = None]
  BY <1>5, <1>6, DoneByChanged
<1>8. DoneBy[k] # None
  BY <1>1, DoneByFacts DEF RefineInv
<1>9. UNCHANGED <<AskedOf, ToldTo>>
  BY <1>1, AskedSame DEF ToldTo, Told
<1> QED
  BY <1>7, <1>8, <1>9 DEF Promise!Forget

\* The till implements the promise of ExactlyOnce: whatever clients retry, lose or
\* repeat, a key in force was executed once, a replay answers from that execution and
\* a refusal changes nothing.
THEOREM PromiseKept == Spec => KeepsPromise
<1>1. Init => RefineInv
  BY SafetyInit DEF Init, RefineInv, Unanswered
<1>2. RefineInv /\ [Next]_vars => RefineInv'
  BY UnansweredNext, SafetyStep, SafetyAges, SafetyStutter DEF RefineInv, Next, Step, Finished
<1>3. Init => Promise!Init
  <2> SUFFICES ASSUME Init PROVE Promise!Init
    OBVIOUS
  <2>1. TypeOK
    BY TypeInit
  <2>2. \A k \in L!Slot : ~L!Present(k)
    BY DEF Init, L!LedgerInit, L!NoRow, L!Present
  <2>3. DoneBy = [k \in L!Slot |-> None]
    BY <2>2 DEF DoneBy
  <2>4. ToldTo = [r \in Request |-> "none"]
    BY DEF Init, ToldTo, Told
  <2> QED
    BY <2>1, <2>3, <2>4, SlotFacts DEF Promise!Init
<1>4. RefineInv /\ [Next]_vars => [Promise!Next]_Promise!vars
  <2> SUFFICES ASSUME RefineInv, [Next]_vars PROVE [Promise!Next]_Promise!vars
    OBVIOUS
  <2>1. ASSUME UNCHANGED <<ledger, execs, resp, job>> PROVE UNCHANGED Promise!vars
    BY <2>1, DoneBySame, AskedSame DEF ToldTo, Told, Promise!vars
  <2>2. ASSUME NEW r \in Request, Step(r) PROVE [Promise!Next]_Promise!vars
    BY <2>1, <2>2, Outcomes, CommitExecutes, ReplayReplays, RefusalRefuses
       DEF RefineInv, Promise!Next
  <2>3. ASSUME NEW k \in L!Slot, KeyAges(k) PROVE [Promise!Next]_Promise!vars
    BY <2>3, AgeForgets DEF Promise!Next
  <2>4. UNCHANGED vars => UNCHANGED <<ledger, execs, resp, job>>
    BY DEF vars
  <2> QED
    BY <2>1, <2>2, <2>3, <2>4 DEF Next, Step, Finished
<1> QED
  BY <1>1, <1>2, <1>3, <1>4, PTL DEF Spec, KeepsPromise, Promise!Spec
=============================================================================
