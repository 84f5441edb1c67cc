---------------------------- MODULE NumbersProofs ----------------------------
(***************************************************************************)
(* Proofs about Numbers, for any number of requests, any plans that take   *)
(* at most one number of a sequence, any years and any padding.            *)
(***************************************************************************)
EXTENDS Numbers, WellFoundedInduction, TLAPS

Num    == Nat \X Nat
Stages == {"idle", "next", "create", "found", "dated", "row", "numbered", "collided"}

---------------------------------------------------------------------------
(***************************************************************************)
(* Rows and numbers                                                        *)
(***************************************************************************)

IsRow(r) == /\ DOMAIN r = {"there", "counter", "upd", "late"}
            /\ r.counter \in Nat /\ r.upd \in Nat
            /\ r.there \in BOOLEAN /\ r.late \in BOOLEAN

\* No number is of a year to come, nor is the year the row was written in; the number it
\* gives next in that year is above every number of that year, and a number of a later year
\* is the first one, given by a row that is stuck.
Good(now, r, s) ==
    /\ r.upd <= now
    /\ \A num \in s :
         /\ num[1] <= now
         /\ num[1] > r.upd => r.counter = 2 /\ num[2] = 1
         /\ ~r.late /\ num[1] = r.upd => num[2] < r.counter

LEMMA PeriodFields ==
  ASSUME NEW r, IsRow(r), NEW y \in Nat
  PROVE  /\ IsRow(Period(r, y))
         /\ Period(r, y).there = r.there
         /\ Period(r, y).upd = r.upd
         /\ r.upd # y => Period(r, y).counter = 1
         /\ r.upd = y => Period(r, y).counter = r.counter
         /\ Period(r, y).late = (r.late \/ y < r.upd)
<1> DEFINE q == Period(r, y)
<1>1. /\ DOMAIN q = {"there", "counter", "upd", "late"}
      /\ q.there = r.there /\ q.upd = r.upd
      /\ r.upd # y => q.counter = 1
      /\ r.upd = y => q.counter = r.counter
  BY DEF Period, IsRow
<1>2. q.late = (r.late \/ y < r.upd)
  BY DEF Period, IsRow
<1> HIDE DEF q
<1>3. IsRow(q)
  BY <1>1, <1>2 DEF IsRow
<1> QED
  BY <1>1, <1>2, <1>3 DEF q

\* The counter moves on and the year is recorded, or the row stays as it was.
LEMMA SteppedFields ==
  ASSUME NEW r, IsRow(r), NEW y \in Nat, year \in Nat
  PROVE  /\ IsRow(Stepped(r, y))
         /\ Stepped(r, y).there = r.there
         /\ \/ Stepped(r, y) = r /\ r.upd # y /\ r.counter = 2
            \/ /\ Period(r, y).counter + 1 # r.counter
               /\ Stepped(r, y).upd = year
               /\ Stepped(r, y).counter = Period(r, y).counter + 1
               /\ Stepped(r, y).late = (r.late \/ y < r.upd)
<1> DEFINE p == Period(r, y)
           q == Stepped(r, y)
<1>1. /\ IsRow(p) /\ p.there = r.there /\ p.late = (r.late \/ y < r.upd)
      /\ r.upd # y => p.counter = 1
      /\ r.upd = y => p.counter = r.counter
      /\ r.counter \in Nat
  BY PeriodFields DEF IsRow
<1>2. q = IF p.counter + 1 = r.counter THEN r
                                       ELSE [p EXCEPT !.counter = p.counter + 1, !.upd = year]
  BY DEF Stepped
<1> HIDE DEF p, q
<1>3. CASE p.counter + 1 = r.counter
  BY <1>1, <1>2, <1>3 DEF p, q
<1>4. CASE p.counter + 1 # r.counter
  <2>1. /\ q.there = p.there /\ q.upd = year /\ q.counter = p.counter + 1
        /\ DOMAIN q = {"there", "counter", "upd", "late"}
    BY <1>1, <1>2, <1>4 DEF IsRow
  <2>2. q.late = p.late
    BY <1>1, <1>2, <1>4 DEF IsRow
  <2>3. IsRow(q)
    BY <1>1, <2>1, <2>2 DEF IsRow
  <2> QED
    BY <1>1, <1>4, <2>1, <2>2, <2>3 DEF p, q
<1> QED
  BY <1>3, <1>4

\* A number taken on a date that has come keeps the row good.
LEMMA StepGood ==
  ASSUME year \in Nat, NEW r, IsRow(r), NEW y \in Nat, y <= year,
         NEW s \in SUBSET Num, Good(year, r, s)
  PROVE  Good(year, Stepped(r, y), s \union {<<y, Period(r, y).counter>>})
<1> DEFINE q == Stepped(r, y)
           k == Period(r, y).counter
           new == <<y, k>>
<1>1. /\ k \in Nat /\ r.upd \in Nat /\ r.counter \in Nat /\ r.late \in BOOLEAN
      /\ r.upd = y => k = r.counter
      /\ r.upd # y => k = 1
  BY PeriodFields DEF IsRow
<1>2. \/ q = r /\ r.upd # y /\ r.counter = 2
      \/ k + 1 # r.counter /\ q.upd = year /\ q.counter = k + 1 /\ q.late = (r.late \/ y < r.upd)
  BY SteppedFields
<1>3. new[1] = y /\ new[2] = k
  OBVIOUS
<1>4. r.upd <= year
  BY DEF Good
<1> HIDE DEF q, k, new
<1>5. CASE q = r /\ r.upd # y /\ r.counter = 2
  <2>1. \A num \in s \union {new} :
          /\ num[1] <= year
          /\ num[1] > r.upd => r.counter = 2 /\ num[2] = 1
          /\ ~r.late /\ num[1] = r.upd => num[2] < r.counter
    <3>1. new[1] <= year /\ new[1] # r.upd /\ new[2] = 1
      BY <1>1, <1>3, <1>5
    <3>2. ASSUME NEW num \in s
          PROVE  /\ num[1] <= year
                 /\ num[1] > r.upd => r.counter = 2 /\ num[2] = 1
                 /\ ~r.late /\ num[1] = r.upd => num[2] < r.counter
      BY DEF Good
    <3> QED
      BY <1>5, <3>1, <3>2
  <2> QED
    BY <1>4, <1>5, <2>1 DEF Good, q, k, new
<1>6. CASE /\ k + 1 # r.counter /\ q.upd = year /\ q.counter = k + 1
           /\ q.late = (r.late \/ y < r.upd)
  <2>1. ASSUME NEW num \in s
        PROVE  /\ num[1] <= year /\ ~(num[1] > q.upd)
               /\ ~q.late /\ num[1] = q.upd => num[2] < q.counter
    <3>1. /\ num[1] \in Nat /\ num[2] \in Nat /\ num[1] <= year
          /\ num[1] > r.upd => r.counter = 2 /\ num[2] = 1
          /\ ~r.late /\ num[1] = r.upd => num[2] < r.counter
      BY DEF Good, Num
    <3>2. ASSUME ~q.late, num[1] = q.upd
          PROVE  num[2] < q.counter
      <4>1. ~r.late /\ ~(y < r.upd) /\ num[1] = year
        BY <1>6, <3>2
      <4>2. CASE num[1] > r.upd
        <5>1. r.counter = 2 /\ num[2] = 1
          BY <3>1, <4>2
        <5>2. r.upd = y
          BY <1>1, <1>6, <5>1
        <5> QED
          BY <1>1, <1>6, <5>1, <5>2
      <4>3. CASE ~(num[1] > r.upd)
        <5>1. num[1] = r.upd /\ r.upd = y
          BY <1>1, <1>4, <4>1, <4>3
        <5> QED
          BY <1>1, <1>6, <3>1, <4>1, <5>1
      <4> QED
        BY <4>2, <4>3
    <3>3. ~(num[1] > q.upd)
      BY <1>6, <3>1
    <3> QED
      BY <3>1, <3>2, <3>3
  <2>2. new[1] <= year /\ ~(new[1] > q.upd) /\ new[2] < q.counter
    BY <1>1, <1>3, <1>6
  <2>3. q.upd <= year
    BY <1>6
  <2> QED
    BY <2>1, <2>2, <2>3 DEF Good, q, k, new
<1> QED
  BY <1>2, <1>5, <1>6

\* The number a good row gives is new, unless it is dated in an earlier year than the row
\* or the row is stuck.
LEMMA GivesNew ==
  ASSUME NEW now \in Nat, NEW r, IsRow(r), NEW y \in Nat,
         NEW s \in SUBSET Num, Good(now, r, s), <<y, Period(r, y).counter>> \in s
  PROVE  y < r.upd \/ r.late \/ Stuck(r, y)
<1>1. /\ y > r.upd => r.counter = 2
      /\ ~r.late /\ y = r.upd => Period(r, y).counter < r.counter
  BY DEF Good
<1>2. (r.upd = y => Period(r, y).counter = r.counter) /\ r.upd \in Nat /\ r.counter \in Nat
  BY PeriodFields DEF IsRow
<1> QED
  BY <1>1, <1>2 DEF Stuck

LEMMA MaxOf ==
  ASSUME NumbersAssumption, NEW s \in SUBSET (1 .. Largest), s # {}
  PROVE  Max(s) \in s /\ \A n \in s : n <= Max(s)
<1> DEFINE t == {n \in Nat : Largest - n \in s}
<1>1. t \in SUBSET Nat /\ t # {}
  <2>1. PICK n \in s : TRUE
    OBVIOUS
  <2>2. n \in Int /\ Largest \in Nat /\ n <= Largest
    BY <2>1 DEF NumbersAssumption
  <2>3. Largest - n \in Nat /\ Largest - (Largest - n) = n
    BY <2>2
  <2> QED
    BY <2>1, <2>3
<1>2. PICK n \in t : \A m \in t : <<m, n>> \notin OpToRel(<, Nat)
  <2> HIDE DEF t
  <2> QED
    BY <1>1, NatLessThanWellFounded, WFMin
<1>3. \A m \in t : ~(m < n)
  BY <1>2 DEF OpToRel
<1>4. Largest - n \in s /\ n \in Nat /\ Largest \in Nat
  BY DEF NumbersAssumption
<1>5. \A k \in s : k <= Largest - n
  <2> SUFFICES ASSUME NEW k \in s PROVE k <= Largest - n
    OBVIOUS
  <2>1. k \in Int /\ k <= Largest
    OBVIOUS
  <2>2. Largest - k \in Nat /\ Largest - (Largest - k) = k
    BY <1>4, <2>1
  <2>3. Largest - k \in t
    BY <2>2
  <2>4. ~(Largest - k < n)
    BY <1>3, <2>3
  <2> QED
    BY <1>4, <2>1, <2>4
<1>6. \E x \in s : \A y \in s : x >= y
  <2>1. \A k \in s : Largest - n >= k
    BY <1>4, <1>5
  <2> QED
    BY <1>4, <2>1
<1>7. Max(s) \in s /\ \A n_1 \in s : Max(s) >= n_1
  BY <1>6 DEF Max
<1> QED
  BY <1>7

\* The number Latest gives: none of the year, or the one below which the padded ones lie.
LEMMA LatestIs ==
  ASSUME NumbersAssumption, NEW s, NEW y
  PROVE  /\ Latest(s, y) \in Nat
         /\ Latest(s, y) = 0 \/ <<y, Latest(s, y)>> \in s
         /\ \A n \in 1 .. Largest : <<y, n>> \in s => n <= Latest(s, y)
<1> DEFINE padded == {n \in 1 .. Largest : <<y, n>> \in s}
<1>1. CASE padded = {}
  BY <1>1 DEF Latest
<1>2. CASE padded # {}
  <2>1. Max(padded) \in padded /\ \A n \in padded : n <= Max(padded)
    BY <1>2, MaxOf
  <2>2. Latest(s, y) = Max(padded)
    BY <1>2 DEF Latest
  <2>3. Latest(s, y) \in padded /\ \A n \in padded : n <= Latest(s, y)
    BY <2>1, <2>2
  <2> QED
    BY <2>3
<1> QED
  BY <1>1, <1>2

---------------------------------------------------------------------------
(***************************************************************************)
(* The invariant                                                           *)
(***************************************************************************)

ReqFields == {"pc", "plan", "at", "date", "own", "read", "docs", "entries", "held", "num", "seen"}

IsReq(r) ==
    /\ DOMAIN r = ReqFields
    /\ r.pc \in Stages /\ r.at \in Nat \ {0} /\ r.date \in Nat /\ r.num \in Num
    /\ r.plan \in Seq(Code \union {"entry"}) /\ Once(r.plan)
    /\ DOMAIN r.own = Code
    /\ \A c \in Code : IsRow(r.own[c])
    /\ r.docs \in SUBSET (Code \X Num) /\ r.entries \in SUBSET Num

Types ==
    /\ year \in Nat
    /\ DOMAIN row = Code
    /\ \A c \in Code : IsRow(row[c])
    /\ lockOf \in [Code -> Worker \union {Nobody}]
    /\ DOMAIN docs = Code
    /\ \A c \in Code : docs[c] \in SUBSET Num
    /\ entries \in SUBSET Num
    /\ DOMAIN req = Worker
    /\ \A w \in Worker : IsReq(req[w])

\* The documents of a sequence a request has numbered.
Mine(s, c) == {p[2] : p \in {q \in s : q[1] = c}}

Want(r) == r.plan[r.at]

RowsGood == \A c \in Code : IF row[c].there THEN Good(year, row[c], docs[c]) ELSE docs[c] = {}

\* A row a request has written is locked by it, and good for its documents too.
Owned(w, r, c) ==
    /\ r.own[c].there => lockOf[c] = w /\ Good(year, r.own[c], docs[c] \union Mine(r.docs, c))
    /\ ~r.own[c].there => Mine(r.docs, c) = {}
    /\ lockOf[c] = w => r.own[c].there \/ r.pc = "collided"

\* It was written for an earlier step of the plan, or has just been inserted.
Reason(r, c) ==
    r.own[c].there /\ r.pc # "collided" =>
        \/ \E i \in 1 .. (r.at - 1) : r.plan[i] = c
        \/ r.pc \in {"found", "dated"} /\ Want(r) = c /\ ~row[c].there

OnSequence(r) ==
    /\ r.pc = "idle" => r.at = 1
    /\ r.pc \in {"create", "found", "dated"} => r.at \in DOMAIN r.plan /\ Want(r) \in Code
    /\ r.pc \in {"found", "dated"} => r.own[Want(r)].there \/ row[Want(r)].there
    /\ r.date <= year

\* A journal number chosen was free, and follows one the request sees.
OnJournal(r) ==
    r.pc \in {"row", "numbered"} =>
        /\ r.at \in DOMAIN r.plan /\ Want(r) = "entry"
        /\ r.num[2] = 1 \/ <<r.num[1], r.num[2] - 1>> \in entries \union r.entries
        /\ r.num[2] > Largest \/ r.num \notin r.seen

Collided(w, r) ==
    r.pc = "collided" =>
        /\ r.at \in DOMAIN r.plan
        /\ IF Want(r) = "entry"
             THEN r.num[2] > Largest \/ r.num \notin r.seen
             ELSE /\ lockOf[Want(r)] = w
                  /\ \/ r.num[1] < row[Want(r)].upd \/ row[Want(r)].late
                     \/ Stuck(row[Want(r)], r.num[1])

Gapless(s) == \A num \in s : num[2] = 1 \/ <<num[1], num[2] - 1>> \in s

Work(w, r) ==
    /\ \A c \in Code : Owned(w, r, c) /\ Reason(r, c)
    /\ OnSequence(r)
    /\ OnJournal(r)
    /\ Collided(w, r)
    /\ Gapless(entries \union r.entries)

IInv == /\ Types
        /\ RowsGood
        /\ Gapless(entries)
        /\ \A w \in Worker : Work(w, req[w])

LEMMA GaplessUnion ==
  ASSUME NEW s, NEW t, Gapless(s), Gapless(t)
  PROVE  Gapless(s \union t)
BY DEF Gapless

LEMMA GaplessAdd ==
  ASSUME NEW s, NEW num, Gapless(s), num[2] = 1 \/ <<num[1], num[2] - 1>> \in s
  PROVE  Gapless(s \union {num})
BY DEF Gapless

LEMMA GoodLess ==
  ASSUME NEW now, NEW r, NEW s, NEW t, Good(now, r, s), t \subseteq s
  PROVE  Good(now, r, t)
BY DEF Good

LEMMA GoodLater ==
  ASSUME NEW now \in Nat, NEW y \in Nat, now <= y, NEW r, IsRow(r),
         NEW s \in SUBSET Num, Good(now, r, s)
  PROVE  Good(y, r, s)
<1>1. r.upd <= y
  BY DEF Good, IsRow
<1>2. ASSUME NEW num \in s
      PROVE  num[1] <= y
  <2>1. num[1] \in Nat /\ num[1] <= now
    BY DEF Good, Num
  <2> QED
    BY <2>1
<1> QED
  BY <1>1, <1>2 DEF Good

\* A step of one request that commits nothing leaves the others as they were.
LEMMA OwnStep ==
  ASSUME NumbersAssumption, IInv, NEW w \in Worker,
         UNCHANGED <<year, row, docs, entries>>,
         DOMAIN req' = Worker, \A u \in Worker \ {w} : req'[u] = req[u],
         lockOf' \in [Code -> Worker \union {Nobody}],
         \A c \in Code : \/ lockOf'[c] = lockOf[c]
                         \/ lockOf[c] \in {Nobody, w} /\ lockOf'[c] \in {Nobody, w},
         IsReq(req'[w]), Work(w, req[w])'
  PROVE  IInv'
<1>1. Types' /\ RowsGood' /\ Gapless(entries)'
  BY DEF IInv, Types, RowsGood, Gapless
<1>2. ASSUME NEW u \in Worker
      PROVE  Work(u, req[u])'
  <2>1. CASE u = w
    BY <2>1
  <2>2. CASE u # w
    <3>1. req'[u] = req[u] /\ Work(u, req[u])
      BY <2>2 DEF IInv
    <3>2. \A c \in Code : lockOf'[c] = u <=> lockOf[c] = u
      BY <2>2 DEF NumbersAssumption
    <3>3. \A c \in Code : Owned(u, req[u], c)' /\ Reason(req[u], c)'
      <4> SUFFICES ASSUME NEW c \in Code
                   PROVE  Owned(u, req[u], c)' /\ Reason(req[u], c)'
        OBVIOUS
      <4>1. Owned(u, req[u], c) /\ Reason(req[u], c) /\ (lockOf'[c] = u <=> lockOf[c] = u)
        BY <3>1, <3>2 DEF Work
      <4>2. Owned(u, req[u], c)'
        BY <3>1, <4>1 DEF Owned
      <4>3. Reason(req[u], c)'
        BY <3>1, <4>1 DEF Reason, Want
      <4> QED
        BY <4>2, <4>3
    <3>4. OnSequence(req[u])' /\ OnJournal(req[u])' /\ Gapless(entries \union req[u].entries)'
      BY <3>1 DEF Work, OnSequence, OnJournal, Want, Gapless
    <3>5. Collided(u, req[u])'
      <4>1. Collided(u, req[u]) /\ IsReq(req[u])
        BY <3>1 DEF Work, IInv, Types
      <4>2. req[u].at \in DOMAIN req[u].plan => Want(req[u]) \in Code \union {"entry"}
        BY <4>1 DEF IsReq, Want
      <4> QED
        BY <3>1, <3>2, <4>1, <4>2 DEF Collided, Want
    <3> QED
      BY <3>3, <3>4, <3>5 DEF Work
  <2> QED
    BY <2>1, <2>2
<1> QED
  BY <1>1, <1>2 DEF IInv

---------------------------------------------------------------------------
(***************************************************************************)
(* Beginning and ending                                                    *)
(***************************************************************************)

\* A request that holds nothing.
LEMMA NewWork ==
  ASSUME NEW w \in Worker, year' \in Nat, Gapless(entries)',
         req'[w].pc \in {"idle", "next"}, req'[w].at = 1, req'[w].date = 0,
         \A c \in Code : ~req'[w].own[c].there /\ lockOf'[c] # w,
         req'[w].docs = {}, req'[w].entries = {}
  PROVE  Work(w, req[w])'
<1>1. \A c \in Code : Owned(w, req[w], c)' /\ Reason(req[w], c)'
  BY DEF Owned, Reason, Mine
<1>2. OnSequence(req[w])' /\ OnJournal(req[w])' /\ Collided(w, req[w])'
  BY DEF OnSequence, OnJournal, Collided
<1>3. Gapless(entries \union req[w].entries)'
  <2>1. entries' \union req'[w].entries = entries'
    OBVIOUS
  <2> QED
    BY <2>1
<1> QED
  BY <1>1, <1>2, <1>3 DEF Work

LEMMA NoWorkFields ==
  /\ IsReq(NoWork)
  /\ NoWork.pc = "idle" /\ NoWork.at = 1 /\ NoWork.date = 0
  /\ NoWork.docs = {} /\ NoWork.entries = {}
  /\ \A c \in Code : ~NoWork.own[c].there
<1>1. /\ DOMAIN NoWork = ReqFields
      /\ NoWork.pc = "idle" /\ NoWork.at = 1 /\ NoWork.date = 0 /\ NoWork.num = <<0, 0>>
      /\ NoWork.docs = {} /\ NoWork.entries = {} /\ NoWork.plan = << >>
      /\ NoWork.own = [c \in Code |-> NoRow]
  BY DEF NoWork, ReqFields
<1>2. IsRow(NoRow) /\ ~NoRow.there
  BY DEF IsRow, NoRow
<1>3. IsReq(NoWork)
  BY <1>1, <1>2 DEF IsReq, Stages, Num, Once
<1> QED
  BY <1>1, <1>2, <1>3

LEMMA InitInv ==
  ASSUME NumbersAssumption, Init
  PROVE  IInv
<1>1. IsRow(NoRow) /\ ~NoRow.there
  BY DEF IsRow, NoRow
<1>2. Types
  BY <1>1, NoWorkFields DEF Init, Types
<1>3. RowsGood /\ Gapless(entries)
  BY <1>1 DEF Init, RowsGood, Gapless
<1>4. ASSUME NEW w \in Worker
      PROVE  Work(w, req[w])
  <2>1. req[w] = NoWork /\ year = 1 /\ entries = {} /\ \A c \in Code : lockOf[c] # w
    BY DEF Init, NumbersAssumption
  <2>2. \A c \in Code : Owned(w, req[w], c) /\ Reason(req[w], c)
    BY <2>1, NoWorkFields DEF Owned, Reason, Mine
  <2>3. OnSequence(req[w]) /\ OnJournal(req[w]) /\ Collided(w, req[w])
    BY <2>1, NoWorkFields DEF OnSequence, OnJournal, Collided
  <2>4. Gapless(entries \union req[w].entries)
    BY <2>1, NoWorkFields DEF Gapless
  <2> QED
    BY <2>2, <2>3, <2>4 DEF Work
<1> QED
  BY <1>2, <1>3, <1>4 DEF IInv

\* An idle request holds no lock.
LEMMA IdleHoldsNothing ==
  ASSUME IInv, NEW w \in Worker, req[w].pc = "idle", NEW c \in Code
  PROVE  lockOf[c] # w
<1>1. Owned(w, req[w], c) /\ Reason(req[w], c) /\ OnSequence(req[w])
  BY DEF IInv, Work
<1> QED
  BY <1>1 DEF Owned, Reason, OnSequence

LEMMA BeginStep ==
  ASSUME NumbersAssumption, IInv, NEW w \in Worker, NEW p \in Plans, Begin(w, p)
  PROVE  IInv'
<1> DEFINE r == [NoWork EXCEPT !.pc = "next", !.plan = p]
<1>1. /\ DOMAIN req' = Worker /\ (\A u \in Worker \ {w} : req'[u] = req[u])
      /\ req'[w] = r
  BY DEF Begin, Own, IInv, Types
<1>2. /\ DOMAIN r = ReqFields /\ r.pc = "next" /\ r.plan = p /\ r.at = 1
      /\ r.date = 0 /\ r.docs = {} /\ r.entries = {}
      /\ r.own = NoWork.own /\ r.num = NoWork.num
  BY NoWorkFields DEF IsReq, ReqFields
<1> HIDE DEF r
<1>3. IsReq(req'[w])
  <2>1. p \in Seq(Code \union {"entry"}) /\ Once(p)
    BY DEF NumbersAssumption
  <2> QED
    BY <1>1, <1>2, <2>1, NoWorkFields DEF IsReq, Stages
<1>4. \A c \in Code : lockOf'[c] # w
  BY IdleHoldsNothing DEF Begin
<1>5. Work(w, req[w])'
  BY <1>1, <1>2, <1>4, NewWork, NoWorkFields DEF Begin, IInv, Types
<1> QED
  BY <1>1, <1>3, <1>5, OwnStep DEF Begin, IInv, Types

\* What releasing the locks of a request does to them.
LEMMA ReleaseFacts ==
  ASSUME NumbersAssumption, Types, NEW w \in Worker, Released(w)
  PROVE  /\ lockOf' \in [Code -> Worker \union {Nobody}]
         /\ \A c \in Code : /\ lockOf'[c] # w
                            /\ lockOf[c] = w => lockOf'[c] = Nobody
                            /\ lockOf[c] # w => lockOf'[c] = lockOf[c]
BY DEF Released, Types, NumbersAssumption

LEMMA RollbackStep ==
  ASSUME NumbersAssumption, IInv, NEW w \in Worker, Rollback(w)
  PROVE  IInv'
<1>1. /\ DOMAIN req' = Worker /\ (\A u \in Worker \ {w} : req'[u] = req[u])
      /\ req'[w] = NoWork
  BY DEF Rollback, Own, IInv, Types
<1>2. /\ lockOf' \in [Code -> Worker \union {Nobody}]
      /\ \A c \in Code : /\ lockOf'[c] # w
                         /\ lockOf[c] = w => lockOf'[c] = Nobody
                         /\ lockOf[c] # w => lockOf'[c] = lockOf[c]
  BY ReleaseFacts DEF Rollback, IInv
<1>3. Work(w, req[w])'
  BY <1>1, <1>2, NewWork, NoWorkFields DEF Rollback, IInv, Types
<1> QED
  BY <1>1, <1>2, <1>3, OwnStep, NoWorkFields DEF Rollback

---------------------------------------------------------------------------
(***************************************************************************)
(* Numbering                                                               *)
(***************************************************************************)

\* A step that only moves the request on keeps what it owns.
LEMMA Carry ==
  ASSUME IInv, NEW w \in Worker, UNCHANGED <<year, row, docs, entries, lockOf>>,
         req'[w].plan = req[w].plan, req'[w].at = req[w].at, req'[w].own = req[w].own,
         req'[w].docs = req[w].docs, req'[w].entries = req[w].entries,
         req[w].pc # "collided",
         req[w].pc \in {"found", "dated"} => req'[w].pc \in {"found", "dated", "collided"}
  PROVE  /\ \A c \in Code : Owned(w, req[w], c)' /\ Reason(req[w], c)'
         /\ Gapless(entries \union req[w].entries)'
<1>1. ASSUME NEW c \in Code
      PROVE  Owned(w, req[w], c)' /\ Reason(req[w], c)'
  <2>1. Owned(w, req[w], c) /\ Reason(req[w], c)
    BY DEF IInv, Work
  <2>2. Mine(req'[w].docs, c) = Mine(req[w].docs, c)
    BY DEF Mine
  <2>3. Owned(w, req[w], c)'
    BY <2>1, <2>2 DEF Owned
  <2>4. Reason(req[w], c)'
    BY <2>1 DEF Reason, Want
  <2> QED
    BY <2>3, <2>4
<1>2. Gapless(entries' \union req'[w].entries)
  BY DEF IInv, Work
<1> QED
  BY <1>1, <1>2

\* A request that asks for a number of a sequence has not written its row.
LEMMA AskFacts ==
  ASSUME IInv, NEW w \in Worker, Asks(w, "next")
  PROVE  /\ req[w].pc = "next" /\ req[w].at \in DOMAIN req[w].plan
         /\ Wanted(w) \in Code => ~req[w].own[Wanted(w)].there
<1>1. IsReq(req[w]) /\ Work(w, req[w])
  BY DEF IInv, Types
<1>2. req[w].at \in DOMAIN req[w].plan /\ req[w].pc = "next"
  BY <1>1 DEF Asks, IsReq
<1>3. ASSUME Wanted(w) \in Code, req[w].own[Wanted(w)].there
      PROVE  FALSE
  <2>1. PICK i \in 1 .. (req[w].at - 1) : req[w].plan[i] = Wanted(w)
    BY <1>1, <1>2, <1>3 DEF Work, Reason
  <2>2. i \in DOMAIN req[w].plan /\ i # req[w].at
    BY <1>1, <1>2, <2>1 DEF IsReq
  <2> QED
    BY <1>1, <1>2, <1>3, <2>1, <2>2 DEF IsReq, Once, Wanted
<1> QED
  BY <1>2, <1>3

LEMMA FindStep ==
  ASSUME NumbersAssumption, IInv, NEW w \in Worker, Find(w)
  PROVE  IInv'
<1> DEFINE c == Wanted(w)
           d == IF req[w].own[c].there THEN req[w].own[c] ELSE row[c]
           pc == IF d.there THEN "found" ELSE "create"
           r == [req[w] EXCEPT !.pc = pc, !.read = d]
<1>1. /\ DOMAIN req' = Worker /\ (\A u \in Worker \ {w} : req'[u] = req[u])
      /\ req'[w] = r /\ Asks(w, "next") /\ c \in Code
      /\ UNCHANGED <<year, row, lockOf, docs, entries>>
  BY DEF Find, Own, IInv, Types
<1>2. IsReq(req[w]) /\ Work(w, req[w])
  BY DEF IInv, Types
<1>3. pc \in {"found", "create"} /\ (pc = "found" => row[c].there)
  BY <1>1, AskFacts
<1> HIDE DEF pc, d
<1>4. /\ DOMAIN r = ReqFields /\ r.pc = pc /\ r.plan = req[w].plan /\ r.at = req[w].at
      /\ r.own = req[w].own /\ r.docs = req[w].docs /\ r.entries = req[w].entries
      /\ r.date = req[w].date /\ r.num = req[w].num
  BY <1>2 DEF IsReq, ReqFields
<1> HIDE DEF r
<1>5. IsReq(req'[w])
  BY <1>1, <1>2, <1>3, <1>4 DEF IsReq, Stages
<1>6. /\ \A k \in Code : Owned(w, req[w], k)' /\ Reason(req[w], k)'
      /\ Gapless(entries \union req[w].entries)'
  BY <1>1, <1>4, AskFacts, Carry
<1>7. OnSequence(req[w])'
  BY <1>1, <1>2, <1>3, <1>4, AskFacts DEF Work, OnSequence, Want, Wanted
<1>8. OnJournal(req[w])' /\ Collided(w, req[w])'
  BY <1>1, <1>3, <1>4 DEF OnJournal, Collided
<1>9. Work(w, req[w])'
  BY <1>6, <1>7, <1>8 DEF Work
<1> QED
  BY <1>1, <1>5, <1>9, OwnStep DEF IInv, Types

LEMMA TakeDateStep ==
  ASSUME NumbersAssumption, IInv, NEW w \in Worker, TakeDate(w)
  PROVE  IInv'
<1> DEFINE r == [req[w] EXCEPT !.pc = "dated", !.date = year]
<1>1. /\ DOMAIN req' = Worker /\ (\A u \in Worker \ {w} : req'[u] = req[u])
      /\ req'[w] = r /\ req[w].pc = "found" /\ year \in Nat
      /\ UNCHANGED <<year, row, lockOf, docs, entries>>
  BY DEF TakeDate, Own, IInv, Types
<1>2. IsReq(req[w]) /\ Work(w, req[w])
  BY DEF IInv, Types
<1>3. /\ DOMAIN r = ReqFields /\ r.pc = "dated" /\ r.plan = req[w].plan /\ r.at = req[w].at
      /\ r.own = req[w].own /\ r.docs = req[w].docs /\ r.entries = req[w].entries
      /\ r.date = year /\ r.num = req[w].num
  BY <1>2 DEF IsReq, ReqFields
<1> HIDE DEF r
<1>4. IsReq(req'[w])
  BY <1>1, <1>2, <1>3 DEF IsReq, Stages
<1>5. /\ \A k \in Code : Owned(w, req[w], k)' /\ Reason(req[w], k)'
      /\ Gapless(entries \union req[w].entries)'
  BY <1>1, <1>3, Carry
<1>6. OnSequence(req[w])'
  BY <1>1, <1>2, <1>3 DEF Work, OnSequence, Want
<1>7. OnJournal(req[w])' /\ Collided(w, req[w])'
  BY <1>1, <1>3 DEF OnJournal, Collided
<1>8. Work(w, req[w])'
  BY <1>5, <1>6, <1>7 DEF Work
<1> QED
  BY <1>1, <1>4, <1>8, OwnStep DEF IInv, Types

LEMMA CreateStep ==
  ASSUME NumbersAssumption, IInv, NEW w \in Worker, Create(w)
  PROVE  IInv'
<1> DEFINE c == Wanted(w)
<1>1. IsReq(req[w]) /\ Work(w, req[w]) /\ year \in Nat /\ w # Nobody /\ DOMAIN req = Worker
  BY DEF IInv, Types, NumbersAssumption
<1>2. req[w].pc = "create" /\ lockOf[c] = Nobody /\ c \in Code /\ c = Want(req[w])
  BY <1>1 DEF Create, Work, OnSequence, Want, Wanted
<1>3. UNCHANGED <<year, row, docs, entries>>
  BY DEF Create
<1>4. ~req[w].own[c].there /\ Mine(req[w].docs, c) = {}
  BY <1>1, <1>2 DEF Work, Owned
<1>5. CASE row[c].there
  <2> DEFINE r == [req[w] EXCEPT !.pc = "found", !.read = row[c]]
  <2>1. /\ DOMAIN req' = Worker /\ (\A u \in Worker \ {w} : req'[u] = req[u])
        /\ req'[w] = r /\ lockOf' = lockOf
    BY <1>1, <1>5 DEF Create, Own
  <2>2. /\ DOMAIN r = ReqFields /\ r.pc = "found" /\ r.plan = req[w].plan
        /\ r.at = req[w].at /\ r.own = req[w].own /\ r.docs = req[w].docs
        /\ r.entries = req[w].entries /\ r.date = req[w].date /\ r.num = req[w].num
    BY <1>1 DEF IsReq, ReqFields
  <2> HIDE DEF r
  <2>3. IsReq(req'[w])
    BY <1>1, <2>1, <2>2 DEF IsReq, Stages
  <2>4. /\ \A k \in Code : Owned(w, req[w], k)' /\ Reason(req[w], k)'
        /\ Gapless(entries \union req[w].entries)'
    BY <1>2, <1>3, <2>1, <2>2, Carry
  <2>5. OnSequence(req[w])'
    BY <1>1, <1>2, <1>3, <1>5, <2>1, <2>2 DEF Work, OnSequence, Want
  <2>6. OnJournal(req[w])' /\ Collided(w, req[w])'
    BY <2>1, <2>2 DEF OnJournal, Collided
  <2>7. Work(w, req[w])'
    BY <2>4, <2>5, <2>6 DEF Work
  <2> QED
    BY <1>3, <2>1, <2>3, <2>7, OwnStep DEF IInv, Types
<1>6. CASE ~row[c].there
  <2> DEFINE r == [req[w] EXCEPT !.pc = "found", !.own[c] = Fresh, !.read = Fresh]
  <2>1. /\ DOMAIN req' = Worker /\ (\A u \in Worker \ {w} : req'[u] = req[u])
        /\ req'[w] = r /\ lockOf' = [lockOf EXCEPT ![c] = w]
    BY <1>1, <1>6 DEF Create, Own
  <2>2. /\ DOMAIN r = ReqFields /\ r.pc = "found" /\ r.plan = req[w].plan
        /\ r.at = req[w].at /\ r.own = [req[w].own EXCEPT ![c] = Fresh]
        /\ r.docs = req[w].docs
        /\ r.entries = req[w].entries /\ r.date = req[w].date /\ r.num = req[w].num
    BY <1>1 DEF IsReq, ReqFields
  <2>3. IsRow(Fresh) /\ Fresh.there /\ Fresh.upd = year
    BY <1>1 DEF IsRow, Fresh
  <2> HIDE DEF r
  <2>4. /\ DOMAIN r.own = Code /\ r.own[c] = Fresh
        /\ \A k \in Code \ {c} : r.own[k] = req[w].own[k]
    BY <1>1, <1>2, <2>2 DEF IsReq
  <2>5. /\ lockOf' \in [Code -> Worker \union {Nobody}] /\ lockOf'[c] = w
        /\ \A k \in Code \ {c} : lockOf'[k] = lockOf[k]
    BY <1>2, <2>1 DEF IInv, Types
  <2>6. IsReq(req'[w])
    <3>1. \A k \in Code : IsRow(r.own[k])
      BY <1>1, <2>3, <2>4 DEF IsReq
    <3> QED
      BY <1>1, <2>1, <2>2, <2>4, <3>1 DEF IsReq, Stages
  <2>7. ASSUME NEW k \in Code
        PROVE  Owned(w, req[w], k)' /\ Reason(req[w], k)'
    <3>1. Mine(req'[w].docs, k) = Mine(req[w].docs, k)
      BY <2>1, <2>2 DEF Mine
    <3>2. CASE k = c
      <4>1. docs[c] = {}
        BY <1>2, <1>6 DEF IInv, RowsGood
      <4>2. Good(year, Fresh, {} \union {})
        BY <1>1, <2>3 DEF Good
      <4>3. Owned(w, req[w], k)'
        BY <1>3, <1>4, <2>1, <2>3, <2>4, <2>5, <3>1, <3>2, <4>1, <4>2 DEF Owned
      <4>4. Reason(req[w], k)'
        BY <1>2, <1>3, <1>6, <2>1, <2>2, <3>2 DEF Reason, Want
      <4> QED
        BY <4>3, <4>4
    <3>3. CASE k # c
      <4>1. Owned(w, req[w], k) /\ Reason(req[w], k)
        BY <1>1 DEF Work
      <4>2. Owned(w, req[w], k)'
        BY <1>2, <1>3, <2>1, <2>2, <2>4, <2>5, <3>1, <3>3, <4>1 DEF Owned
      <4>3. Reason(req[w], k)'
        BY <1>2, <1>3, <2>1, <2>2, <2>4, <3>3, <4>1 DEF Reason, Want
      <4> QED
        BY <4>2, <4>3
    <3> QED
      BY <3>2, <3>3
  <2>8. OnSequence(req[w])'
    BY <1>1, <1>2, <1>3, <2>1, <2>2, <2>3, <2>4 DEF Work, OnSequence, Want
  <2>9. OnJournal(req[w])' /\ Collided(w, req[w])'
    BY <2>1, <2>2 DEF OnJournal, Collided
  <2>10. Gapless(entries \union req[w].entries)'
    BY <1>1, <1>3, <2>1, <2>2 DEF Work, Gapless
  <2>11. Work(w, req[w])'
    BY <2>7, <2>8, <2>9, <2>10 DEF Work
  <2>12. \A k \in Code : \/ lockOf'[k] = lockOf[k]
                         \/ lockOf[k] \in {Nobody, w} /\ lockOf'[k] \in {Nobody, w}
    BY <1>2, <2>5
  <2> QED
    BY <1>3, <2>1, <2>5, <2>6, <2>11, <2>12, OwnStep
<1> QED
  BY <1>5, <1>6

LEMMA LookEntryStep ==
  ASSUME NumbersAssumption, IInv, NEW w \in Worker, LookEntry(w)
  PROVE  IInv'
<1> DEFINE k  == Latest(Visible(w), year)
           pc == IF k = 0 THEN "numbered" ELSE "row"
           r  == [req[w] EXCEPT !.num = <<year, k + 1>>, !.pc = pc, !.seen = entries]
<1>1. IsReq(req[w]) /\ Work(w, req[w]) /\ year \in Nat /\ DOMAIN req = Worker
  BY DEF IInv, Types
<1>2. /\ DOMAIN req' = Worker /\ (\A u \in Worker \ {w} : req'[u] = req[u])
      /\ req'[w] = r /\ Asks(w, "next") /\ Wanted(w) = "entry"
      /\ UNCHANGED <<year, row, lockOf, docs, entries>>
  BY <1>1 DEF LookEntry, Own
<1>3. /\ k \in Nat /\ (k = 0 \/ <<year, k>> \in entries \union req[w].entries)
      /\ \A n \in 1 .. Largest : <<year, n>> \in entries \union req[w].entries => n <= k
  BY LatestIs DEF Visible
<1>4. pc \in {"numbered", "row"}
  OBVIOUS
<1> HIDE DEF k, pc
<1>5. /\ DOMAIN r = ReqFields /\ r.pc = pc /\ r.plan = req[w].plan /\ r.at = req[w].at
      /\ r.own = req[w].own /\ r.docs = req[w].docs /\ r.entries = req[w].entries
      /\ r.date = req[w].date /\ r.num = <<year, k + 1>> /\ r.seen = entries
  BY <1>1 DEF IsReq, ReqFields
<1> HIDE DEF r
<1>6. IsReq(req'[w])
  BY <1>1, <1>2, <1>3, <1>4, <1>5 DEF IsReq, Stages, Num
<1>7. /\ \A c \in Code : Owned(w, req[w], c)' /\ Reason(req[w], c)'
      /\ Gapless(entries \union req[w].entries)'
  BY <1>2, <1>5, AskFacts, Carry
<1>8. OnSequence(req[w])' /\ Collided(w, req[w])'
  BY <1>1, <1>2, <1>4, <1>5 DEF Work, OnSequence, Collided
<1>9. OnJournal(req[w])'
  <2>1. r.num[2] = 1 \/ <<r.num[1], r.num[2] - 1>> \in entries \union req[w].entries
    <3>1. r.num[1] = year /\ r.num[2] = k + 1 /\ (k + 1) - 1 = k
      BY <1>3, <1>5
    <3> QED
      BY <1>3, <3>1
  <2>2. r.num[2] > Largest \/ r.num \notin entries
    <3> SUFFICES ASSUME ~(k + 1 > Largest), <<year, k + 1>> \in entries
                 PROVE  FALSE
      BY <1>5
    <3>1. k + 1 \in 1 .. Largest
      BY <1>3 DEF NumbersAssumption
    <3>2. k + 1 <= k
      BY <1>3, <3>1
    <3> QED
      BY <1>3, <3>2
  <2>3. r.at \in DOMAIN r.plan /\ Want(r) = "entry"
    BY <1>2, <1>5, AskFacts DEF Want, Wanted
  <2> QED
    BY <1>2, <1>5, <2>1, <2>2, <2>3 DEF OnJournal, Want
<1>10. Work(w, req[w])'
  BY <1>7, <1>8, <1>9 DEF Work
<1> QED
  BY <1>2, <1>6, <1>10, OwnStep DEF IInv, Types

LEMMA LockEntryStep ==
  ASSUME NumbersAssumption, IInv, NEW w \in Worker, LockEntry(w)
  PROVE  IInv'
<1> DEFINE r == [req[w] EXCEPT !.pc = "numbered", !.held = @ \union {Picked(w)}]
<1>1. IsReq(req[w]) /\ Work(w, req[w]) /\ DOMAIN req = Worker
  BY DEF IInv, Types
<1>2. /\ DOMAIN req' = Worker /\ (\A u \in Worker \ {w} : req'[u] = req[u])
      /\ req'[w] = r /\ req[w].pc = "row"
      /\ UNCHANGED <<year, row, lockOf, docs, entries>>
  BY <1>1 DEF LockEntry, Own
<1>3. /\ DOMAIN r = ReqFields /\ r.pc = "numbered" /\ r.plan = req[w].plan
      /\ r.at = req[w].at /\ r.own = req[w].own /\ r.docs = req[w].docs
      /\ r.entries = req[w].entries /\ r.date = req[w].date /\ r.num = req[w].num
      /\ r.seen = req[w].seen
  BY <1>1 DEF IsReq, ReqFields
<1> HIDE DEF r
<1>4. IsReq(req'[w])
  BY <1>1, <1>2, <1>3 DEF IsReq, Stages
<1>5. /\ \A c \in Code : Owned(w, req[w], c)' /\ Reason(req[w], c)'
      /\ Gapless(entries \union req[w].entries)'
  BY <1>2, <1>3, Carry
<1>6. OnSequence(req[w])' /\ Collided(w, req[w])'
  BY <1>1, <1>2, <1>3 DEF Work, OnSequence, Collided
<1>7. OnJournal(req[w])'
  BY <1>1, <1>2, <1>3 DEF Work, OnJournal, Want
<1>8. Work(w, req[w])'
  BY <1>5, <1>6, <1>7 DEF Work
<1> QED
  BY <1>2, <1>4, <1>8, OwnStep DEF IInv, Types

LEMMA InsertEntryStep ==
  ASSUME NumbersAssumption, IInv, NEW w \in Worker, InsertEntry(w)
  PROVE  IInv'
<1>1. IsReq(req[w]) /\ Work(w, req[w]) /\ DOMAIN req = Worker
  BY DEF IInv, Types
<1>2. /\ UNCHANGED <<year, row, lockOf, docs, entries>> /\ req[w].pc = "numbered"
  BY DEF InsertEntry
<1>3. CASE req[w].num \in Visible(w)
  <2> DEFINE r == [req[w] EXCEPT !.pc = "collided"]
  <2>1. /\ DOMAIN req' = Worker /\ (\A u \in Worker \ {w} : req'[u] = req[u])
        /\ req'[w] = r
    BY <1>1, <1>3 DEF InsertEntry, Own
  <2>2. /\ DOMAIN r = ReqFields /\ r.pc = "collided" /\ r.plan = req[w].plan
        /\ r.at = req[w].at /\ r.own = req[w].own /\ r.docs = req[w].docs
        /\ r.entries = req[w].entries /\ r.date = req[w].date /\ r.num = req[w].num
        /\ r.seen = req[w].seen
    BY <1>1 DEF IsReq, ReqFields
  <2> HIDE DEF r
  <2>3. IsReq(req'[w])
    BY <1>1, <2>1, <2>2 DEF IsReq, Stages
  <2>4. /\ \A c \in Code : Owned(w, req[w], c)' /\ Reason(req[w], c)'
        /\ Gapless(entries \union req[w].entries)'
    BY <1>2, <2>1, <2>2, Carry
  <2>5. OnSequence(req[w])' /\ OnJournal(req[w])'
    BY <1>1, <1>2, <2>1, <2>2 DEF Work, OnSequence, OnJournal
  <2>6. Collided(w, req[w])'
    BY <1>1, <1>2, <2>1, <2>2 DEF Work, OnJournal, Collided, Want
  <2>7. Work(w, req[w])'
    BY <2>4, <2>5, <2>6 DEF Work
  <2> QED
    BY <1>2, <2>1, <2>3, <2>7, OwnStep DEF IInv, Types
<1>4. CASE req[w].num \notin Visible(w)
  <2> DEFINE r == [Moved(w) EXCEPT !.entries = @ \union {req[w].num}]
  <2>1. /\ DOMAIN req' = Worker /\ (\A u \in Worker \ {w} : req'[u] = req[u])
        /\ req'[w] = r
    BY <1>1, <1>4 DEF InsertEntry, Own
  <2>2. /\ DOMAIN r = ReqFields /\ r.pc = "next" /\ r.plan = req[w].plan
        /\ r.at = req[w].at + 1 /\ r.own = req[w].own /\ r.docs = req[w].docs
        /\ r.entries = req[w].entries \union {req[w].num}
        /\ r.date = req[w].date /\ r.num = req[w].num
    BY <1>1 DEF IsReq, ReqFields, Moved
  <2> HIDE DEF r
  <2>3. IsReq(req'[w])
    BY <1>1, <2>1, <2>2 DEF IsReq, Stages
  <2>4. ASSUME NEW c \in Code
        PROVE  Owned(w, req[w], c)' /\ Reason(req[w], c)'
    <3>1. Owned(w, req[w], c) /\ Reason(req[w], c)
      BY <1>1 DEF Work
    <3>2. Mine(req'[w].docs, c) = Mine(req[w].docs, c)
      BY <2>1, <2>2 DEF Mine
    <3>3. Owned(w, req[w], c)'
      BY <1>2, <2>1, <2>2, <3>1, <3>2 DEF Owned
    <3>4. Reason(req[w], c)'
      <4> SUFFICES ASSUME req'[w].own[c].there
                   PROVE  \E i \in 1 .. (req'[w].at - 1) : req'[w].plan[i] = c
        BY DEF Reason
      <4>1. PICK i \in 1 .. (req[w].at - 1) : req[w].plan[i] = c
        BY <1>2, <2>1, <2>2, <3>1 DEF Reason
      <4>2. i \in 1 .. (req'[w].at - 1)
        BY <1>1, <2>1, <2>2, <4>1 DEF IsReq
      <4> QED
        BY <2>1, <2>2, <4>1, <4>2
    <3> QED
      BY <3>3, <3>4
  <2>5. OnSequence(req[w])' /\ OnJournal(req[w])' /\ Collided(w, req[w])'
    BY <1>1, <1>2, <2>1, <2>2 DEF Work, OnSequence, OnJournal, Collided
  <2>6. Gapless(entries \union req[w].entries)'
    <3>1. Gapless((entries \union req[w].entries) \union {req[w].num})
      BY <1>1, <1>2, GaplessAdd DEF Work, OnJournal
    <3>2. entries' \union req'[w].entries = (entries \union req[w].entries) \union {req[w].num}
      BY <1>2, <2>1, <2>2
    <3> QED
      BY <3>1, <3>2
  <2>7. Work(w, req[w])'
    BY <2>4, <2>5, <2>6 DEF Work
  <2> QED
    BY <1>2, <2>1, <2>3, <2>7, OwnStep DEF IInv, Types
<1> QED
  BY <1>3, <1>4

\* The row Number finds is good for the documents that carry its numbers, and when it is
\* the request's own there is none yet.
LEMMA LockedIsGood ==
  ASSUME NumbersAssumption, IInv, NEW w \in Worker, req[w].pc = "dated",
         NEW c, c = Wanted(w), lockOf[c] \in {Nobody, w}
  PROVE  /\ c \in Code /\ c # "entry" /\ IsRow(LockedRow(w, c)) /\ LockedRow(w, c).there
         /\ Good(year, LockedRow(w, c), docs[c] \union Mine(req[w].docs, c))
         /\ lockOf[c] = w => docs[c] = {}
         /\ lockOf[c] # w => LockedRow(w, c) = row[c] /\ Good(year, row[c], docs[c])
<1>1. IsReq(req[w]) /\ Work(w, req[w]) /\ w # Nobody
  BY DEF IInv, Types, NumbersAssumption
<1>2. /\ c \in Code /\ c = Want(req[w]) /\ req[w].at \in DOMAIN req[w].plan
      /\ req[w].own[c].there \/ row[c].there
  BY <1>1 DEF Work, OnSequence, Want, Wanted
<1>3. Owned(w, req[w], c) /\ Reason(req[w], c) /\ c # "entry"
  BY <1>1, <1>2 DEF Work, Code
<1>4. IsRow(LockedRow(w, c))
  BY <1>1, <1>2 DEF LockedRow, IsReq, IInv, Types
<1>5. CASE lockOf[c] = w
  <2>1. req[w].own[c].there /\ LockedRow(w, c) = req[w].own[c]
    BY <1>3, <1>5 DEF Owned, LockedRow
  <2>2. ~row[c].there
    <3> SUFFICES ASSUME row[c].there PROVE FALSE
      OBVIOUS
    <3>1. PICK i \in 1 .. (req[w].at - 1) : req[w].plan[i] = c
      BY <1>3, <2>1 DEF Reason
    <3>2. i \in DOMAIN req[w].plan /\ i # req[w].at
      BY <1>1, <1>2, <3>1 DEF IsReq
    <3> QED
      BY <1>1, <1>2, <3>1, <3>2 DEF IsReq, Once, Want
  <2>3. docs[c] = {}
    BY <1>2, <2>2 DEF IInv, RowsGood
  <2> QED
    BY <1>2, <1>3, <1>4, <1>5, <2>1, <2>3 DEF Owned
<1>6. CASE lockOf[c] # w
  <2>1. ~req[w].own[c].there /\ Mine(req[w].docs, c) = {} /\ LockedRow(w, c) = row[c]
    BY <1>3, <1>6 DEF Owned, LockedRow
  <2>2. row[c].there /\ Good(year, row[c], docs[c])
    BY <1>2, <2>1 DEF IInv, RowsGood
  <2>3. docs[c] \union Mine(req[w].docs, c) = docs[c]
    BY <2>1
  <2> QED
    BY <1>2, <1>3, <1>4, <1>6, <2>1, <2>2, <2>3
<1> QED
  BY <1>5, <1>6

LEMMA NumberStep ==
  ASSUME NumbersAssumption, IInv, NEW w \in Worker, Number(w)
  PROVE  IInv'
<1> DEFINE c   == Wanted(w)
           d   == LockedRow(w, c)
           y   == req[w].date
           num == <<y, Period(d, y).counter>>
           s   == docs[c] \union Mine(req[w].docs, c)
<1>1. IsReq(req[w]) /\ Work(w, req[w]) /\ DOMAIN req = Worker /\ year \in Nat /\ w # Nobody
  BY DEF IInv, Types, NumbersAssumption
<1>2. /\ UNCHANGED <<year, row, docs, entries>> /\ req[w].pc = "dated"
      /\ lockOf[c] \in {Nobody, w} /\ lockOf' = [lockOf EXCEPT ![c] = w]
  BY DEF Number
<1>3. /\ c \in Code /\ c # "entry" /\ IsRow(d) /\ d.there /\ Good(year, d, s)
      /\ lockOf[c] = w => docs[c] = {}
      /\ lockOf[c] # w => d = row[c] /\ Good(year, row[c], docs[c])
  BY <1>2, LockedIsGood
<1>4. y \in Nat /\ y <= year /\ c = Want(req[w]) /\ req[w].at \in DOMAIN req[w].plan
  BY <1>1, <1>2 DEF IsReq, Work, OnSequence, Want, Wanted
<1>5. s \in SUBSET Num /\ docs[c] \in SUBSET Num
  BY <1>1, <1>3 DEF IInv, Types, IsReq, Mine
<1>6. num \in Num /\ num[1] = y /\ IsRow(Stepped(d, y)) /\ Stepped(d, y).there
  <2>1. IsRow(Stepped(d, y)) /\ Stepped(d, y).there
    BY <1>1, <1>3, <1>4, SteppedFields
  <2>2. Period(d, y).counter \in Nat
    BY <1>3, <1>4, PeriodFields DEF IsRow
  <2> QED
    BY <1>4, <2>1, <2>2 DEF Num
<1>7. /\ lockOf' \in [Code -> Worker \union {Nobody}] /\ lockOf'[c] = w
      /\ \A k \in Code \ {c} : lockOf'[k] = lockOf[k]
      /\ \A k \in Code : \/ lockOf'[k] = lockOf[k]
                         \/ lockOf[k] \in {Nobody, w} /\ lockOf'[k] \in {Nobody, w}
  BY <1>2, <1>3 DEF IInv, Types
<1>8. CASE num \in docs[c]
  <2> DEFINE r == [req[w] EXCEPT !.pc = "collided", !.num = num]
  <2>1. /\ DOMAIN req' = Worker /\ (\A u \in Worker \ {w} : req'[u] = req[u])
        /\ req'[w] = r
    BY <1>1, <1>8 DEF Number, Own
  <2>2. y < row[c].upd \/ row[c].late \/ Stuck(row[c], y)
    BY <1>1, <1>3, <1>4, <1>5, <1>8, GivesNew
  <2> HIDE DEF num, c
  <2>3. /\ DOMAIN r = ReqFields /\ r.pc = "collided" /\ r.plan = req[w].plan
        /\ r.at = req[w].at /\ r.own = req[w].own /\ r.docs = req[w].docs
        /\ r.entries = req[w].entries /\ r.date = req[w].date /\ r.num = num
    BY <1>1 DEF IsReq, ReqFields
  <2> HIDE DEF r
  <2>4. IsReq(req'[w])
    BY <1>1, <1>6, <2>1, <2>3 DEF IsReq, Stages
  <2>5. ASSUME NEW k \in Code
        PROVE  Owned(w, req[w], k)' /\ Reason(req[w], k)'
    <3>1. Owned(w, req[w], k) /\ Mine(req'[w].docs, k) = Mine(req[w].docs, k)
      BY <1>1, <2>1, <2>3 DEF Work, Mine
    <3>2. lockOf[k] = w => lockOf'[k] = w
      BY <1>7
    <3>3. Owned(w, req[w], k)'
      BY <1>2, <2>1, <2>3, <3>1, <3>2 DEF Owned
    <3> QED
      BY <2>1, <2>3, <3>3 DEF Reason
  <2>6. OnSequence(req[w])' /\ OnJournal(req[w])'
    BY <1>1, <1>2, <2>1, <2>3 DEF Work, OnSequence, OnJournal
  <2>7. Collided(w, req[w])'
    BY <1>2, <1>3, <1>4, <1>6, <1>7, <2>1, <2>2, <2>3 DEF Collided, Want
  <2>8. Gapless(entries \union req[w].entries)'
    <3>1. entries' \union req'[w].entries = entries \union req[w].entries
      BY <1>2, <2>1, <2>3
    <3> QED
      BY <1>1, <3>1 DEF Work
  <2>9. Work(w, req[w])'
    BY <2>5, <2>6, <2>7, <2>8 DEF Work
  <2> QED
    BY <1>2, <1>7, <2>1, <2>4, <2>9, OwnStep
<1>9. CASE num \notin docs[c]
  <2> DEFINE r == [Moved(w) EXCEPT !.own[c] = Stepped(d, y), !.docs = @ \union {<<c, num>>}]
  <2>1. /\ DOMAIN req' = Worker /\ (\A u \in Worker \ {w} : req'[u] = req[u])
        /\ req'[w] = r
    BY <1>1, <1>9 DEF Number, Own
  <2>2. Good(year, Stepped(d, y), s \union {num})
    BY <1>1, <1>3, <1>4, <1>5, StepGood
  <2> HIDE DEF num, c, d, y, s
  <2>3. /\ DOMAIN r = ReqFields /\ r.pc = "next" /\ r.plan = req[w].plan
        /\ r.at = req[w].at + 1 /\ r.own = [req[w].own EXCEPT ![c] = Stepped(d, y)]
        /\ r.docs = req[w].docs \union {<<c, num>>}
        /\ r.entries = req[w].entries /\ r.date = req[w].date /\ r.num = req[w].num
    BY <1>1 DEF IsReq, ReqFields, Moved
  <2> HIDE DEF r
  <2>4. /\ DOMAIN r.own = Code /\ r.own[c] = Stepped(d, y)
        /\ \A k \in Code \ {c} : r.own[k] = req[w].own[k]
    BY <1>1, <1>3, <2>3 DEF IsReq
  <2>5. IsReq(req'[w])
    <3>1. \A k \in Code : IsRow(r.own[k])
      BY <1>1, <1>6, <2>4 DEF IsReq
    <3>2. r.docs \in SUBSET (Code \X Num)
      BY <1>1, <1>3, <1>6, <2>3 DEF IsReq
    <3> QED
      BY <1>1, <2>1, <2>3, <2>4, <3>1, <3>2 DEF IsReq, Stages
  <2>6. ASSUME NEW k \in Code
        PROVE  Owned(w, req[w], k)' /\ Reason(req[w], k)'
    <3>1. Owned(w, req[w], k) /\ Reason(req[w], k)
      BY <1>1 DEF Work
    <3>2. CASE k = c
      <4>1. Mine(r.docs, c) = Mine(req[w].docs, c) \union {num}
        <5>1. r.docs = req[w].docs \union {<<c, num>>}
          BY <2>3
        <5>2. \A x \in Mine(req[w].docs, c) \union {num} : x \in Mine(r.docs, c)
          <6>1. <<c, num>> \in r.docs /\ <<c, num>>[1] = c /\ <<c, num>>[2] = num
            BY <5>1
          <6>2. num \in Mine(r.docs, c)
            BY <6>1 DEF Mine
          <6> QED
            BY <5>1, <6>2 DEF Mine
        <5>3. ASSUME NEW x \in Mine(r.docs, c)
              PROVE  x \in Mine(req[w].docs, c) \union {num}
          <6>1. PICK p \in r.docs : p[1] = c /\ x = p[2]
            BY <5>3 DEF Mine
          <6>2. CASE p = <<c, num>>
            BY <6>1, <6>2
          <6>3. CASE p \in req[w].docs
            BY <6>1, <6>3 DEF Mine
          <6> QED
            BY <5>1, <6>1, <6>2, <6>3
        <5> QED
          BY <5>2, <5>3
      <4>2. docs'[c] \union Mine(req'[w].docs, c) = s \union {num}
        BY <1>2, <2>1, <4>1 DEF s
      <4>3. Owned(w, req[w], k)'
        BY <1>2, <1>6, <1>7, <2>1, <2>2, <2>4, <3>2, <4>2 DEF Owned
      <4>4. Reason(req[w], k)'
        <5>1. req[w].at \in 1 .. (req'[w].at - 1) /\ req'[w].plan[req[w].at] = c
          BY <1>1, <1>4, <2>1, <2>3 DEF IsReq, Want
        <5> QED
          BY <3>2, <5>1 DEF Reason
      <4> QED
        BY <4>3, <4>4
    <3>3. CASE k # c
      <4>1. Mine(r.docs, k) = Mine(req[w].docs, k)
        BY <2>3, <3>3 DEF Mine
      <4>2. Owned(w, req[w], k)'
        BY <1>2, <1>7, <2>1, <2>3, <2>4, <3>1, <3>3, <4>1 DEF Owned
      <4>3. Reason(req[w], k)'
        <5> SUFFICES ASSUME req'[w].own[k].there
                     PROVE  \E i \in 1 .. (req'[w].at - 1) : req'[w].plan[i] = k
          BY DEF Reason
        <5>1. PICK i \in 1 .. (req[w].at - 1) : req[w].plan[i] = k
          BY <1>2, <1>4, <2>1, <2>4, <3>1, <3>3 DEF Reason
        <5>2. i \in 1 .. (req'[w].at - 1)
          BY <1>1, <2>1, <2>3, <5>1 DEF IsReq
        <5> QED
          BY <2>1, <2>3, <5>1, <5>2
      <4> QED
        BY <4>2, <4>3
    <3> QED
      BY <3>2, <3>3
  <2>7. OnSequence(req[w])' /\ OnJournal(req[w])' /\ Collided(w, req[w])'
    BY <1>1, <1>2, <2>1, <2>3 DEF Work, OnSequence, OnJournal, Collided
  <2>8. Gapless(entries \union req[w].entries)'
    <3>1. entries' \union req'[w].entries = entries \union req[w].entries
      BY <1>2, <2>1, <2>3
    <3> QED
      BY <1>1, <3>1 DEF Work
  <2>9. Work(w, req[w])'
    BY <2>6, <2>7, <2>8 DEF Work
  <2> QED
    BY <1>2, <1>7, <2>1, <2>5, <2>9, OwnStep
<1> QED
  BY <1>8, <1>9

---------------------------------------------------------------------------
(***************************************************************************)
(* Commit, archive and the clock                                           *)
(***************************************************************************)

\* What a commit does to a row: it is the request's own if it has written it.
LEMMA CommitFacts ==
  ASSUME NumbersAssumption, IInv, NEW w \in Worker, Commit(w), NEW c \in Code
  PROVE  /\ DOMAIN row' = Code /\ DOMAIN docs' = Code
         /\ docs'[c] = docs[c] \union Mine(req[w].docs, c)
         /\ req[w].own[c].there => row'[c] = req[w].own[c] /\ lockOf[c] = w
         /\ ~req[w].own[c].there => row'[c] = row[c] /\ docs'[c] = docs[c]
<1>1. /\ DOMAIN row' = Code /\ DOMAIN docs' = Code
      /\ docs'[c] = docs[c] \union Mine(req[w].docs, c)
      /\ row'[c] = IF req[w].own[c].there THEN req[w].own[c] ELSE row[c]
  BY DEF Commit, Mine
<1>2. Owned(w, req[w], c)
  BY DEF IInv, Work
<1>3. ~req[w].own[c].there => docs[c] \union Mine(req[w].docs, c) = docs[c]
  BY <1>2 DEF Owned
<1> QED
  BY <1>1, <1>2, <1>3 DEF Owned

LEMMA CommitStep ==
  ASSUME NumbersAssumption, IInv, NEW w \in Worker, Commit(w)
  PROVE  IInv'
<1>1. /\ DOMAIN req' = Worker /\ (\A u \in Worker \ {w} : req'[u] = req[u])
      /\ req'[w] = NoWork
      /\ UNCHANGED year /\ entries' = entries \union req[w].entries
  BY DEF Commit, Own, IInv, Types
<1>2. IsReq(req[w]) /\ Work(w, req[w]) /\ year \in Nat
  BY DEF IInv, Types
<1>3. /\ lockOf' \in [Code -> Worker \union {Nobody}]
      /\ \A c \in Code : /\ lockOf'[c] # w
                         /\ lockOf[c] = w => lockOf'[c] = Nobody
                         /\ lockOf[c] # w => lockOf'[c] = lockOf[c]
  BY ReleaseFacts DEF Commit, IInv
<1>4. Types'
  <2>1. ASSUME NEW c \in Code
        PROVE  IsRow(row'[c]) /\ docs'[c] \in SUBSET Num
    <3>1. IsRow(row'[c])
      BY <1>2, CommitFacts DEF IInv, Types, IsReq
    <3>2. Mine(req[w].docs, c) \in SUBSET Num
      BY <1>2 DEF IsReq, Mine
    <3> QED
      BY <3>1, <3>2, CommitFacts DEF IInv, Types
  <2>2. entries' \in SUBSET Num
    BY <1>1, <1>2 DEF IInv, Types, IsReq
  <2>3. DOMAIN row' = Code /\ DOMAIN docs' = Code
    BY DEF Commit
  <2>4. \A u \in Worker : IsReq(req'[u])
    BY <1>1, NoWorkFields DEF IInv, Types
  <2> QED
    BY <1>1, <1>2, <1>3, <2>1, <2>2, <2>3, <2>4 DEF Types
<1>5. RowsGood'
  <2> SUFFICES ASSUME NEW c \in Code
               PROVE  IF row'[c].there THEN Good(year', row'[c], docs'[c]) ELSE docs'[c] = {}
    BY DEF RowsGood
  <2>1. CASE req[w].own[c].there
    <3>1. Good(year, req[w].own[c], docs[c] \union Mine(req[w].docs, c))
      BY <1>2, <2>1 DEF Work, Owned
    <3> QED
      BY <1>1, <2>1, <3>1, CommitFacts
  <2>2. CASE ~req[w].own[c].there
    <3>1. row'[c] = row[c] /\ docs'[c] = docs[c]
      BY <2>2, CommitFacts
    <3> QED
      BY <1>1, <3>1 DEF IInv, RowsGood
  <2> QED
    BY <2>1, <2>2
<1>6. Gapless(entries)'
  BY <1>1, <1>2 DEF Work
<1>7. ASSUME NEW u \in Worker
      PROVE  Work(u, req[u])'
  <2>1. CASE u = w
    BY <1>1, <1>2, <1>3, <1>6, <2>1, NewWork, NoWorkFields
  <2>2. CASE u # w
    <3>1. req'[u] = req[u] /\ Work(u, req[u]) /\ IsReq(req[u]) /\ u # Nobody
      BY <1>1, <2>2 DEF IInv, Types, NumbersAssumption
    <3>2. \A c \in Code : lockOf'[c] = u <=> lockOf[c] = u
      BY <1>3, <2>2, <3>1
    <3>3. \A c \in Code : lockOf[c] = u => row'[c] = row[c] /\ docs'[c] = docs[c]
      BY <2>2, CommitFacts
    <3>4. \A c \in Code : row[c].there => row'[c].there
      BY CommitFacts
    <3>5. ASSUME NEW c \in Code
          PROVE  Owned(u, req[u], c)' /\ Reason(req[u], c)'
      <4>1. Owned(u, req[u], c) /\ Reason(req[u], c)
        BY <3>1 DEF Work
      <4>2. Owned(u, req[u], c)'
        <5>1. req[u].own[c].there => /\ lockOf'[c] = u /\ docs'[c] = docs[c]
                                     /\ Good(year, req[u].own[c], docs[c] \union Mine(req[u].docs, c))
          BY <3>2, <3>3, <4>1 DEF Owned
        <5>2. lockOf'[c] = u => req[u].own[c].there \/ req[u].pc = "collided"
          BY <3>2, <4>1 DEF Owned
        <5>3. ~req[u].own[c].there => Mine(req[u].docs, c) = {}
          BY <4>1 DEF Owned
        <5> QED
          BY <1>1, <3>1, <5>1, <5>2, <5>3 DEF Owned
      <4>3. Reason(req[u], c)'
        <5>1. req[u].own[c].there => row'[c] = row[c]
          BY <3>3, <4>1 DEF Owned
        <5> QED
          BY <3>1, <4>1, <5>1 DEF Reason, Want
      <4> QED
        BY <4>2, <4>3
    <3>6. OnSequence(req[u])'
      BY <1>1, <3>1, <3>4 DEF Work, OnSequence, Want
    <3>7. OnJournal(req[u])'
      BY <1>1, <3>1 DEF Work, OnJournal, Want
    <3>8. Collided(u, req[u])'
      <4>1. req[u].at \in DOMAIN req[u].plan => Want(req[u]) \in Code \union {"entry"}
        BY <3>1 DEF IsReq, Want
      <4> QED
        BY <1>1, <3>1, <3>2, <3>3, <4>1 DEF Work, Collided, Want
    <3>9. Gapless(entries \union req[u].entries)'
      <4>1. Gapless((entries \union req[w].entries) \union (entries \union req[u].entries))
        BY <1>2, <3>1, GaplessUnion DEF Work
      <4>2. entries' \union req'[u].entries
              = (entries \union req[w].entries) \union (entries \union req[u].entries)
        BY <1>1, <3>1
      <4> QED
        BY <4>1, <4>2
    <3> QED
      BY <3>5, <3>6, <3>7, <3>8, <3>9 DEF Work
  <2> QED
    BY <2>1, <2>2
<1> QED
  BY <1>4, <1>5, <1>6, <1>7 DEF IInv

LEMMA ArchiveStep ==
  ASSUME NumbersAssumption, IInv, NEW c \in Code, NEW num \in docs[c], Archive(c, num)
  PROVE  IInv'
<1>1. /\ docs' = [docs EXCEPT ![c] = @ \ {num}]
      /\ UNCHANGED <<year, row, lockOf, entries, req>>
  BY DEF Archive
<1>2. DOMAIN docs' = Code /\ \A k \in Code : docs'[k] \subseteq docs[k]
  BY <1>1 DEF IInv, Types
<1>3. Types' /\ Gapless(entries)'
  BY <1>1, <1>2 DEF IInv, Types
<1>4. RowsGood'
  BY <1>1, <1>2, GoodLess DEF IInv, RowsGood
<1>5. ASSUME NEW w \in Worker
      PROVE  Work(w, req[w])'
  <2>1. Work(w, req[w])
    BY DEF IInv
  <2>2. ASSUME NEW k \in Code
        PROVE  Owned(w, req[w], k)' /\ Reason(req[w], k)'
    <3>1. Owned(w, req[w], k) /\ Reason(req[w], k)
      BY <2>1 DEF Work
    <3>2. req[w].own[k].there =>
            Good(year, req[w].own[k], docs'[k] \union Mine(req[w].docs, k))
      <4>1. docs'[k] \union Mine(req[w].docs, k) \subseteq docs[k] \union Mine(req[w].docs, k)
        BY <1>2
      <4> QED
        BY <3>1, <4>1, GoodLess DEF Owned
    <3>3. Owned(w, req[w], k)'
      BY <1>1, <3>1, <3>2 DEF Owned
    <3>4. Reason(req[w], k)'
      BY <1>1, <3>1 DEF Reason, Want
    <3> QED
      BY <3>3, <3>4
  <2>3. OnSequence(req[w])' /\ OnJournal(req[w])'
    BY <1>1, <2>1 DEF Work, OnSequence, OnJournal, Want
  <2>4. Collided(w, req[w])'
    BY <1>1, <2>1 DEF Work, Collided, Want
  <2>5. Gapless(entries \union req[w].entries)'
    BY <1>1, <2>1 DEF Work
  <2> QED
    BY <2>2, <2>3, <2>4, <2>5 DEF Work
<1> QED
  BY <1>3, <1>4, <1>5 DEF IInv

LEMMA TickStep ==
  ASSUME NumbersAssumption, IInv, Tick
  PROVE  IInv'
<1>1. /\ year \in Nat /\ year' = year + 1 /\ year' \in Nat /\ year <= year'
      /\ UNCHANGED <<row, lockOf, docs, entries, req>>
  BY DEF Tick, IInv, Types
<1>2. Types' /\ Gapless(entries)'
  BY <1>1 DEF IInv, Types
<1>3. RowsGood'
  BY <1>1, GoodLater DEF IInv, RowsGood, Types
<1>4. ASSUME NEW w \in Worker
      PROVE  Work(w, req[w])'
  <2>1. Work(w, req[w]) /\ IsReq(req[w])
    BY DEF IInv, Types
  <2>2. ASSUME NEW k \in Code
        PROVE  Owned(w, req[w], k)' /\ Reason(req[w], k)'
    <3>1. Owned(w, req[w], k) /\ Reason(req[w], k) /\ IsRow(req[w].own[k])
      BY <2>1 DEF Work, IsReq
    <3>2. req[w].own[k].there =>
            Good(year', req[w].own[k], docs[k] \union Mine(req[w].docs, k))
      <4>1. docs[k] \union Mine(req[w].docs, k) \in SUBSET Num
        BY <2>1 DEF IInv, Types, IsReq, Mine
      <4> QED
        BY <1>1, <3>1, <4>1, GoodLater DEF Owned
    <3>3. Owned(w, req[w], k)'
      BY <1>1, <3>1, <3>2 DEF Owned
    <3>4. Reason(req[w], k)'
      BY <1>1, <3>1 DEF Reason, Want
    <3> QED
      BY <3>3, <3>4
  <2>3. OnSequence(req[w])'
    <3>1. req[w].date \in Nat /\ req[w].date <= year
      BY <2>1 DEF Work, OnSequence, IsReq
    <3>2. req[w].date <= year'
      BY <1>1, <3>1
    <3> QED
      BY <1>1, <2>1, <3>2 DEF Work, OnSequence, Want
  <2>4. OnJournal(req[w])'
    BY <1>1, <2>1 DEF Work, OnJournal, Want
  <2>5. Collided(w, req[w])'
    <3>1. req[w].num[1] \in Nat
      BY <2>1 DEF IsReq, Num
    <3>2. req[w].num[1] < year => req[w].num[1] < year'
      BY <1>1, <3>1
    <3> QED
      BY <1>1, <2>1, <3>2 DEF Work, Collided, Want
  <2>6. Gapless(entries \union req[w].entries)'
    BY <1>1, <2>1 DEF Work
  <2> QED
    BY <2>2, <2>3, <2>4, <2>5, <2>6 DEF Work
<1> QED
  BY <1>2, <1>3, <1>4 DEF IInv

LEMMA StutterStep ==
  ASSUME IInv, UNCHANGED vars
  PROVE  IInv'
<1>1. UNCHANGED <<year, row, lockOf, docs, entries, req>>
  BY DEF vars
<1>2. Types' /\ RowsGood' /\ Gapless(entries)'
  BY <1>1 DEF IInv, Types, RowsGood
<1>3. ASSUME NEW w \in Worker
      PROVE  Work(w, req[w])'
  <2>1. Work(w, req[w])
    BY DEF IInv
  <2>2. \A k \in Code : Owned(w, req[w], k)' /\ Reason(req[w], k)'
    BY <1>1, <2>1 DEF Work, Owned, Reason, Want
  <2>3. OnSequence(req[w])' /\ OnJournal(req[w])' /\ Collided(w, req[w])'
    BY <1>1, <2>1 DEF Work, OnSequence, OnJournal, Collided, Want
  <2>4. Gapless(entries \union req[w].entries)'
    BY <1>1, <2>1 DEF Work
  <2> QED
    BY <2>2, <2>3, <2>4 DEF Work
<1> QED
  BY <1>2, <1>3 DEF IInv

LEMMA NextStep ==
  ASSUME NumbersAssumption, IInv, [Next]_vars
  PROVE  IInv'
<1>1. ASSUME NEW w \in Worker, NEW p \in Plans, Begin(w, p)
      PROVE  IInv'
  BY <1>1, BeginStep
<1>2. ASSUME NEW w \in Worker, Find(w) \/ Create(w) \/ TakeDate(w) \/ Number(w)
      PROVE  IInv'
  BY <1>2, FindStep, CreateStep, TakeDateStep, NumberStep
<1>3. ASSUME NEW w \in Worker, LookEntry(w) \/ LockEntry(w) \/ InsertEntry(w) \/ Commit(w)
      PROVE  IInv'
  BY <1>3, LookEntryStep, LockEntryStep, InsertEntryStep, CommitStep
<1>4. ASSUME NEW w \in Worker, Fail(w) \/ Victim(w) \/ GiveUp(w)
      PROVE  IInv'
  BY <1>4, RollbackStep DEF Fail, Victim, GiveUp
<1>5. ASSUME NEW c \in Code, NEW num \in docs[c], Archive(c, num)
      PROVE  IInv'
  BY <1>5, ArchiveStep
<1>6. CASE Tick
  BY <1>6, TickStep
<1>7. CASE Done \/ UNCHANGED vars
  BY <1>7, StutterStep DEF Done
<1> QED
  BY <1>1, <1>2, <1>3, <1>4, <1>5, <1>6, <1>7 DEF Next, Proceed

---------------------------------------------------------------------------
(***************************************************************************)
(* What it shows                                                           *)
(***************************************************************************)

\* Rows, documents, locks and requests stay in step: a row written by a request is locked
\* by it, and above every number it knows of in the year it was written; numbers of a later
\* year are there only when the row is stuck.
THEOREM NumbersSafe == Spec => []IInv
<1>1. Init => IInv
  BY InitInv, NumbersAssumption
<1>2. IInv /\ [Next]_vars => IInv'
  BY NextStep, NumbersAssumption
<1> QED
  BY <1>1, <1>2, PTL DEF Spec

\* The next number of this year is free, unless the row was numbered once for an earlier
\* year than the one it had been written in, or is stuck (get_next_number).
THEOREM NextNumberFree == Spec => []NextIsFree
<1>1. IInv => NextIsFree
  <2> SUFFICES ASSUME IInv, NEW c \in Code, row[c].there,
                      ~row[c].late, ~Stuck(row[c], year),
                      <<year, Period(row[c], year).counter>> \in docs[c]
               PROVE  FALSE
    BY DEF NextIsFree
  <2>1. /\ year \in Nat /\ IsRow(row[c]) /\ docs[c] \in SUBSET Num
        /\ Good(year, row[c], docs[c])
    BY DEF IInv, Types, RowsGood
  <2>2. ~(year < row[c].upd)
    BY <2>1 DEF Good, IsRow
  <2>3. year < row[c].upd \/ row[c].late \/ Stuck(row[c], year)
    BY <2>1, GivesNew
  <2> QED
    BY <2>2, <2>3
<1> QED
  BY <1>1, NumbersSafe, PTL

\* A number is refused for one of the four reasons (next_number, next_entry_number).
THEOREM RefusalsExplained == Spec => []CollisionsExplained
<1>1. IInv => CollisionsExplained
  BY DEF IInv, Work, Collided, CollisionsExplained, Want, Wanted
<1> QED
  BY <1>1, NumbersSafe, PTL

\* The journal numbers of a year have no gap (next_entry_number counts from the largest).
THEOREM JournalGapless == Spec => []NoGaps
<1>1. IInv => NoGaps
  BY DEF IInv, Gapless, NoGaps
<1> QED
  BY <1>1, NumbersSafe, PTL
=============================================================================
