-------------------------- MODULE StoreOrdersProofs --------------------------
(***************************************************************************)
(* Proofs about StoreOrders, for any number of orders, requests and uses   *)
(* of the coupon.                                                          *)
(***************************************************************************)
EXTENDS StoreOrders, FiniteSetTheorems, TLAPS

Fields == {"st", "cpn", "moved", "out", "bal", "pays", "fees", "earned", "pts", "page", "raced",
           "dropped", "refused", "early"}

WorkFields == {"pc", "o", "n", "cpn", "online", "st", "moved", "rd"}

---------------------------------------------------------------------------
(***************************************************************************)
(* One order                                                               *)
(***************************************************************************)

\* Goods, balance, points and payment go with the status, unless a request of the sales
\* page had read another.
Whole(r) ==
    /\ DOMAIN r = Fields
    /\ r.st \in {"none", "pending", "confirmed", "cancelled"}
    /\ r.pays \in {0, 1} /\ r.out \in Int /\ r.bal \in Int /\ r.pts \in Int
    /\ r.page => r.st = "cancelled"
    /\ r.st = "none" => ~r.cpn
    /\ ~r.raced =>
         /\ r.st \in {"none", "pending"} => /\ ~r.moved /\ r.out = 0 /\ r.pays = 0
                                            /\ ~r.earned /\ r.pts = 0 /\ r.bal = 0
         /\ r.st = "confirmed" => /\ r.moved /\ r.out = 1 /\ r.earned /\ r.pts = 1
                                  /\ r.bal = r.pays - 1
         /\ r.st = "cancelled" => /\ r.out = 0 /\ r.pays = 0
                                  /\ ~r.page => r.bal = 0 /\ r.pts = 0

\* What is never taken back.
Keeps(r, q) == /\ q.cpn = r.cpn /\ (r.raced => q.raced) /\ (r.pays = 1 => q.pays = 1)
               /\ (r.dropped => q.dropped) /\ (r.refused => q.refused) /\ (r.early => q.early)

LEMMA FulfilledFields ==
  ASSUME NEW r, DOMAIN r = Fields, NEW q, q = Fulfilled(r)
  PROVE  /\ DOMAIN q = Fields /\ q.moved
         /\ q.out = (IF r.moved THEN r.out ELSE r.out + 1)
         /\ q.bal = (IF r.moved THEN r.bal ELSE r.bal - 1)
         /\ q.st = r.st /\ q.cpn = r.cpn /\ q.pays = r.pays /\ q.earned = r.earned /\ q.pts = r.pts
         /\ q.page = r.page /\ q.raced = r.raced /\ q.dropped = r.dropped
         /\ q.refused = r.refused /\ q.early = r.early
BY DEF Fulfilled, Fields

LEMMA PaidFields ==
  ASSUME NEW r, DOMAIN r = Fields, NEW paid, NEW q, q = [Paid(r, paid) EXCEPT !.st = "confirmed"]
  PROVE  /\ DOMAIN q = Fields /\ q.st = "confirmed"
         /\ q.pays = (IF paid /\ r.pays = 0 THEN 1 ELSE r.pays)
         /\ q.bal = (IF paid /\ r.pays = 0 THEN r.bal + 1 ELSE r.bal)
         /\ q.moved = r.moved /\ q.out = r.out
         /\ q.cpn = r.cpn /\ q.earned = r.earned /\ q.pts = r.pts
         /\ q.page = r.page /\ q.raced = r.raced /\ q.dropped = r.dropped
         /\ q.refused = r.refused /\ q.early = r.early
BY DEF Paid, Fields

LEMMA ChargedFields ==
  ASSUME NEW r, DOMAIN r = Fields, NEW key, NEW q, q = Charged(r, key)
  PROVE  /\ DOMAIN q = Fields /\ q.st = r.st /\ q.pays = r.pays /\ q.bal = r.bal
         /\ q.moved = r.moved /\ q.out = r.out
         /\ q.cpn = r.cpn /\ q.earned = r.earned /\ q.pts = r.pts
         /\ q.page = r.page /\ q.raced = r.raced /\ q.dropped = r.dropped
         /\ q.refused = r.refused /\ q.early = r.early
BY DEF Charged, Fields

LEMMA AwardedFields ==
  ASSUME NEW r, DOMAIN r = Fields, NEW q, q = Awarded(r)
  PROVE  /\ DOMAIN q = Fields /\ q.earned
         /\ q.pts = (IF r.earned THEN r.pts ELSE r.pts + 1)
         /\ q.st = r.st /\ q.pays = r.pays /\ q.bal = r.bal
         /\ q.moved = r.moved /\ q.out = r.out /\ q.cpn = r.cpn
         /\ q.page = r.page /\ q.raced = r.raced /\ q.dropped = r.dropped
         /\ q.refused = r.refused /\ q.early = r.early
BY DEF Awarded, Fields

\* Confirming keeps an order whole.
LEMMA ConfirmedWhole ==
  ASSUME NEW r, Whole(r), MayConfirm(r), r.st # "none", NEW paid, NEW fee,
         NEW q, q = Confirmed(r, paid, fee)
  PROVE  /\ Whole(q) /\ Keeps(r, q) /\ q.st = "confirmed" /\ (paid => q.pays = 1)
         /\ q.page = r.page /\ ~q.page
<1> DEFINE f == Fulfilled(r)
           c == [Paid(f, paid) EXCEPT !.st = "confirmed"]
           k == IF c.pays > r.pays THEN "payment" ELSE "sale"
           d == IF fee THEN Charged(c, k) ELSE c
<1>0. DOMAIN r = Fields
  BY DEF Whole
<1>1. q = Awarded(d)
  BY DEF Confirmed
<1>2. /\ DOMAIN f = Fields /\ f.moved
      /\ f.out = (IF r.moved THEN r.out ELSE r.out + 1)
      /\ f.bal = (IF r.moved THEN r.bal ELSE r.bal - 1)
      /\ f.st = r.st /\ f.cpn = r.cpn /\ f.pays = r.pays /\ f.earned = r.earned /\ f.pts = r.pts
      /\ f.page = r.page /\ f.raced = r.raced /\ f.dropped = r.dropped
      /\ f.refused = r.refused /\ f.early = r.early
  BY <1>0, FulfilledFields
<1> HIDE DEF f
<1>3. /\ DOMAIN c = Fields /\ c.st = "confirmed"
      /\ c.pays = (IF paid /\ f.pays = 0 THEN 1 ELSE f.pays)
      /\ c.bal = (IF paid /\ f.pays = 0 THEN f.bal + 1 ELSE f.bal)
      /\ c.moved = f.moved /\ c.out = f.out
      /\ c.cpn = f.cpn /\ c.earned = f.earned /\ c.pts = f.pts
      /\ c.page = f.page /\ c.raced = f.raced /\ c.dropped = f.dropped
      /\ c.refused = f.refused /\ c.early = f.early
  BY <1>2, PaidFields
<1> HIDE DEF c, k
<1>4. /\ DOMAIN d = Fields /\ d.st = c.st /\ d.pays = c.pays /\ d.bal = c.bal
      /\ d.moved = c.moved /\ d.out = c.out
      /\ d.cpn = c.cpn /\ d.earned = c.earned /\ d.pts = c.pts
      /\ d.page = c.page /\ d.raced = c.raced /\ d.dropped = c.dropped
      /\ d.refused = c.refused /\ d.early = c.early
  BY <1>3, ChargedFields
<1> HIDE DEF d
<1>5. /\ DOMAIN q = Fields /\ q.earned
      /\ q.pts = (IF d.earned THEN d.pts ELSE d.pts + 1)
      /\ q.st = d.st /\ q.pays = d.pays /\ q.bal = d.bal
      /\ q.moved = d.moved /\ q.out = d.out /\ q.cpn = d.cpn
      /\ q.page = d.page /\ q.raced = d.raced /\ q.dropped = d.dropped
      /\ q.refused = d.refused /\ q.early = d.early
  BY <1>1, <1>4, AwardedFields
<1>6. /\ q.st = "confirmed" /\ q.moved /\ q.earned
      /\ q.pts = (IF r.earned THEN r.pts ELSE r.pts + 1)
      /\ q.out = (IF r.moved THEN r.out ELSE r.out + 1)
      /\ q.pays = (IF paid /\ r.pays = 0 THEN 1 ELSE r.pays)
      /\ q.cpn = r.cpn /\ q.page = r.page /\ q.raced = r.raced /\ q.dropped = r.dropped
      /\ q.refused = r.refused /\ q.early = r.early
  BY <1>2, <1>3, <1>4, <1>5
<1>7. q.bal = (IF r.moved THEN r.bal ELSE r.bal - 1) + (IF paid /\ r.pays = 0 THEN 1 ELSE 0)
  <2>1. r.bal \in Int
    BY DEF Whole
  <2> QED
    BY <2>1, <1>2, <1>3, <1>4, <1>5
<1>8. /\ r.pays \in {0, 1} /\ r.out \in Int /\ r.bal \in Int /\ r.pts \in Int
      /\ r.st \in {"pending", "confirmed"} /\ ~r.page
  BY DEF Whole, MayConfirm
<1>9. ~r.raced => /\ ~r.moved /\ r.out = 0 /\ r.pays = 0 /\ ~r.earned /\ r.pts = 0 /\ r.bal = 0
  BY <1>8 DEF Whole, MayConfirm
<1>10. q.pays \in {0, 1} /\ q.out \in Int /\ q.bal \in Int /\ q.pts \in Int /\ (paid => q.pays = 1)
  BY <1>6, <1>7, <1>8
<1>11. ~q.raced => q.out = 1 /\ q.pts = 1 /\ q.bal = q.pays - 1
  BY <1>6, <1>7, <1>9
<1>12. Whole(q)
  BY <1>5, <1>6, <1>8, <1>10, <1>11 DEF Whole
<1>13. Keeps(r, q)
  BY <1>6 DEF Keeps
<1> QED
  BY <1>6, <1>8, <1>10, <1>12, <1>13

LEMMA BackFields ==
  ASSUME NEW r, DOMAIN r = Fields, NEW moved, NEW q, q = GivenBack(r, moved)
  PROVE  /\ DOMAIN q = Fields /\ q.bal = r.bal + 1 /\ q.out = (IF moved THEN r.out - 1 ELSE r.out)
         /\ q.st = r.st /\ q.pays = r.pays /\ q.moved = r.moved /\ q.cpn = r.cpn
         /\ q.earned = r.earned /\ q.pts = r.pts
         /\ q.page = r.page /\ q.raced = r.raced /\ q.dropped = r.dropped
         /\ q.refused = r.refused /\ q.early = r.early
BY DEF GivenBack, Fields

\* Cancelling keeps an order whole.
LEMMA CancelledWhole ==
  ASSUME NEW r, Whole(r), MayCancel(r), r.st # "none", NEW q, q = Cancelled(r)
  PROVE  Whole(q) /\ Keeps(r, q) /\ q.st = "cancelled" /\ ~q.page
<1> DEFINE c == IF r.st = "confirmed" \/ r.moved THEN GivenBack(r, r.moved) ELSE r
<1>0. DOMAIN r = Fields
  BY DEF Whole
<1>1. q = [PointsBack(c) EXCEPT !.st = "cancelled"]
  BY DEF Cancelled
<1>2. /\ DOMAIN c = Fields
      /\ c.bal = (IF r.st = "confirmed" \/ r.moved THEN r.bal + 1 ELSE r.bal)
      /\ c.out = (IF r.moved THEN r.out - 1 ELSE r.out)
      /\ c.pays = r.pays /\ c.cpn = r.cpn /\ c.earned = r.earned /\ c.pts = r.pts
      /\ c.page = r.page /\ c.raced = r.raced /\ c.dropped = r.dropped
      /\ c.refused = r.refused /\ c.early = r.early
  BY <1>0, BackFields
<1> HIDE DEF c
<1>3. /\ DOMAIN q = Fields /\ q.st = "cancelled" /\ q.pts = (IF c.earned THEN c.pts - 1 ELSE c.pts)
      /\ q.bal = c.bal /\ q.out = c.out /\ q.pays = c.pays /\ q.cpn = c.cpn
      /\ q.page = c.page /\ q.raced = c.raced /\ q.dropped = c.dropped
      /\ q.refused = c.refused /\ q.early = c.early
  BY <1>1, <1>2 DEF PointsBack, Fields
<1>4. /\ r.pays \in {0, 1} /\ r.out \in Int /\ r.bal \in Int /\ r.pts \in Int
      /\ r.st \in {"pending", "confirmed"} /\ ~r.page
  BY DEF Whole, MayCancel
<1>5. ~r.raced => /\ r.pays = 0
                  /\ r.st = "pending" => /\ ~r.moved /\ r.out = 0 /\ ~r.earned /\ r.pts = 0 /\ r.bal = 0
                  /\ r.st = "confirmed" => /\ r.moved /\ r.out = 1 /\ r.earned /\ r.pts = 1
                                           /\ r.bal = -1
  BY <1>4 DEF Whole, MayCancel
<1>6. q.out \in Int /\ q.bal \in Int /\ q.pts \in Int
  BY <1>2, <1>3, <1>4
<1>7. ~q.raced => q.out = 0 /\ q.pays = 0 /\ q.bal = 0 /\ q.pts = 0
  BY <1>2, <1>3, <1>4, <1>5
<1>8. Whole(q)
  BY <1>2, <1>3, <1>4, <1>6, <1>7 DEF Whole
<1>9. Keeps(r, q)
  BY <1>2, <1>3, <1>4 DEF Keeps
<1> QED
  BY <1>2, <1>3, <1>4, <1>8, <1>9

\* Whether an order counts for the coupon.
Holds(r) == r.cpn /\ (r.st # "cancelled" \/ r.page)

\* The sales page keeps an order whole, or marks it.
LEMMA PageWhole ==
  ASSUME NEW r, Whole(r), r.st # "none", NEW st, st # "cancelled", r.pays = 0 \/ r.st # st,
         NEW moved, ~r.raced /\ r.st = st => (moved <=> r.moved),
         NEW q, q = PageCancelled(r, st, moved)
  PROVE  Whole(q) /\ Keeps(r, q) /\ q.st = "cancelled" /\ (Holds(q) <=> Holds(r))
<1> DEFINE c == GivenBack(r, moved)
<1>0. DOMAIN r = Fields
  BY DEF Whole
<1>1. /\ DOMAIN c = Fields /\ c.bal = r.bal + 1 /\ c.out = (IF moved THEN r.out - 1 ELSE r.out)
      /\ c.pays = r.pays /\ c.cpn = r.cpn /\ c.pts = r.pts
      /\ c.page = r.page /\ c.raced = r.raced /\ c.dropped = r.dropped
      /\ c.refused = r.refused /\ c.early = r.early
  BY <1>0, BackFields
<1> HIDE DEF c
<1>2. q = [c EXCEPT !.st = "cancelled", !.page = @ \/ r.st # "cancelled", !.raced = @ \/ r.st # st]
  BY DEF c, PageCancelled
<1>3. /\ DOMAIN q = Fields /\ q.st = "cancelled" /\ q.bal = c.bal /\ q.out = c.out
      /\ q.pays = c.pays /\ q.cpn = c.cpn /\ q.pts = c.pts
      /\ q.page = (c.page \/ r.st # "cancelled") /\ q.raced = (c.raced \/ r.st # st)
      /\ q.dropped = c.dropped /\ q.refused = c.refused /\ q.early = c.early
  BY <1>1, <1>2 DEF Fields
<1>4. /\ r.pays \in {0, 1} /\ r.out \in Int /\ r.bal \in Int /\ r.pts \in Int
      /\ r.st \in {"pending", "confirmed", "cancelled"} /\ (r.page => r.st = "cancelled")
  BY DEF Whole
<1>5. q.out \in Int /\ q.bal \in Int /\ q.pts \in Int
  BY <1>1, <1>3, <1>4
<1>6. ~q.raced => q.out = 0 /\ q.pays = 0 /\ q.page
  <2>1. SUFFICES ASSUME ~q.raced PROVE q.out = 0 /\ q.pays = 0 /\ q.page
    OBVIOUS
  <2>2. ~r.raced /\ r.st = st /\ (moved <=> r.moved)
    BY <1>1, <1>3, <2>1
  <2>3. r.pays = 0 /\ r.st # "cancelled" /\ r.st \in {"pending", "confirmed"}
    BY <1>4, <2>2
  <2>4. (r.moved => r.out = 1) /\ (~r.moved => r.out = 0)
    BY <2>2, <2>3 DEF Whole
  <2>5. q.pays = 0 /\ q.page
    BY <1>1, <1>3, <2>3
  <2>6. CASE r.moved
    <3>1. moved
      BY <2>2, <2>6
    <3>2. q.out = r.out - 1 /\ r.out = 1
      BY <1>1, <1>3, <2>4, <2>6, <3>1
    <3> QED
      BY <2>5, <3>2
  <2>7. CASE ~r.moved
    <3>1. ~moved
      BY <2>2, <2>7
    <3>2. q.out = r.out /\ r.out = 0
      BY <1>1, <1>3, <2>4, <2>7, <3>1
    <3> QED
      BY <2>5, <3>2
  <2> QED
    BY <2>6, <2>7
<1>7. Whole(q)
  BY <1>1, <1>3, <1>4, <1>5, <1>6 DEF Whole
<1>8. Keeps(r, q)
  BY <1>1, <1>3, <1>4 DEF Keeps
<1>9. q.cpn = r.cpn /\ q.st = "cancelled" /\ (q.page <=> (r.page \/ r.st # "cancelled"))
  BY <1>1, <1>3
<1>10. Holds(q) <=> Holds(r)
  BY <1>9 DEF Holds
<1> QED
  BY <1>7, <1>8, <1>9, <1>10

---------------------------------------------------------------------------
(***************************************************************************)
(* All orders                                                              *)
(***************************************************************************)

Shapes == /\ DOMAIN order = Order /\ DOMAIN gateway = Order /\ DOMAIN answered = Order
          /\ DOMAIN lock = Order \cup {"coupon"} /\ DOMAIN req = Worker
          /\ \A w \in Worker : DOMAIN req[w] = WorkFields

\* A notice that was answered is booked or explained.
Booked(o) == "finished" \in answered[o] =>
                order[o].pays = 1 \/ order[o].dropped \/ order[o].refused \/ order[o].early

\* What a request knows of its order: the one that places it is alone with it, the one that
\* cancels it holds it, the sales page read whether goods had moved.
Knows(w) ==
    LET o == req[w].o IN
    /\ req[w].pc = "idle" => req[w] = NoWork
    /\ req[w].pc \in {"coupon", "place"} =>
         /\ o \in Order /\ order[o].st = "none"
         /\ \A u \in Worker \ {w} : req[u].pc = "idle" \/ req[u].o # o
    /\ req[w].pc \in {"fresh", "act", "page", "release"} => o \in Order /\ order[o].st # "none"
    /\ req[w].pc = "release" =>
         lock[o] = w /\ MayCancel(order[o]) /\ req[w].n \in {"none", "expired"}
    /\ req[w].pc = "page" /\ ~order[o].raced =>
         /\ req[w].st = "pending" => ~req[w].moved
         /\ req[w].st = "confirmed" => req[w].moved

\* Everything but the count of the coupon.
OrdersInv == /\ Shapes
             /\ \A o \in Order : Whole(order[o]) /\ Booked(o)
             /\ \A o \in Order : gateway[o] # {} => order[o].st # "none"
             /\ \A w \in Worker : Knows(w)

CouponInv == IsFiniteSet(Holders) /\ (~slipped => used = Cardinality(Holders))

LEMMA InitOrders == Init => OrdersInv /\ CouponInv
<1> SUFFICES ASSUME Init PROVE OrdersInv /\ CouponInv
  OBVIOUS
<1>1. Shapes
  BY DEF Init, Shapes, NoWork, WorkFields
<1>2. \A o \in Order : Whole(order[o])
  BY DEF Init, NoOrder, Whole, Fields
<1>3. \A o \in Order : Booked(o) /\ gateway[o] = {}
  BY DEF Init, Booked
<1>4. \A w \in Worker : Knows(w)
  BY DEF Init, Knows, NoWork
<1>5. Holders = {}
  BY DEF Init, NoOrder, Holders
<1>6. used = 0
  BY DEF Init
<1> QED
  BY <1>1, <1>2, <1>3, <1>4, <1>5, <1>6, FS_EmptySet DEF OrdersInv, CouponInv

\* A lock is freed by its holder only, whose request is over.
Released(w) == \/ UNCHANGED lock /\ UNCHANGED req
               \/ UNCHANGED lock /\ Answer(w)
               \/ Freed(w) /\ Answer(w)

LEMMA Releasing ==
  ASSUME OrdersInv, NEW w, Released(w)
  PROVE  /\ DOMAIN lock' = Order \cup {"coupon"} /\ DOMAIN req' = Worker
         /\ \A u \in Worker : DOMAIN req'[u] = WorkFields
         /\ \A u \in Worker : req'[u] = req[u] \/ req'[u] = NoWork
         /\ \A u \in Worker : req'[u].pc = "release" => lock'[req'[u].o] = u /\ req'[u] = req[u]
<1>1. /\ DOMAIN lock = Order \cup {"coupon"} /\ DOMAIN req = Worker
      /\ \A u \in Worker : DOMAIN req[u] = WorkFields
  BY DEF OrdersInv, Shapes
<1>2. DOMAIN NoWork = WorkFields /\ NoWork.pc = "idle"
  BY DEF NoWork, WorkFields
<1>3. \A u \in Worker : req[u].pc = "release" => req[u].o \in Order /\ lock[req[u].o] = u
  BY DEF OrdersInv, Knows
<1>4. CASE UNCHANGED lock /\ UNCHANGED req
  BY <1>1, <1>3, <1>4
<1>5. CASE UNCHANGED lock /\ Answer(w)
  BY <1>1, <1>2, <1>3, <1>5 DEF Answer
<1>6. CASE Freed(w) /\ Answer(w)
  <2>1. /\ req' = [req EXCEPT ![w] = NoWork]
        /\ lock' = [x \in DOMAIN lock |-> IF lock[x] = w THEN Nobody ELSE lock[x]]
    BY <1>6 DEF Freed, Answer
  <2>2. \A u \in Worker : req'[u] = IF u = w THEN NoWork ELSE req[u]
    BY <1>1, <2>1
  <2>3. ASSUME NEW u \in Worker, req'[u].pc = "release" PROVE lock'[req'[u].o] = u /\ req'[u] = req[u]
    <3>1. u # w /\ req'[u] = req[u]
      BY <1>2, <2>2, <2>3
    <3>2. req[u].o \in DOMAIN lock /\ lock[req[u].o] = u
      BY <1>1, <1>3, <2>3, <3>1
    <3> QED
      BY <2>1, <3>1, <3>2
  <2> QED
    BY <1>1, <1>2, <2>1, <2>2, <2>3
<1> QED
  BY <1>4, <1>5, <1>6 DEF Released

\* An order is written by a request that is over or needs no place of its own.
LEMMA WriteOrder ==
  ASSUME OrdersInv, NEW w, NEW o \in Order, NEW q, order' = [order EXCEPT ![o] = q],
         Whole(q), Keeps(order[o], q), order[o].st # "none", q.st # "none", Released(w),
         \A u \in Worker : req'[u].pc = "release" /\ req'[u].o = o => MayCancel(q),
         UNCHANGED gateway,
         \/ UNCHANGED answered
         \/ \E n : /\ answered' = [answered EXCEPT ![o] = @ \cup {n}]
                   /\ n = "finished" => q.pays = 1 \/ q.dropped \/ q.refused \/ q.early
  PROVE  OrdersInv'
<1>1. /\ DOMAIN order = Order /\ DOMAIN gateway = Order /\ DOMAIN answered = Order
      /\ \A d \in Order : Whole(order[d]) /\ Booked(d)
      /\ \A d \in Order : gateway[d] # {} => order[d].st # "none"
  BY DEF OrdersInv, Shapes
<1>2. DOMAIN order' = Order /\ order'[o] = q /\ \A d \in Order : d # o => order'[d] = order[d]
  BY <1>1
<1>3. Shapes'
  BY <1>1, <1>2, Releasing DEF Shapes
<1>4. \A d \in Order : Whole(order[d])'
  BY <1>1, <1>2 DEF Whole
<1>5. ASSUME NEW d \in Order PROVE Booked(d)'
  <2>1. CASE d # o
    BY <1>1, <1>2, <2>1 DEF Booked
  <2>2. CASE d = o
    <3>1. \/ "finished" \in answered'[o] => "finished" \in answered[o]
          \/ q.pays = 1 \/ q.dropped \/ q.refused \/ q.early
      BY <1>1
    <3>2. Booked(o)
      BY <1>1
    <3> QED
      BY <1>2, <2>2, <3>1, <3>2 DEF Booked, Keeps
  <2> QED
    BY <2>1, <2>2
<1>6. \A d \in Order : gateway'[d] # {} => order'[d].st # "none"
  BY <1>1, <1>2
<1>7. ASSUME NEW u \in Worker PROVE Knows(u)'
  <2>1. CASE req'[u] = NoWork
    BY <2>1 DEF Knows, NoWork
  <2>2. CASE req'[u] = req[u]
    <3>1. Knows(u)
      BY DEF OrdersInv
    <3>2. req[u].pc = "idle" => req'[u] = NoWork
      BY <2>2, <3>1 DEF Knows
    <3>3. ASSUME req[u].pc \in {"coupon", "place"}
          PROVE  /\ req[u].o \in Order /\ order'[req[u].o].st = "none"
                 /\ \A v \in Worker \ {u} : req'[v].pc = "idle" \/ req'[v].o # req[u].o
      <4>1. /\ req[u].o \in Order /\ order[req[u].o].st = "none"
            /\ \A v \in Worker \ {u} : req[v].pc = "idle" \/ req[v].o # req[u].o
        BY <3>1, <3>3 DEF Knows
      <4>2. req[u].o # o
        BY <4>1
      <4>3. \A v \in Worker \ {u} : req'[v] = req[v] \/ req'[v] = NoWork
        BY Releasing
      <4> QED
        BY <1>2, <4>1, <4>2, <4>3 DEF NoWork
    <3>4. req[u].pc \in {"fresh", "act", "page", "release"} =>
            req[u].o \in Order /\ order'[req[u].o].st # "none"
      BY <1>2, <3>1 DEF Knows
    <3>5. req[u].pc = "release" =>
            lock'[req[u].o] = u /\ MayCancel(order'[req[u].o]) /\ req[u].n \in {"none", "expired"}
      <4>1. SUFFICES ASSUME req[u].pc = "release"
                     PROVE  /\ lock'[req[u].o] = u /\ MayCancel(order'[req[u].o])
                            /\ req[u].n \in {"none", "expired"}
        OBVIOUS
      <4>2. /\ req[u].o \in Order /\ MayCancel(order[req[u].o]) /\ req[u].n \in {"none", "expired"}
            /\ lock'[req[u].o] = u
        BY <2>2, <3>1, <4>1, Releasing DEF Knows
      <4>3. MayCancel(order'[req[u].o])
        BY <1>2, <2>2, <4>1, <4>2
      <4> QED
        BY <4>2, <4>3
    <3>6. req[u].pc = "page" /\ ~order'[req[u].o].raced =>
            /\ req[u].st = "pending" => ~req[u].moved
            /\ req[u].st = "confirmed" => req[u].moved
      BY <1>2, <3>1 DEF Knows, Keeps
    <3> QED
      BY <2>2, <3>2, <3>3, <3>4, <3>5, <3>6 DEF Knows, MayCancel
  <2> QED
    BY <2>1, <2>2, Releasing
<1> QED
  BY <1>3, <1>4, <1>5, <1>6, <1>7 DEF OrdersInv

\* A request begins, moves on or ends, and no order changes.
LEMMA ServeRequest ==
  ASSUME OrdersInv, NEW w \in Worker, NEW r, DOMAIN r = WorkFields, req' = [req EXCEPT ![w] = r],
         UNCHANGED <<order, gateway>>,
         \/ UNCHANGED answered
         \/ \E d, n : n # "finished" /\ answered' = [answered EXCEPT ![d] = @ \cup {n}],
         DOMAIN lock' = Order \cup {"coupon"},
         \A x \in Order, u \in Worker \ {w} : lock[x] = u => lock'[x] = u,
         r.pc = "idle" => r = NoWork,
         r.pc # "idle" => /\ r.o \in Order
                          /\ \A u \in Worker \ {w} :
                                req[u].pc \in {"coupon", "place"} => req[u].o # r.o,
         r.pc \in {"coupon", "place"} =>
            /\ order[r.o].st = "none"
            /\ \A u \in Worker \ {w} : req[u].pc = "idle" \/ req[u].o # r.o,
         r.pc \in {"fresh", "act", "page", "release"} => order[r.o].st # "none",
         r.pc = "release" =>
            lock'[r.o] = w /\ MayCancel(order[r.o]) /\ r.n \in {"none", "expired"},
         r.pc = "page" /\ ~order[r.o].raced =>
            (r.st = "pending" => ~r.moved) /\ (r.st = "confirmed" => r.moved)
  PROVE  OrdersInv'
<1>1. /\ DOMAIN order = Order /\ DOMAIN gateway = Order /\ DOMAIN answered = Order
      /\ DOMAIN req = Worker /\ \A u \in Worker : DOMAIN req[u] = WorkFields
      /\ \A d \in Order : Whole(order[d]) /\ Booked(d)
      /\ \A d \in Order : gateway[d] # {} => order[d].st # "none"
  BY DEF OrdersInv, Shapes
<1>2. DOMAIN req' = Worker /\ req'[w] = r /\ \A u \in Worker \ {w} : req'[u] = req[u]
  BY <1>1
<1>3. Shapes'
  BY <1>1, <1>2 DEF Shapes
<1>4. \A d \in Order : Whole(order[d])' /\ Booked(d)'
  BY <1>1 DEF Whole, Booked
<1>5. Knows(w)'
  BY <1>2 DEF Knows, MayCancel
<1>6. ASSUME NEW u \in Worker \ {w} PROVE Knows(u)'
  <2>1. Knows(u) /\ req'[u] = req[u]
    BY <1>2 DEF OrdersInv
  <2>2. req[u].pc \in {"coupon", "place"} =>
          \A v \in Worker \ {u} : req'[v].pc = "idle" \/ req'[v].o # req[u].o
    <3>1. SUFFICES ASSUME req[u].pc \in {"coupon", "place"}, NEW v \in Worker \ {u}
                   PROVE  req'[v].pc = "idle" \/ req'[v].o # req[u].o
      OBVIOUS
    <3>2. CASE v = w
      BY <1>2, <3>1, <3>2
    <3>3. CASE v # w
      BY <1>2, <2>1, <3>1, <3>3 DEF Knows
    <3> QED
      BY <3>2, <3>3
  <2>3. req[u].pc = "release" =>
          lock'[req[u].o] = u /\ MayCancel(order[req[u].o]) /\ req[u].n \in {"none", "expired"}
    BY <2>1 DEF Knows
  <2> QED
    BY <2>1, <2>2, <2>3 DEF Knows, MayCancel
<1> QED
  BY <1>1, <1>3, <1>4, <1>5, <1>6 DEF OrdersInv

\* Nobody else holds a row that w locks or frees.
LEMMA Locking ==
  ASSUME OrdersInv, NEW w \in Worker, NEW o \in Order \cup {"coupon"},
         \/ UNCHANGED lock
         \/ Freed(w)
         \/ lock[o] = Nobody /\ lock' = [lock EXCEPT ![o] = w]
  PROVE  /\ DOMAIN lock' = Order \cup {"coupon"}
         /\ \A x \in Order, u \in Worker \ {w} : lock[x] = u => lock'[x] = u
<1>1. DOMAIN lock = Order \cup {"coupon"} /\ Nobody \notin Worker
  BY StoreAssumption DEF OrdersInv, Shapes
<1> QED
  BY <1>1 DEF Freed

\* The coupon's count and its orders stay.
LEMMA CouponStays ==
  ASSUME CouponInv, UNCHANGED <<used, slipped>>, DOMAIN order = Order,
         \/ UNCHANGED order
         \/ \E q : \E o \in Order : /\ order' = [order EXCEPT ![o] = q]
                                    /\ Holds(q) <=> Holds(order[o])
  PROVE  CouponInv'
<1>1. Holders = {o \in Order : Holds(order[o])} /\ Holders' = {o \in Order : Holds(order'[o])}
  BY DEF Holders, Holds
<1>2. Holders' = Holders
  BY <1>1
<1> QED
  BY <1>2 DEF CouponInv

---------------------------------------------------------------------------
(***************************************************************************)
(* The steps                                                               *)
(***************************************************************************)

\* A request that begins: nobody places its order, unless it does, alone.
LEMMA BeginStep ==
  ASSUME OrdersInv, CouponInv, NEW w \in Worker, NEW o \in Order,
         \/ \E cpn, online \in BOOLEAN : BeginCheckout(w, o, cpn, online)
         \/ BeginSalesPage(w, o)
         \/ \E n \in Notice : Arrive(w, o, n)
  PROVE  OrdersInv' /\ CouponInv'
<1>1. /\ DOMAIN order = Order /\ Whole(order[o]) /\ (gateway[o] # {} => order[o].st # "none")
      /\ \A u \in Worker : Knows(u)
  BY DEF OrdersInv, Shapes
<1>2. DOMAIN lock' = Order \cup {"coupon"} /\ lock' = lock
  BY Locking DEF BeginCheckout, BeginSalesPage, Arrive, OrdersInv, Shapes
<1>3. CouponInv'
  BY <1>1, CouponStays DEF BeginCheckout, BeginSalesPage, Arrive
<1>4. order[o].st # "none" =>
        \A u \in Worker \ {w} : req[u].pc \in {"coupon", "place"} => req[u].o # o
  BY <1>1 DEF Knows
<1>5. ASSUME NEW cpn \in BOOLEAN, NEW online \in BOOLEAN, BeginCheckout(w, o, cpn, online)
      PROVE  OrdersInv'
  <2> DEFINE r == [NoWork EXCEPT !.pc = IF cpn THEN "coupon" ELSE "place", !.o = o, !.cpn = cpn,
                                 !.online = online]
  <2>1. /\ order[o].st = "none" /\ \A u \in Worker : req[u].o # o
        /\ req' = [req EXCEPT ![w] = r] /\ UNCHANGED <<order, answered, gateway>>
    BY <1>5 DEF BeginCheckout, Starts
  <2>2. DOMAIN r = WorkFields /\ r.o = o /\ r.pc \in {"coupon", "place"}
    BY DEF NoWork, WorkFields
  <2> HIDE DEF r
  <2> QED
    BY <1>2, <2>1, <2>2, ServeRequest
<1>6. ASSUME BeginSalesPage(w, o) PROVE OrdersInv'
  <2> DEFINE r == [NoWork EXCEPT !.pc = "page", !.o = o, !.st = order[o].st,
                                 !.moved = order[o].moved]
  <2>1. /\ order[o].st # "none"
        /\ req' = [req EXCEPT ![w] = r] /\ UNCHANGED <<order, answered, gateway>>
    BY <1>6 DEF BeginSalesPage, Starts
  <2>2. /\ DOMAIN r = WorkFields /\ r.o = o /\ r.pc = "page" /\ r.st = order[o].st
        /\ r.moved = order[o].moved
    BY DEF NoWork, WorkFields
  <2> HIDE DEF r
  <2>3. ~order[o].raced => (r.st = "pending" => ~r.moved) /\ (r.st = "confirmed" => r.moved)
    BY <1>1, <2>2 DEF Whole
  <2> QED
    BY <1>2, <1>4, <2>1, <2>2, <2>3, ServeRequest
<1>7. ASSUME NEW n \in Notice, Arrive(w, o, n) PROVE OrdersInv'
  <2> DEFINE r == [NoWork EXCEPT !.pc = "fresh", !.o = o, !.n = n]
  <2>1. /\ gateway[o] # {}
        /\ req' = [req EXCEPT ![w] = r] /\ UNCHANGED <<order, answered, gateway>>
    BY <1>7 DEF Arrive, Starts
  <2>2. DOMAIN r = WorkFields /\ r.o = o /\ r.pc = "fresh"
    BY DEF NoWork, WorkFields
  <2> HIDE DEF r
  <2> QED
    BY <1>1, <1>2, <1>4, <2>1, <2>2, ServeRequest
<1> QED
  BY <1>3, <1>5, <1>6, <1>7

\* A cancellation holds the row of its order, which may be cancelled.
LEMMA CancelStep ==
  ASSUME OrdersInv, CouponInv, NEW w \in Worker, NEW o \in Order, CancelOrder(w, o),
         order[o].st # "none", req[w].n \in {"none", "expired"},
         req[w].pc \in {"idle", "act"}
  PROVE  OrdersInv' /\ CouponInv'
<1> DEFINE r == [req[w] EXCEPT !.pc = "release", !.o = o, !.rd = used]
<1>1. /\ DOMAIN order = Order /\ DOMAIN req = Worker /\ DOMAIN req[w] = WorkFields
      /\ DOMAIN lock = Order \cup {"coupon"} /\ \A u \in Worker : Knows(u)
  BY DEF OrdersInv, Shapes
<1>2. /\ lock[o] = Nobody /\ MayCancel(order[o]) /\ lock' = [lock EXCEPT ![o] = w]
      /\ UNCHANGED <<order, answered, gateway>>
  BY DEF CancelOrder
<1>3. req' = [req EXCEPT ![w] = r]
  BY <1>1 DEF CancelOrder
<1>4. /\ DOMAIN r = WorkFields /\ r.o = o /\ r.pc = "release" /\ r.n = req[w].n
  BY <1>1 DEF WorkFields
<1> HIDE DEF r
<1>5. /\ DOMAIN lock' = Order \cup {"coupon"} /\ lock'[o] = w
      /\ \A x \in Order, u \in Worker \ {w} : lock[x] = u => lock'[x] = u
  BY <1>1, <1>2, Locking
<1>6. \A u \in Worker \ {w} : req[u].pc \in {"coupon", "place"} => req[u].o # o
  BY <1>1 DEF Knows
<1>7. CouponInv'
  BY <1>1, CouponStays DEF CancelOrder
<1>8. OrdersInv'
  BY <1>2, <1>3, <1>4, <1>5, <1>6, ServeRequest
<1> QED
  BY <1>7, <1>8

\* A request moves on or is rolled back, its order untouched.
LEMMA MoveStep ==
  ASSUME OrdersInv, CouponInv, NEW w \in Worker, UseCoupon(w) \/ ReadOrder(w) \/ GiveUp(w)
  PROVE  OrdersInv' /\ CouponInv'
<1>1. /\ DOMAIN order = Order /\ DOMAIN req = Worker /\ DOMAIN req[w] = WorkFields
      /\ DOMAIN lock = Order \cup {"coupon"} /\ \A u \in Worker : Knows(u)
  BY DEF OrdersInv, Shapes
<1>2. CouponInv'
  BY <1>1, CouponStays DEF UseCoupon, ReadOrder, GiveUp
<1>3. UNCHANGED <<order, answered, gateway>>
  BY DEF UseCoupon, ReadOrder, GiveUp
<1>4. /\ DOMAIN lock' = Order \cup {"coupon"}
      /\ \A x \in Order, u \in Worker \ {w} : lock[x] = u => lock'[x] = u
  BY Locking DEF UseCoupon, ReadOrder, GiveUp
<1>5. DOMAIN NoWork = WorkFields /\ NoWork.pc = "idle"
  BY DEF NoWork, WorkFields
<1>6. ASSUME Answer(w) PROVE OrdersInv'
  BY <1>3, <1>4, <1>5, <1>6, ServeRequest DEF Answer
<1>7. ASSUME UseCoupon(w), ~Answer(w) PROVE OrdersInv'
  <2> DEFINE r == [req[w] EXCEPT !.pc = "place"]
  <2>1. req[w].pc = "coupon" /\ req' = [req EXCEPT ![w] = r]
    BY <1>1, <1>7 DEF UseCoupon
  <2>2. DOMAIN r = WorkFields /\ r.o = req[w].o /\ r.pc = "place"
    BY <1>1 DEF WorkFields
  <2> HIDE DEF r
  <2>3. /\ r.o \in Order /\ order[r.o].st = "none"
        /\ \A u \in Worker \ {w} : req[u].pc = "idle" \/ req[u].o # r.o
    BY <1>1, <2>1, <2>2 DEF Knows
  <2> QED
    BY <1>3, <1>4, <2>1, <2>2, <2>3, ServeRequest
<1>8. ASSUME ReadOrder(w) PROVE OrdersInv'
  <2> DEFINE st == order[req[w].o].st
             r == [req[w] EXCEPT !.pc = "act", !.st = st]
  <2>1. req[w].pc = "fresh" /\ req' = [req EXCEPT ![w] = r]
    BY <1>1, <1>8 DEF ReadOrder
  <2>2. DOMAIN r = WorkFields /\ r.o = req[w].o /\ r.pc = "act"
    BY <1>1 DEF WorkFields
  <2> HIDE DEF r
  <2>3. r.o \in Order /\ order[r.o].st # "none"
    BY <1>1, <2>1, <2>2 DEF Knows
  <2>4. \A u \in Worker \ {w} : req[u].pc \in {"coupon", "place"} => req[u].o # r.o
    BY <1>1, <2>3 DEF Knows
  <2> QED
    BY <1>3, <1>4, <2>1, <2>2, <2>3, <2>4, ServeRequest
<1> QED
  BY <1>2, <1>6, <1>7, <1>8 DEF GiveUp

\* Nothing of an order, a lock or a request changes; the gateway knows placed orders only.
LEMMA QuietStep ==
  ASSUME OrdersInv, CouponInv,
         \/ \E o \in Order, n \in Notice : GatewayMoves(o, n)
         \/ \E o \in Order : Forget(o)
         \/ UNCHANGED vars
  PROVE  OrdersInv' /\ CouponInv'
<1>1. UNCHANGED <<order, used, lock, answered, slipped, req>>
  BY DEF GatewayMoves, Forget, vars
<1>2. /\ DOMAIN gateway' = Order
      /\ \A o \in Order : gateway'[o] # {} => gateway[o] # {}
  BY DEF GatewayMoves, Forget, vars, OrdersInv, Shapes
<1>3. \A w \in Worker : Knows(w)'
  BY <1>1 DEF OrdersInv, Knows, MayCancel
<1>4. \A o \in Order : Whole(order[o])' /\ Booked(o)'
  BY <1>1 DEF OrdersInv, Whole, Booked
<1>5. Shapes'
  BY <1>1, <1>2 DEF OrdersInv, Shapes
<1>6. OrdersInv'
  BY <1>1, <1>2, <1>3, <1>4, <1>5 DEF OrdersInv
<1>7. CouponInv'
  BY <1>1 DEF CouponInv, Holders
<1> QED
  BY <1>6, <1>7

\* An order is placed: whoever placed it was alone with it.
LEMMA PlaceStep ==
  ASSUME OrdersInv, CouponInv, NEW w \in Worker, Place(w)
  PROVE  OrdersInv' /\ CouponInv'
<1> DEFINE o == req[w].o
           q == [order[o] EXCEPT !.st = "pending", !.cpn = req[w].cpn]
<1>1. /\ DOMAIN order = Order /\ DOMAIN gateway = Order /\ DOMAIN answered = Order
      /\ DOMAIN req = Worker
      /\ \A d \in Order : Whole(order[d]) /\ Booked(d)
      /\ \A d \in Order : gateway[d] # {} => order[d].st # "none"
      /\ \A u \in Worker : Knows(u)
  BY DEF OrdersInv, Shapes
<1>2. /\ req[w].pc = "place" /\ order' = [order EXCEPT ![o] = q] /\ UNCHANGED <<answered, slipped>>
      /\ Freed(w) /\ Answer(w)
  <2>1. order' = [order EXCEPT ![o].st = "pending", ![o].cpn = req[w].cpn]
    BY DEF Place
  <2>2. order' = [order EXCEPT ![o] = q]
    BY <2>1
  <2> QED
    BY <2>2 DEF Place
<1>3. /\ o \in Order /\ order[o].st = "none"
      /\ \A u \in Worker \ {w} : req[u].pc = "idle" \/ req[u].o # o
  BY <1>1, <1>2 DEF Knows
<1>4. /\ DOMAIN q = Fields /\ q.st = "pending" /\ q.cpn = req[w].cpn
      /\ q.moved = order[o].moved /\ q.out = order[o].out /\ q.bal = order[o].bal
      /\ q.pays = order[o].pays /\ q.earned = order[o].earned /\ q.pts = order[o].pts
      /\ q.page = order[o].page /\ q.raced = order[o].raced /\ q.dropped = order[o].dropped
      /\ q.refused = order[o].refused /\ q.early = order[o].early
  BY <1>1, <1>3 DEF Whole, Fields
<1>5. Whole(order[o]) /\ ~order[o].page /\ ~order[o].cpn
  BY <1>1, <1>3 DEF Whole
<1> HIDE DEF q, o
<1>6. Whole(q)
  BY <1>3, <1>4, <1>5 DEF Whole
<1>7. DOMAIN order' = Order /\ order'[o] = q /\ \A d \in Order \ {o} : order'[d] = order[d]
  BY <1>1, <1>2, <1>3
<1>8. DOMAIN gateway' = Order /\ \A d \in Order \ {o} : gateway'[d] = gateway[d]
  BY <1>1, <1>3 DEF Place, o
<1>9. /\ DOMAIN lock' = Order \cup {"coupon"} /\ DOMAIN req' = Worker
      /\ \A u \in Worker : DOMAIN req'[u] = WorkFields
      /\ \A u \in Worker : req'[u] = req[u] \/ req'[u] = NoWork
      /\ \A u \in Worker : req'[u].pc = "release" => lock'[req'[u].o] = u /\ req'[u] = req[u]
  BY <1>2, Releasing DEF Released
<1>10. Shapes'
  BY <1>1, <1>7, <1>8, <1>9, <1>2 DEF Shapes
<1>11. \A d \in Order : Whole(order[d])'
  BY <1>1, <1>6, <1>7 DEF Whole
<1>12. \A d \in Order : Booked(d)'
  BY <1>1, <1>2, <1>3, <1>4, <1>7 DEF Booked
<1>13. \A d \in Order : gateway'[d] # {} => order'[d].st # "none"
  BY <1>1, <1>4, <1>7, <1>8
<1>14. ASSUME NEW u \in Worker PROVE Knows(u)'
  <2>1. CASE req'[u] = NoWork
    BY <2>1 DEF Knows, NoWork
  <2>2. CASE req'[u] = req[u] /\ req'[u] # NoWork
    <3>1. u # w
      BY <1>1, <1>2, <2>2 DEF Answer
    <3>2. Knows(u) /\ req[u].pc # "idle"
      BY <1>1, <2>2 DEF Knows
    <3>3. req[u].o # o
      BY <1>3, <3>1, <3>2
    <3>4. req[u].pc \in {"coupon", "place"} =>
            \A v \in Worker \ {u} : req'[v].pc = "idle" \/ req'[v].o # req[u].o
      BY <1>9, <3>2 DEF Knows, NoWork
    <3>5. req[u].pc = "release" => lock'[req[u].o] = u
      BY <1>9, <2>2
    <3>6. req[u].o \in Order => order'[req[u].o] = order[req[u].o]
      BY <1>7, <3>3
    <3> QED
      BY <2>2, <3>2, <3>4, <3>5, <3>6 DEF Knows, MayCancel
  <2> QED
    BY <1>9, <2>1, <2>2
<1>15. OrdersInv'
  BY <1>10, <1>11, <1>12, <1>13, <1>14 DEF OrdersInv
<1>16. CouponInv'
  <2>1. used' = IF req[w].cpn THEN used + 1 ELSE used
    BY DEF Place
  <2>2. o \notin Holders /\ Holders' = IF req[w].cpn THEN Holders \cup {o} ELSE Holders
    BY <1>3, <1>4, <1>5, <1>7 DEF Holders
  <2>3. IsFiniteSet(Holders)
    BY DEF CouponInv
  <2>4. Cardinality(Holders \cup {o}) = Cardinality(Holders) + 1 /\ IsFiniteSet(Holders \cup {o})
    BY <2>2, <2>3, FS_AddElement
  <2>5. CASE req[w].cpn
    BY <1>2, <2>1, <2>2, <2>3, <2>4, <2>5 DEF CouponInv
  <2>6. CASE ~req[w].cpn
    BY <1>2, <2>1, <2>2, <2>6 DEF CouponInv
  <2> QED
    BY <2>5, <2>6
<1> QED
  BY <1>15, <1>16

\* The coupon's orders lose the one whose cancellation finishes.
LEMMA FinishStep ==
  ASSUME OrdersInv, CouponInv, NEW w \in Worker, FinishCancel(w)
  PROVE  OrdersInv' /\ CouponInv'
<1> DEFINE o == req[w].o
           q == Cancelled(order[o])
<1>1. /\ DOMAIN order = Order
      /\ \A d \in Order : Whole(order[d])
      /\ \A u \in Worker : Knows(u)
  BY DEF OrdersInv, Shapes
<1>2. /\ req[w].pc = "release" /\ order' = [order EXCEPT ![o] = q]
      /\ UNCHANGED gateway /\ Freed(w) /\ Answer(w)
  BY DEF FinishCancel
<1>3. /\ o \in Order /\ order[o].st # "none" /\ MayCancel(order[o]) /\ lock[o] = w
      /\ req[w].n \in {"none", "expired"}
  BY <1>1, <1>2 DEF Knows
<1>4. Whole(q) /\ Keeps(order[o], q) /\ q.st = "cancelled" /\ ~q.page
  BY <1>1, <1>3, CancelledWhole
<1> HIDE DEF q
<1>5. \/ UNCHANGED answered
      \/ \E n : /\ answered' = [answered EXCEPT ![o] = @ \cup {n}]
                /\ n = "finished" => q.pays = 1 \/ q.dropped \/ q.refused \/ q.early
  BY <1>3 DEF FinishCancel, Acknowledged
<1>6. Released(w)
  BY <1>2 DEF Released
<1>7. \A u \in Worker : req'[u].pc = "release" /\ req'[u].o = o => MayCancel(q)
  <2>1. \A u \in Worker : req'[u].pc = "release" => req'[u] = req[u]
    BY <1>6, Releasing
  <2>2. \A u \in Worker : req[u].pc = "release" => lock[req[u].o] = u
    BY <1>1 DEF Knows
  <2>3. DOMAIN req = Worker
    BY DEF OrdersInv, Shapes
  <2>4. req'[w].pc = "idle"
    BY <1>2, <2>3 DEF Answer, NoWork
  <2> QED
    BY <1>3, <2>1, <2>2, <2>4
<1>8. OrdersInv'
  BY <1>2, <1>3, <1>4, <1>5, <1>6, <1>7, WriteOrder
<1>9. CouponInv'
  <2>1. order'[o] = q /\ \A d \in Order \ {o} : order'[d] = order[d]
    BY <1>1, <1>2, <1>3
  <2>2. q.cpn = order[o].cpn /\ order[o].st # "cancelled"
    BY <1>3, <1>4 DEF Keeps, MayCancel
  <2>3. /\ order[o].cpn => o \in Holders /\ Holders' = Holders \ {o}
        /\ ~order[o].cpn => Holders' = Holders
    BY <1>3, <1>4, <2>1, <2>2 DEF Holders
  <2>4. /\ used' = IF order[o].cpn THEN Release(req[w].rd) ELSE used
        /\ slipped' = (slipped \/ (order[o].cpn /\ used # req[w].rd))
    BY DEF FinishCancel
  <2>5. IsFiniteSet(Holders)
    BY DEF CouponInv
  <2>6. CASE order[o].cpn
    <3>1. IsFiniteSet(Holders') /\ Cardinality(Holders') = Cardinality(Holders) - 1
      BY <2>3, <2>5, <2>6, FS_RemoveElement
    <3>2. SUFFICES ASSUME ~slipped' PROVE used' = Cardinality(Holders')
      BY <3>1 DEF CouponInv
    <3>3. used = Cardinality(Holders) /\ req[w].rd = used
      BY <2>4, <2>6, <3>2 DEF CouponInv
    <3>4. Cardinality(Holders) \in Nat /\ Cardinality(Holders) # 0
      BY <2>3, <2>5, <2>6, FS_CardinalityType, FS_EmptySet
    <3> DEFINE n == Cardinality(Holders)
    <3> HIDE DEF n
    <3>5. used' = Release(n) /\ n \in Nat /\ n # 0 /\ Cardinality(Holders') = n - 1
      BY <2>4, <2>6, <3>1, <3>3, <3>4 DEF n
    <3> QED
      BY <3>5 DEF Release
  <2>7. CASE ~order[o].cpn
    BY <2>3, <2>4, <2>7 DEF CouponInv
  <2> QED
    BY <2>6, <2>7
<1> QED
  BY <1>8, <1>9

\* An order is written in one step by nobody who holds its row, or its status stays.
LEMMA WriteStep ==
  ASSUME OrdersInv, CouponInv, NEW w, NEW o \in Order, NEW q, order' = [order EXCEPT ![o] = q],
         Whole(q), Keeps(order[o], q), order[o].st # "none", q.st # "none", UNCHANGED lock,
         UNCHANGED req \/ Answer(w),
         \/ lock[o] = Nobody
         \/ q.st = order[o].st /\ q.pays = order[o].pays /\ q.moved = order[o].moved,
         Holds(q) <=> Holds(order[o]),
         UNCHANGED <<gateway, used, slipped>>,
         \/ UNCHANGED answered
         \/ \E n : /\ answered' = [answered EXCEPT ![o] = @ \cup {n}]
                   /\ n = "finished" => q.pays = 1 \/ q.dropped \/ q.refused \/ q.early
  PROVE  OrdersInv' /\ CouponInv'
<1>1. Released(w)
  BY DEF Released
<1>2. ASSUME NEW u \in Worker, req'[u].pc = "release", req'[u].o = o PROVE MayCancel(q)
  <2>1. req'[u] = req[u] /\ lock[o] = u
    BY <1>1, <1>2, Releasing
  <2>2. lock[o] # Nobody /\ Knows(u)
    BY <2>1, StoreAssumption DEF OrdersInv
  <2>3. MayCancel(order[o])
    BY <1>2, <2>1, <2>2 DEF Knows
  <2> QED
    BY <2>2, <2>3 DEF MayCancel
<1>3. OrdersInv'
  BY <1>1, <1>2, WriteOrder
<1>4. DOMAIN order = Order
  BY DEF OrdersInv, Shapes
<1> QED
  BY <1>3, <1>4, CouponStays

\* A fee, or a mark that a notification was dropped, refused or early.
LEMMA MarkedWhole ==
  ASSUME NEW r, Whole(r), NEW q, DOMAIN q = Fields,
         q.st = r.st, q.cpn = r.cpn, q.moved = r.moved, q.out = r.out, q.bal = r.bal,
         q.pays = r.pays, q.earned = r.earned, q.pts = r.pts, q.page = r.page, q.raced = r.raced,
         (r.dropped => q.dropped) /\ (r.refused => q.refused) /\ (r.early => q.early)
  PROVE  Whole(q) /\ Keeps(r, q) /\ (Holds(q) <=> Holds(r))
BY DEF Whole, Keeps, Holds

LEMMA ConfirmStep ==
  ASSUME OrdersInv, CouponInv,
         \/ \E o \in Order, paid \in BOOLEAN : StaffConfirm(o, paid)
         \/ \E w \in Worker : FinishedConfirms(w)
  PROVE  OrdersInv' /\ CouponInv'
<1>1. \A d \in Order : Whole(order[d])
  BY DEF OrdersInv
<1>2. ASSUME NEW o \in Order, NEW paid, NEW fee, order[o].st # "none", MayConfirm(order[o]),
             NEW q, q = Confirmed(order[o], paid, fee)
      PROVE  /\ Whole(q) /\ Keeps(order[o], q) /\ q.st = "confirmed" /\ (paid => q.pays = 1)
             /\ Holds(q) <=> Holds(order[o])
  BY <1>1, <1>2, ConfirmedWhole DEF Holds, Keeps, MayConfirm
<1>3. ASSUME NEW o \in Order, NEW paid \in BOOLEAN, StaffConfirm(o, paid)
      PROVE  OrdersInv' /\ CouponInv'
  <2>1. PICK fee \in BOOLEAN : order' = [order EXCEPT ![o] = Confirmed(order[o], paid, fee)]
    BY <1>3 DEF StaffConfirm
  <2> DEFINE q == Confirmed(order[o], paid, fee)
  <2>2. /\ lock[o] = Nobody /\ order[o].st # "none" /\ MayConfirm(order[o])
        /\ UNCHANGED <<used, lock, gateway, answered, slipped, req>>
    BY <1>3 DEF StaffConfirm
  <2>3. /\ Whole(q) /\ Keeps(order[o], q) /\ q.st = "confirmed"
        /\ Holds(q) <=> Holds(order[o])
    BY <1>2, <2>2
  <2> HIDE DEF q
  <2>4. order' = [order EXCEPT ![o] = q]
    BY <2>1 DEF q
  <2> QED
    BY <2>2, <2>3, <2>4, WriteStep
<1>4. ASSUME NEW w \in Worker, FinishedConfirms(w) PROVE OrdersInv' /\ CouponInv'
  <2> DEFINE o == req[w].o
  <2>1. PICK fee \in BOOLEAN : order' = [order EXCEPT ![o] = Confirmed(order[o], TRUE, fee)]
    BY <1>4 DEF FinishedConfirms
  <2> DEFINE q == Confirmed(order[o], TRUE, fee)
  <2>2. /\ req[w].pc = "act" /\ lock[o] = Nobody /\ MayConfirm(order[o]) /\ req[w].n = "finished"
        /\ UNCHANGED <<used, lock, gateway, slipped>> /\ Answer(w) /\ Acknowledged(w)
    BY <1>4 DEF FinishedConfirms, Acts, Answered
  <2>3. o \in Order /\ order[o].st # "none"
    BY <2>2 DEF OrdersInv, Knows
  <2>4. /\ Whole(q) /\ Keeps(order[o], q) /\ q.st = "confirmed" /\ q.pays = 1
        /\ Holds(q) <=> Holds(order[o])
    BY <1>2, <2>2, <2>3
  <2>5. answered' = [answered EXCEPT ![o] = @ \cup {"finished"}]
    BY <2>2 DEF Acknowledged
  <2> HIDE DEF q
  <2>6. order' = [order EXCEPT ![o] = q]
    BY <2>1 DEF q
  <2> HIDE DEF o
  <2> QED
    BY <2>2, <2>3, <2>4, <2>5, <2>6, WriteStep
<1> QED
  BY <1>3, <1>4

\* The sales page's own read, or the search it makes later, agrees with the order it cancels.
LEMMA PageStep ==
  ASSUME OrdersInv, CouponInv, NEW w \in Worker, SalesPage(w)
  PROVE  OrdersInv' /\ CouponInv'
<1> DEFINE o == req[w].o
<1>1. PICK moved \in {req[w].moved, order[o].moved} :
        order' = [order EXCEPT ![o] = PageCancelled(order[o], req[w].st, moved)]
  BY DEF SalesPage
<1> DEFINE q == PageCancelled(order[o], req[w].st, moved)
<1>2. /\ req[w].pc = "page" /\ lock[o] = Nobody /\ req[w].st # "cancelled"
      /\ order[o].pays = 0 \/ order[o].st # req[w].st
      /\ Answer(w) /\ UNCHANGED <<used, lock, gateway, answered, slipped>>
  BY DEF SalesPage
<1>3. Knows(w) /\ \A d \in Order : Whole(order[d])
  BY DEF OrdersInv
<1>4. o \in Order /\ order[o].st # "none" /\ Whole(order[o])
  BY <1>2, <1>3 DEF Knows
<1>5. ~order[o].raced /\ order[o].st = req[w].st => (moved <=> order[o].moved)
  <2>1. SUFFICES ASSUME ~order[o].raced, order[o].st = req[w].st
                 PROVE  moved <=> order[o].moved
    OBVIOUS
  <2>2. order[o].st \in {"pending", "confirmed"}
    BY <1>2, <1>4, <2>1 DEF Whole
  <2>3. /\ order[o].st = "pending" => ~order[o].moved
        /\ order[o].st = "confirmed" => order[o].moved
    BY <1>4, <2>1 DEF Whole
  <2>4. /\ order[o].st = "pending" => ~req[w].moved
        /\ order[o].st = "confirmed" => req[w].moved
    BY <1>2, <1>3, <2>1 DEF Knows
  <2> QED
    BY <1>1, <2>2, <2>3, <2>4
<1>6. Whole(q) /\ Keeps(order[o], q) /\ q.st = "cancelled" /\ (Holds(q) <=> Holds(order[o]))
  BY <1>2, <1>4, <1>5, PageWhole
<1> HIDE DEF q
<1>7. order' = [order EXCEPT ![o] = q]
  BY <1>1 DEF q
<1> HIDE DEF o
<1> QED
  BY <1>2, <1>4, <1>6, <1>7, WriteStep

\* A notification that changes no order but its marks.
LEMMA NoticeStep ==
  ASSUME OrdersInv, CouponInv,
         \/ \E w \in Worker : FinishedEarlier(w) \/ FinishedRefused(w) \/ NothingToDo(w)
         \/ \E o \in Order, n \in Notice : Duplicate(o, n)
  PROVE  OrdersInv' /\ CouponInv'
<1>1. DOMAIN order = Order /\ \A d \in Order : Whole(order[d]) /\ DOMAIN order[d] = Fields
  BY DEF OrdersInv, Shapes, Whole
<1>2. ASSUME NEW w \in Worker, req[w].pc = "act", NEW q, order' = [order EXCEPT ![req[w].o] = q],
             Answered(w), DOMAIN q = Fields, NEW r, r = order[req[w].o],
             q.st = r.st, q.cpn = r.cpn, q.moved = r.moved, q.out = r.out, q.bal = r.bal,
             q.pays = r.pays, q.earned = r.earned, q.pts = r.pts, q.page = r.page,
             q.raced = r.raced,
             (r.dropped => q.dropped) /\ (r.refused => q.refused) /\ (r.early => q.early),
             UNCHANGED gateway,
             req[w].n = "finished" => q.refused \/ q.early
      PROVE  OrdersInv' /\ CouponInv'
  <2>1. req[w].o \in Order /\ r.st # "none" /\ Whole(r)
    BY <1>1, <1>2 DEF OrdersInv, Knows
  <2>2. Whole(q) /\ Keeps(r, q) /\ (Holds(q) <=> Holds(r))
    BY <1>2, <2>1, MarkedWhole
  <2>3. /\ UNCHANGED <<used, lock, slipped>> /\ Answer(w)
        /\ \/ UNCHANGED answered
           \/ /\ answered' = [answered EXCEPT ![req[w].o] = @ \cup {req[w].n}]
              /\ req[w].n = "finished" => q.refused \/ q.early
    BY <1>2 DEF Answered, Acknowledged
  <2> QED
    BY <1>2, <2>1, <2>2, <2>3, WriteStep
<1>3. ASSUME NEW w \in Worker, FinishedEarlier(w) PROVE OrdersInv' /\ CouponInv'
  <2> DEFINE r == order[req[w].o]
             c == Charged(r, "gateway")
             q == [c EXCEPT !.early = TRUE]
  <2>1. req[w].pc = "act" /\ order' = [order EXCEPT ![req[w].o] = q] /\ Answered(w)
    BY <1>3 DEF FinishedEarlier, Acts
  <2>2. UNCHANGED gateway
    BY <1>3 DEF FinishedEarlier, Answered
  <2>3. req[w].o \in Order /\ DOMAIN r = Fields
    BY <1>1, <2>1 DEF OrdersInv, Knows
  <2>4. /\ DOMAIN c = Fields /\ c.st = r.st /\ c.pays = r.pays /\ c.bal = r.bal
        /\ c.moved = r.moved /\ c.out = r.out
        /\ c.cpn = r.cpn /\ c.earned = r.earned /\ c.pts = r.pts
        /\ c.page = r.page /\ c.raced = r.raced /\ c.dropped = r.dropped
        /\ c.refused = r.refused /\ c.early = r.early
    BY <2>3, ChargedFields
  <2> HIDE DEF c, r
  <2>5. /\ DOMAIN q = Fields /\ q.st = c.st /\ q.pays = c.pays /\ q.bal = c.bal
        /\ q.moved = c.moved /\ q.out = c.out
        /\ q.cpn = c.cpn /\ q.earned = c.earned /\ q.pts = c.pts
        /\ q.page = c.page /\ q.raced = c.raced /\ q.dropped = c.dropped
        /\ q.refused = c.refused /\ q.early
    BY <2>4 DEF Fields
  <2> HIDE DEF q
  <2>6. /\ DOMAIN q = Fields /\ q.st = r.st /\ q.pays = r.pays /\ q.bal = r.bal
        /\ q.moved = r.moved /\ q.out = r.out
        /\ q.cpn = r.cpn /\ q.earned = r.earned /\ q.pts = r.pts
        /\ q.page = r.page /\ q.raced = r.raced
        /\ (r.dropped => q.dropped) /\ (r.refused => q.refused) /\ (r.early => q.early)
        /\ req[w].n = "finished" => q.refused \/ q.early
    BY <2>4, <2>5
  <2> QED
    BY <1>2, <2>1, <2>2, <2>6 DEF r
<1>4. ASSUME NEW w \in Worker, FinishedRefused(w) PROVE OrdersInv' /\ CouponInv'
  <2> DEFINE r == order[req[w].o]
             q == [r EXCEPT !.refused = TRUE]
  <2>1. req[w].pc = "act" /\ order' = [order EXCEPT ![req[w].o] = q] /\ Answered(w)
    BY <1>4 DEF FinishedRefused, Acts
  <2>2. UNCHANGED gateway
    BY <1>4 DEF FinishedRefused, Answered
  <2>3. req[w].o \in Order /\ DOMAIN r = Fields
    BY <1>1, <2>1 DEF OrdersInv, Knows
  <2> HIDE DEF r
  <2>4. /\ DOMAIN q = Fields /\ q.st = r.st /\ q.pays = r.pays /\ q.bal = r.bal
        /\ q.moved = r.moved /\ q.out = r.out
        /\ q.cpn = r.cpn /\ q.earned = r.earned /\ q.pts = r.pts
        /\ q.page = r.page /\ q.raced = r.raced /\ q.dropped = r.dropped
        /\ q.refused /\ q.early = r.early
    BY <2>3 DEF Fields
  <2> HIDE DEF q
  <2>5. /\ (r.dropped => q.dropped) /\ (r.refused => q.refused) /\ (r.early => q.early)
        /\ req[w].n = "finished" => q.refused \/ q.early
    BY <2>4
  <2> QED
    BY <1>2, <2>1, <2>2, <2>4, <2>5 DEF r
<1>5. ASSUME NEW w \in Worker, NothingToDo(w) PROVE OrdersInv' /\ CouponInv'
  <2>1. /\ req[w].pc = "act" /\ req[w].n # "finished" /\ UNCHANGED order /\ Answered(w)
    BY <1>5 DEF NothingToDo, Acts
  <2>2. UNCHANGED gateway
    BY <1>5 DEF NothingToDo, Answered
  <2>3. UNCHANGED <<used, lock, slipped>> /\ Answer(w)
    BY <2>1 DEF Answered
  <2>4. \/ UNCHANGED answered
        \/ answered' = [answered EXCEPT ![req[w].o] = @ \cup {req[w].n}]
    BY <2>1 DEF Answered, Acknowledged
  <2>5. DOMAIN NoWork = WorkFields /\ NoWork.pc = "idle"
    BY DEF NoWork, WorkFields
  <2>6. DOMAIN lock' = Order \cup {"coupon"}
    BY <2>3 DEF OrdersInv, Shapes
  <2>7. OrdersInv'
    BY <2>1, <2>2, <2>3, <2>4, <2>5, <2>6, ServeRequest DEF Answer
  <2> QED
    BY <1>1, <2>1, <2>3, <2>7, CouponStays
<1>6. ASSUME NEW o \in Order, NEW n \in Notice, Duplicate(o, n) PROVE OrdersInv' /\ CouponInv'
  <2> DEFINE r == order[o]
             q == [r EXCEPT !.dropped = @ \/ n = "finished"]
  <2>1. order' = [order EXCEPT ![o] = q]
    BY <1>6 DEF Duplicate
  <2>2. /\ answered' = [answered EXCEPT ![o] = @ \cup {n}] /\ gateway[o] # {}
        /\ UNCHANGED <<used, lock, gateway, slipped, req>>
    BY <1>6 DEF Duplicate
  <2>3. DOMAIN r = Fields /\ Whole(r) /\ r.st # "none"
    BY <1>1, <2>2 DEF OrdersInv
  <2> HIDE DEF r
  <2>4. /\ DOMAIN q = Fields /\ q.st = r.st /\ q.pays = r.pays /\ q.bal = r.bal
        /\ q.moved = r.moved /\ q.out = r.out
        /\ q.cpn = r.cpn /\ q.earned = r.earned /\ q.pts = r.pts
        /\ q.page = r.page /\ q.raced = r.raced /\ q.dropped = (r.dropped \/ n = "finished")
        /\ q.refused = r.refused /\ q.early = r.early
    BY <2>3 DEF Fields
  <2> HIDE DEF q
  <2>5. Whole(q) /\ Keeps(r, q) /\ (Holds(q) <=> Holds(r))
    BY <2>3, <2>4, MarkedWhole
  <2>6. n = "finished" => q.dropped
    BY <2>4
  <2> QED
    BY <2>1, <2>2, <2>3, <2>4, <2>5, <2>6, WriteStep DEF r
<1> QED
  BY <1>3, <1>4, <1>5, <1>6

LEMMA OneStep == OrdersInv /\ CouponInv /\ [Next]_vars => OrdersInv' /\ CouponInv'
<1> SUFFICES ASSUME OrdersInv, CouponInv, [Next]_vars PROVE OrdersInv' /\ CouponInv'
  OBVIOUS
<1>1. CASE UNCHANGED vars
  BY <1>1, QuietStep
<1>2. ASSUME NEW w \in Worker, Serve(w) PROVE OrdersInv' /\ CouponInv'
  <2>1. CASE UseCoupon(w) \/ ReadOrder(w) \/ GiveUp(w)
    BY <2>1, MoveStep
  <2>2. CASE Place(w)
    BY <2>2, PlaceStep
  <2>3. CASE FinishCancel(w)
    BY <2>3, FinishStep
  <2>4. CASE SalesPage(w)
    BY <2>4, PageStep
  <2>5. CASE FinishedConfirms(w)
    BY <2>5, ConfirmStep
  <2>6. CASE FinishedEarlier(w) \/ FinishedRefused(w) \/ NothingToDo(w)
    BY <2>6, NoticeStep
  <2>7. CASE ExpiredCancels(w)
    <3>1. req[w].pc = "act" /\ req[w].n = "expired" /\ CancelOrder(w, req[w].o)
      BY <2>7 DEF ExpiredCancels, Acts
    <3>2. req[w].o \in Order /\ order[req[w].o].st # "none"
      BY <3>1 DEF OrdersInv, Knows
    <3> QED
      BY <3>1, <3>2, CancelStep
  <2> QED
    BY <1>2, <2>1, <2>2, <2>3, <2>4, <2>5, <2>6, <2>7 DEF Serve
<1>3. ASSUME NEW w \in Worker, NEW o \in Order, Ask(w, o) PROVE OrdersInv' /\ CouponInv'
  <2>1. CASE StaffCancel(w, o)
    <3>1. req[w].pc = "idle" /\ order[o].st # "none" /\ CancelOrder(w, o)
      BY <2>1 DEF StaffCancel
    <3>2. req[w].n = "none"
      BY <3>1 DEF OrdersInv, Knows, NoWork
    <3> QED
      BY <3>1, <3>2, CancelStep
  <2>2. CASE ~StaffCancel(w, o)
    BY <1>3, <2>2, BeginStep DEF Ask
  <2> QED
    BY <2>1, <2>2
<1>4. ASSUME NEW o \in Order, NEW paid \in BOOLEAN, StaffConfirm(o, paid)
      PROVE  OrdersInv' /\ CouponInv'
  BY <1>4, ConfirmStep
<1>5. ASSUME NEW o \in Order, NEW n \in Notice, GatewayMoves(o, n) \/ Duplicate(o, n)
      PROVE  OrdersInv' /\ CouponInv'
  BY <1>5, QuietStep, NoticeStep
<1>6. ASSUME NEW o \in Order, Forget(o) PROVE OrdersInv' /\ CouponInv'
  BY <1>6, QuietStep
<1> QED
  BY <1>1, <1>2, <1>3, <1>4, <1>5, <1>6 DEF Next, Rest

LEMMA Invariant == Spec => [](OrdersInv /\ CouponInv)
<1>1. Init => OrdersInv /\ CouponInv
  BY InitOrders
<1>2. OrdersInv /\ CouponInv /\ [Next]_vars => (OrdersInv /\ CouponInv)'
  BY OneStep
<1> QED
  BY <1>1, <1>2, PTL DEF Spec

---------------------------------------------------------------------------
(***************************************************************************)
(* What the shop promises                                                  *)
(***************************************************************************)

\* Goods, charge and points of an order come and go together with its confirmation
\* (confirm_order, cancel_order), whatever notifications and pages do at the same time.
THEOREM OrdersWhole == Spec => []OrderIsWhole
<1>1. OrdersInv => OrderIsWhole
  <2>1. SUFFICES ASSUME OrdersInv, NEW o \in Order, ~order[o].raced
                 PROVE  /\ order[o].out = Stands(o)
                        /\ ~order[o].page => /\ order[o].bal = order[o].pays - Stands(o)
                                             /\ order[o].pts = Stands(o)
    BY DEF OrderIsWhole
  <2>2. Whole(order[o])
    BY <2>1 DEF OrdersInv
  <2>3. CASE order[o].st = "confirmed"
    BY <2>1, <2>2, <2>3 DEF Whole, Stands
  <2>4. CASE order[o].st # "confirmed"
    <3>1. Stands(o) = 0
      BY <2>4 DEF Stands
    <3> QED
      BY <2>1, <2>2, <2>4, <3>1 DEF Whole
  <2> QED
    BY <2>3, <2>4
<1> QED
  BY <1>1, Invariant, PTL

\* No cancellation, expiry or second notification takes back a confirmed order whose payment
\* is booked (cancel_sale refuses it).
THEOREM PaymentStands == Spec => []PaidStands
<1>1. OrdersInv => PaidStands
  BY DEF OrdersInv, PaidStands, Whole
<1> QED
  BY <1>1, Invariant, PTL

\* The coupon's used_count is the number of orders that use it, unless release_use wrote a
\* count computed from an old read.
THEOREM CouponCount == Spec => []CouponCounted
<1>1. CouponInv => CouponCounted
  BY DEF CouponInv, CouponCounted
<1> QED
  BY <1>1, Invariant, PTL

\* A finished payment answered with success is booked, or one of the three named reasons in
\* the notification's handling explains why not.
THEOREM FinishedBooked == Spec => []FinishedIsBooked
<1>1. OrdersInv => FinishedIsBooked
  BY DEF OrdersInv, Booked, FinishedIsBooked
<1> QED
  BY <1>1, Invariant, PTL
=============================================================================
