---------------------------- MODULE StoreOrders ----------------------------
(***************************************************************************)
(* Orders of the online shop of one tenant: services/store_order_service.py*)
(* (confirm, cancel), store_checkout_service.py and                        *)
(* store_coupon_service.py (placing an order with a coupon), the payment   *)
(* gateway's notifications (webhook_service.py behind the duplicate filter *)
(* of routes/payment_vault.py), the platform fee, the loyalty points, and  *)
(* the cancel page of ordinary sales, which takes shop orders too.         *)
(*                                                                         *)
(* Confirm and cancel lock the order's row and read it again, so each is   *)
(* one step; a notification and the sales page act on an earlier read.     *)
(* The gateway repeats a notification until it is answered with success,   *)
(* and may repeat it afterwards; its statuses share one payment id.        *)
(***************************************************************************)
EXTENDS Integers, FiniteSets

CONSTANTS Order,   \* orders
          Worker,  \* requests served at the same time
          Limit,   \* bound on the requests of a behaviour
          MaxUses  \* how often the coupon may be used

Nobody == "nobody"
ASSUME StoreAssumption == Limit \in Nat /\ MaxUses \in Nat /\ Nobody \notin Worker

Keys   == {"gateway", "payment", "sale"}  \* what the idempotency key of a fee ends in
Notice == {"waiting", "finished", "expired"}

VARIABLES order,    \* the orders
          used,     \* used_count of the coupon, as committed
          lock,     \* who holds the row of an order, or the coupon's
          gateway,  \* per order: the notices the gateway has sent
          answered, \* per order: those answered with success
          seen,     \* payment ids in the cache of the duplicate filter
          slipped,  \* a release of the coupon was computed from an old count
          req,      \* what each worker serves
          served    \* requests begun, at most Limit

vars == <<order, used, lock, gateway, answered, seen, slipped, req, served>>

NoOrder == [st |-> "none", cpn |-> FALSE, moved |-> FALSE, out |-> 0, bal |-> 0, pays |-> 0,
            fees |-> {}, earned |-> FALSE, pts |-> 0, page |-> FALSE, raced |-> FALSE,
            dropped |-> FALSE, refused |-> FALSE, early |-> FALSE]
NoWork  == [pc |-> "idle", o |-> "none", n |-> "none", cpn |-> FALSE, online |-> FALSE,
            st |-> "none", moved |-> FALSE, rd |-> 0]

Init == /\ order    = [o \in Order |-> NoOrder]
        /\ used     = 0
        /\ lock     = [x \in Order \union {"coupon"} |-> Nobody]
        /\ gateway  = [o \in Order |-> {}]
        /\ answered = [o \in Order |-> {}]
        /\ seen     = {}
        /\ slipped  = FALSE
        /\ req      = [w \in Worker |-> NoWork]
        /\ served   = 0

---------------------------------------------------------------------------
\* What confirming and cancelling do to an order; its row is locked and just read.

\* confirm_order: neither cancelled nor already confirmed and fulfilled.
MayConfirm(r) == r.st # "cancelled" /\ ~(r.st = "confirmed" /\ r.moved)

\* fulfill_sale, unless stock movements of the sale are found; the customer owes the amount.
Fulfilled(r) == IF r.moved THEN r ELSE [r EXCEPT !.moved = TRUE, !.out = @ + 1, !.bal = @ - 1]

\* Mutant: the payment of a notification is not booked.
NotBooked(r, paid) == r

\* create_payment_for_sale, unless the order is paid.
Paid(r, paid) == IF paid /\ r.pays = 0 THEN [r EXCEPT !.pays = 1, !.bal = @ + 1] ELSE r

\* record_store_online_fee for the key of the caller: once per key.
Charged(r, key) == [r EXCEPT !.fees = @ \union {key}]

\* _award_loyalty_points: once per order.
Awarded(r) == IF r.earned THEN r ELSE [r EXCEPT !.earned = TRUE, !.pts = @ + 1]

\* The fee is left out when its recording fails: the error is logged.
Confirmed(r, paid, fee) ==
    LET c == [Paid(Fulfilled(r), paid) EXCEPT !.st = "confirmed"]
        k == IF c.pays > r.pays THEN "payment" ELSE "sale"
    IN  Awarded(IF fee THEN Charged(c, k) ELSE c)

\* Mutant: a paid order is cancelled like any other.
CancelPaid(r) == r.st # "cancelled"

\* cancel_sale refuses a paid order; a confirmed or fulfilled order goes through it.
MayCancel(r) == r.st # "cancelled" /\ ~(r.pays > 0 /\ (r.st = "confirmed" \/ r.moved))

\* Mutant: the goods stay out.
GoodsLost(r, moved) == r

\* cancel_sale: the customer is credited, and the goods of a sale with movements come back.
GivenBack(r, moved) == [r EXCEPT !.bal = @ + 1, !.out = IF moved THEN @ - 1 ELSE @]

\* _reverse_loyalty_points
PointsBack(r) == IF r.earned THEN [r EXCEPT !.pts = @ - 1] ELSE r

\* A pending order is only marked.
Cancelled(r) ==
    LET c == IF r.st = "confirmed" \/ r.moved THEN GivenBack(r, r.moved) ELSE r
    IN  [PointsBack(c) EXCEPT !.st = "cancelled"]

---------------------------------------------------------------------------
\* Placing an order.

Starts(w, r) == /\ req[w].pc = "idle" /\ served < Limit
                /\ served' = served + 1
                /\ req' = [req EXCEPT ![w] = r]

Answer(w) == req' = [req EXCEPT ![w] = NoWork]

\* validate_for_checkout reads the coupon without a lock.
BeginCheckout(w, o, cpn, online) ==
    /\ order[o].st = "none" /\ \A u \in Worker : req[u].o # o
    /\ cpn => used < MaxUses
    /\ Starts(w, [NoWork EXCEPT !.pc = IF cpn THEN "coupon" ELSE "place", !.o = o, !.cpn = cpn,
                                !.online = online])
    /\ UNCHANGED <<order, used, lock, gateway, answered, seen, slipped>>

\* mark_used: one conditional UPDATE, its row locked until the commit.
UsesLeft == used < MaxUses

UseCoupon(w) == /\ req[w].pc = "coupon" /\ lock["coupon"] = Nobody
                /\ IF UsesLeft
                     THEN /\ lock' = [lock EXCEPT !["coupon"] = w]
                          /\ req' = [req EXCEPT ![w].pc = "place"]
                     ELSE Answer(w) /\ UNCHANGED lock
                /\ UNCHANGED <<order, used, gateway, answered, seen, slipped, served>>

Freed(w) == lock' = [x \in DOMAIN lock |-> IF lock[x] = w THEN Nobody ELSE lock[x]]

\* create_web_order commits; the gateway is asked afterwards and may refuse.
Place(w) ==
    LET o == req[w].o IN
    /\ req[w].pc = "place"
    /\ order' = [order EXCEPT ![o].st = "pending", ![o].cpn = req[w].cpn]
    /\ used' = IF req[w].cpn THEN used + 1 ELSE used
    /\ \E sent \in {{}} \union IF req[w].online THEN {{"waiting"}} ELSE {} :
          gateway' = [gateway EXCEPT ![o] = sent]
    /\ Freed(w) /\ Answer(w)
    /\ UNCHANGED <<answered, seen, slipped, served>>

\* An exception rolls the request back.
GiveUp(w) == /\ req[w].pc # "idle"
             /\ Freed(w) /\ Answer(w)
             /\ UNCHANGED <<order, used, gateway, answered, seen, slipped, served>>

---------------------------------------------------------------------------
\* Staff.

\* routes/store.py admin_order_confirm; goods short of stock are refused.
StaffConfirm(o, paid) ==
    /\ served < Limit /\ lock[o] = Nobody
    /\ order[o].st # "none" /\ MayConfirm(order[o])
    /\ served' = served + 1
    /\ \E fee \in BOOLEAN : order' = [order EXCEPT ![o] = Confirmed(@, paid, fee)]
    /\ UNCHANGED <<used, lock, gateway, answered, seen, slipped, req>>

\* cancel_order from the order page or a notification: the order is locked; with a coupon
\* its count is read, and written back less one after a wait for the coupon's row.
CancelOrder(w, o) ==
    /\ lock[o] = Nobody /\ MayCancel(order[o])
    /\ lock' = [lock EXCEPT ![o] = w]
    /\ req' = [req EXCEPT ![w].pc = "release", ![w].o = o, ![w].rd = used]
    /\ UNCHANGED <<order, used, gateway, answered, seen, slipped>>

StaffCancel(w, o) == /\ req[w].pc = "idle" /\ served < Limit /\ order[o].st # "none"
                     /\ served' = served + 1
                     /\ CancelOrder(w, o)

Acknowledged(w) == answered' = IF req[w].n = "none" THEN answered
                               ELSE [answered EXCEPT ![req[w].o] = @ \union {req[w].n}]

\* Mutant: a release counts upwards.
ReleaseUp(rd) == rd + 1

\* release_use: the count read, less one.
Release(rd) == IF rd > 0 THEN rd - 1 ELSE rd

FinishCancel(w) ==
    LET o == req[w].o IN
    /\ req[w].pc = "release"
    /\ order[o].cpn => lock["coupon"] = Nobody
    /\ order' = [order EXCEPT ![o] = Cancelled(@)]
    /\ used' = IF order[o].cpn THEN Release(req[w].rd) ELSE used
    /\ slipped' = (slipped \/ (order[o].cpn /\ used # req[w].rd))
    /\ Acknowledged(w)
    /\ Freed(w) /\ Answer(w)
    /\ UNCHANGED <<gateway, seen, served>>

\* routes/sales.py cancel: the sale is read, then cancelled as any sale is.
BeginSalesPage(w, o) ==
    /\ order[o].st # "none"
    /\ Starts(w, [NoWork EXCEPT !.pc = "page", !.o = o, !.st = order[o].st, !.moved = order[o].moved])
    /\ UNCHANGED <<order, used, lock, gateway, answered, seen, slipped>>

\* Neither the points nor the coupon are looked at.
PageCancelled(r, st, moved) ==
    [GivenBack(r, moved) EXCEPT !.st = "cancelled",
                                !.page = @ \/ r.st # "cancelled",
                                !.raced = @ \/ r.st # st]

\* Payments and movements are searched for at some moment before the update of the sale
\* waits for its row.
SalesPage(w) ==
    LET o == req[w].o IN
    /\ req[w].pc = "page" /\ lock[o] = Nobody
    /\ req[w].st # "cancelled" /\ (order[o].pays = 0 \/ order[o].st # req[w].st)
    /\ \E moved \in {req[w].moved, order[o].moved} :
          order' = [order EXCEPT ![o] = PageCancelled(@, req[w].st, moved)]
    /\ Answer(w)
    /\ UNCHANGED <<used, lock, gateway, answered, seen, slipped, served>>

---------------------------------------------------------------------------
\* The gateway and its notifications.

\* A payment ends once, or is paid after all though it had expired.
GatewayMoves(o, n) ==
    /\ "waiting" \in gateway[o] /\ n \in {"finished", "expired"} \ gateway[o]
    /\ "finished" \notin gateway[o]
    /\ gateway' = [gateway EXCEPT ![o] = @ \union {n}]
    /\ UNCHANGED <<order, used, lock, answered, seen, slipped, req, served>>

\* _is_duplicate_webhook looks the payment id up, whatever the status is.
Arrive(w, o, n) ==
    /\ n \in gateway[o]
    /\ o \notin seen
    /\ Starts(w, [NoWork EXCEPT !.pc = "fresh", !.o = o, !.n = n])
    /\ UNCHANGED <<order, used, lock, gateway, answered, seen, slipped>>

\* A payment id in the cache: the answer is success, and nothing is done.
Duplicate(o, n) ==
    /\ n \in gateway[o] /\ o \in seen /\ n \notin answered[o]
    /\ answered' = [answered EXCEPT ![o] = @ \union {n}]
    /\ order' = [order EXCEPT ![o].dropped = @ \/ n = "finished"]
    /\ UNCHANGED <<used, lock, gateway, seen, slipped, req, served>>

\* The id is put into the cache before anything is done; the sale is read without a lock.
ReadOrder(w) ==
    LET o == req[w].o IN
    /\ req[w].pc = "fresh"
    /\ seen' = seen \union {o}
    /\ req' = [req EXCEPT ![w].pc = "act", ![w].st = order[o].st]
    /\ UNCHANGED <<order, used, lock, gateway, answered, slipped, served>>

Acts(w, n) == req[w].pc = "act" /\ req[w].n = n

Answered(w) == /\ Acknowledged(w) /\ Answer(w)
            /\ UNCHANGED <<used, lock, gateway, seen, slipped, served>>

\* finished, read as confirmed: only a fee, under the gateway's reference.
FinishedEarlier(w) ==
    LET o == req[w].o IN
    /\ Acts(w, "finished") /\ req[w].st = "confirmed"
    /\ order' = [order EXCEPT ![o] = [Charged(@, "gateway") EXCEPT !.early = TRUE]]
    /\ Answered(w)

\* finished otherwise: confirm_order with the payment.
FinishedConfirms(w) ==
    LET o == req[w].o IN
    /\ Acts(w, "finished") /\ req[w].st # "confirmed" /\ lock[o] = Nobody
    /\ MayConfirm(order[o])
    /\ \E fee \in BOOLEAN : order' = [order EXCEPT ![o] = Confirmed(@, TRUE, fee)]
    /\ Answered(w)

\* ... whose refusal, also for want of stock, is logged and answered with success.
FinishedRefused(w) ==
    LET o == req[w].o IN
    /\ Acts(w, "finished") /\ req[w].st # "confirmed" /\ lock[o] = Nobody
    /\ order' = [order EXCEPT ![o].refused = TRUE]
    /\ Answered(w)

\* expired: an order read as pending is cancelled, whatever it has become since.
ExpiredCancels(w) == /\ Acts(w, "expired") /\ req[w].st = "pending"
                     /\ CancelOrder(w, req[w].o)
                     /\ UNCHANGED served

\* An order not pending is left alone; so is every order for another status.
NothingToDo(w) == /\ Acts(w, "waiting") \/ (Acts(w, "expired") /\ req[w].st # "pending")
                  /\ UNCHANGED order
                  /\ Answered(w)

\* Entries of the cache live a day.
Forget(o) == /\ o \in seen
             /\ seen' = seen \ {o}
             /\ UNCHANGED <<order, used, lock, gateway, answered, slipped, req, served>>

---------------------------------------------------------------------------
Ask(w, o) == \/ \E cpn, online \in BOOLEAN : BeginCheckout(w, o, cpn, online)
             \/ StaffCancel(w, o)
             \/ BeginSalesPage(w, o)
             \/ \E n \in Notice : Arrive(w, o, n)

Serve(w) == \/ UseCoupon(w) \/ Place(w) \/ FinishCancel(w) \/ SalesPage(w)
            \/ ReadOrder(w) \/ FinishedEarlier(w) \/ FinishedConfirms(w) \/ FinishedRefused(w)
            \/ ExpiredCancels(w) \/ NothingToDo(w) \/ GiveUp(w)

\* Nobody need ask for anything.
Rest == (\A w \in Worker : req[w].pc = "idle") /\ UNCHANGED vars

Next == \/ \E w \in Worker : Serve(w) \/ \E o \in Order : Ask(w, o)
        \/ \E o \in Order : \/ \E paid \in BOOLEAN : StaffConfirm(o, paid)
                            \/ \E n \in Notice : GatewayMoves(o, n) \/ Duplicate(o, n)
                            \/ Forget(o)
        \/ Rest

Spec == Init /\ [][Next]_vars

---------------------------------------------------------------------------
Stands(o) == IF order[o].st = "confirmed" THEN 1 ELSE 0

\* While an order stands confirmed its goods are out, its customer is charged and its
\* points are given, each once; otherwise none is. Two cancellations can overlap only
\* when one comes from the sales page, which acts on an old read and knows no points.
OrderIsWhole ==
    \A o \in Order : ~order[o].raced =>
        /\ order[o].out = Stands(o)
        /\ ~order[o].page => order[o].bal = order[o].pays - Stands(o) /\ order[o].pts = Stands(o)

\* An order with a booked payment stays confirmed, whatever expires or is cancelled.
PaidStands == \A o \in Order : order[o].pays = 1 /\ ~order[o].raced => order[o].st = "confirmed"

Holders == {o \in Order : order[o].cpn /\ (order[o].st # "cancelled" \/ order[o].page)}

\* The coupon's count is the number of orders that use it, unless a release was computed
\* from a count that a checkout or another release had changed since.
CouponCounted == ~slipped => used = Cardinality(Holders)

\* A payment the gateway finished and was told so is booked, unless the notification was
\* taken for a duplicate of an earlier status, its order could no longer be confirmed, or
\* its order had been confirmed before by somebody else.
FinishedIsBooked ==
    \A o \in Order : "finished" \in answered[o] =>
        order[o].pays = 1 \/ order[o].dropped \/ order[o].refused \/ order[o].early
=============================================================================
