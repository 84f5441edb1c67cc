-------------------------- MODULE SupplierAccount --------------------------
(***************************************************************************)
(* The account of one supplier: the totals kept in its row                 *)
(* (models/supplier.py: total_purchases_aed, total_paid_aed) under the     *)
(* purchases of services/purchase_service.py and routes/purchases.py and   *)
(* the payments of routes/payments.py and services/payment_service.py.     *)
(*                                                                         *)
(* The accumulators of the supplier lock the row, read it again and hold   *)
(* it to the commit, so adding to a total is one step.  cancel_purchase    *)
(* goes past them: it reads the total and writes it back reduced.  Whether *)
(* a document may be acted on is always decided from an unlocked read.     *)
(*                                                                         *)
(* Every purchase is for Amount; a return gives one unit back.             *)
(***************************************************************************)
EXTENDS Integers, FiniteSets, Functions

CONSTANTS Purchase, Payment, Worker,
          Amount,      \* of a purchase
          MaxRequests  \* bound on the requests of a behaviour

ASSUME SupplierAssumption == /\ Amount \in Nat \ {0} /\ MaxRequests \in Nat
                             /\ IsFiniteSet(Purchase) /\ IsFiniteSet(Payment)
                             /\ "none" \notin Purchase

VARIABLES buy,       \* the purchases
          pay,       \* the payments
          bought,    \* total_purchases_aed
          paid,      \* total_paid_aed
          work,      \* what each worker serves
          asked,     \* requests begun, at most MaxRequests
          lost,      \* history: a total was written over a newer one
          overtaken  \* history: a request acted on a document that had changed since it
                     \* was read

account == <<buy, pay, bought, paid, work, asked, lost, overtaken>>

NoPurchase == [st |-> "none", quick |-> FALSE, stocked |-> FALSE, back |-> 0]
NoPayment  == [st |-> "none", for |-> "none", amt |-> 0, in |-> FALSE, cheque |-> FALSE]
NoWork     == [pc |-> "idle", on |-> "none", amt |-> 0, read |-> 0]

SupplierInit == /\ buy    = [p \in Purchase |-> NoPurchase]
                /\ pay    = [q \in Payment |-> NoPayment]
                /\ bought = 0 /\ paid = 0 /\ asked = 0
                /\ work   = [w \in Worker |-> NoWork]
                /\ lost   = FALSE /\ overtaken = FALSE

---------------------------------------------------------------------------
Counted == {q \in Payment : pay[q].st = "paid"}

Total(S) == SumFunctionOnSet([q \in Payment |-> pay[q].amt], S)

\* get_confirmed_purchase_paid_total
DirectPaid(p) == Total({q \in Counted : pay[q].for = p})

\* get_paid_amount: what was paid for the purchase itself or, failing that, what the
\* payments for no purchase leave for it once every other purchase is served.
PaidAmount(p) ==
    LET loose  == Total({q \in Counted : pay[q].for = "none" /\ ~pay[q].in})
        others == Amount * Cardinality({o \in Purchase \ {p} :
                                           buy[o].st \in {"confirmed", "cancelled"}})
    IN  IF DirectPaid(p) > 0 THEN DirectPaid(p)
        ELSE IF loose > others THEN loose - others ELSE 0

\* Mutant: a reduction is an addition.
Added(t, x) == t + x

\* max(total - x, 0)
Taken(t, x) == IF t > x THEN t - x ELSE 0

Starts(w, r) == /\ work[w].pc = "idle" /\ asked < MaxRequests
                /\ asked' = asked + 1
                /\ work' = [work EXCEPT ![w] = r]
                /\ UNCHANGED <<buy, pay, bought, paid, lost, overtaken>>

Asks == asked < MaxRequests /\ asked' = asked + 1 /\ UNCHANGED work

Answered(w) == work' = [work EXCEPT ![w] = NoWork] /\ UNCHANGED asked

GiveUp(w) == /\ work[w].pc # "idle" /\ Answered(w)
             /\ UNCHANGED <<buy, pay, bought, paid, lost, overtaken>>

---------------------------------------------------------------------------
\* Purchases.

\* create_purchase ends in apply_purchase.
CreatePurchase(p) ==
    /\ buy[p].st = "none" /\ Asks
    /\ buy' = [buy EXCEPT ![p] = [NoPurchase EXCEPT !.st = "confirmed", !.stocked = TRUE]]
    /\ bought' = bought + Amount
    /\ UNCHANGED <<pay, paid, lost, overtaken>>

\* create_quick_purchase does not; without an active warehouse it moves no stock either.
QuickPurchase(p, stocked) ==
    /\ buy[p].st = "none" /\ Asks
    /\ buy' = [buy EXCEPT ![p] = [NoPurchase EXCEPT !.st = "confirmed", !.quick = TRUE,
                                                    !.stocked = stocked]]
    /\ UNCHANGED <<pay, bought, paid, lost, overtaken>>

\* cancel_purchase: refused when cancelled or paid for; the total is read without its lock.
BeginCancel(w, p) ==
    /\ buy[p].st = "confirmed" /\ DirectPaid(p) = 0
    /\ Starts(w, [NoWork EXCEPT !.pc = "cancel", !.on = p, !.read = bought])

CancelPurchase(w) ==
    LET p == work[w].on IN
    /\ work[w].pc = "cancel" /\ buy[p].st # "deleted"
    /\ bought' = Taken(work[w].read, Amount)
    /\ buy' = [buy EXCEPT ![p].st = "cancelled"]
    /\ lost' = (lost \/ bought # work[w].read)
    /\ overtaken' = (overtaken \/ buy[p].st = "cancelled" \/ DirectPaid(p) > 0)
    /\ Answered(w)
    /\ UNCHANGED <<pay, paid>>

BeginReturn(w, p) == /\ buy[p].st = "confirmed"
                     /\ Starts(w, [NoWork EXCEPT !.pc = "return", !.on = p])

\* create_purchase_return compares the quantity with the stock, not with the purchase.
ReturnGoods(w) ==
    LET p == work[w].on IN
    /\ work[w].pc = "return" /\ buy[p].st # "deleted"
    /\ buy' = [buy EXCEPT ![p].back = @ + 1]
    /\ bought' = Taken(bought, 1)
    /\ overtaken' = (overtaken \/ buy[p].st = "cancelled")
    /\ Answered(w)
    /\ UNCHANGED <<pay, paid, lost>>

\* routes/purchases.py delete: a purchase that is paid, by cheque too, or moved stock is
\* archived, which changes nothing here.
BeginDeletePurchase(w, p) ==
    /\ buy[p].st \in {"confirmed", "cancelled"} /\ ~buy[p].stocked
    /\ PaidAmount(p) = 0 /\ \A q \in Payment : pay[q].for = p => ~pay[q].cheque
    /\ Starts(w, [NoWork EXCEPT !.pc = "drop", !.on = p])

\* The page takes the amount off the paid total, and so does delete_purchase.
DeletePurchase(w) ==
    LET p == work[w].on IN
    /\ work[w].pc = "drop" /\ buy[p].back = 0 /\ \A q \in Payment : pay[q].for # p
    /\ buy' = [buy EXCEPT ![p].st = "deleted"]
    /\ paid' = paid - 2 * Amount
    /\ Answered(w)
    /\ UNCHANGED <<pay, bought, lost, overtaken>>

---------------------------------------------------------------------------
\* Payments.

\* Mutant: what was paid before is not taken into account.
Whole(p) == Amount

\* create_payment: at most the balance of the purchase, from an unlocked read; whether the
\* purchase was cancelled is not asked.
Room(p) == Amount - DirectPaid(p)

BeginPay(w, p, amt) ==
    /\ buy[p].st \in {"confirmed", "cancelled"} /\ amt <= Room(p)
    /\ Starts(w, [pc |-> "pay", on |-> p, amt |-> amt, read |-> DirectPaid(p)])

Written(q, for, amt, in, cheque) ==
    /\ pay[q].st = "none"
    /\ pay' = [pay EXCEPT ![q] = [st |-> IF cheque THEN "waiting" ELSE "paid", for |-> for,
                                  amt |-> amt, in |-> in, cheque |-> cheque]]

\* A cheque counts as paid to the supplier when it is issued, for a purchase when it clears.
PayPurchase(w, q, cheque) ==
    LET p == work[w].on IN
    /\ work[w].pc = "pay" /\ buy[p].st # "deleted"
    /\ Written(q, p, work[w].amt, FALSE, cheque)
    /\ paid' = paid + work[w].amt
    /\ overtaken' = (overtaken \/ DirectPaid(p) # work[w].read)
    /\ Answered(w)
    /\ UNCHANGED <<buy, bought, lost>>

\* PaymentService.create_payment: a voucher for no purchase.
PayVoucher(q, amt, cheque) ==
    /\ Asks /\ Written(q, "none", amt, FALSE, cheque)
    /\ paid' = paid + amt
    /\ UNCHANGED <<buy, bought, lost, overtaken>>

\* create_supplier_refund
RefundFrom(q, amt) ==
    /\ Asks /\ Written(q, "none", amt, TRUE, FALSE)
    /\ paid' = paid - amt
    /\ UNCHANGED <<buy, bought, lost, overtaken>>

ClearPayment(q) == /\ pay[q].st = "waiting" /\ Asks
                  /\ pay' = [pay EXCEPT ![q].st = "paid"]
                  /\ UNCHANGED <<buy, bought, paid, lost, overtaken>>

BouncePayment(q) == /\ pay[q].st = "waiting" /\ Asks
                   /\ pay' = [pay EXCEPT ![q].st = "rejected"]
                   /\ paid' = paid - pay[q].amt
                   /\ UNCHANGED <<buy, bought, lost, overtaken>>

\* delete_payment: one tied to a purchase or a cheque is archived instead.
BeginDeletePayment(w, q) ==
    /\ pay[q].st = "paid" /\ pay[q].for = "none" /\ ~pay[q].cheque
    /\ Starts(w, [NoWork EXCEPT !.pc = "unpay", !.on = q])

\* Mutant: the total is left alone.
StillPaid(x) == paid

Unpaid(x) == paid - x

\* Deleting a row that is gone is no error, and a refund is taken off as well.
DeletePayment(w) ==
    LET q == work[w].on IN
    /\ work[w].pc = "unpay"
    /\ pay' = [pay EXCEPT ![q].st = "deleted"]
    /\ paid' = Unpaid(pay[q].amt)
    /\ overtaken' = (overtaken \/ pay[q].st = "deleted")
    /\ Answered(w)
    /\ UNCHANGED <<buy, bought, lost>>

---------------------------------------------------------------------------
Work(w) == \/ CancelPurchase(w) \/ ReturnGoods(w) \/ DeletePurchase(w) \/ DeletePayment(w)
           \/ GiveUp(w)
           \/ \E q \in Payment, cheque \in BOOLEAN : PayPurchase(w, q, cheque)

Buying(p) == \/ CreatePurchase(p)
             \/ \E stocked \in BOOLEAN : QuickPurchase(p, stocked)
             \/ \E w \in Worker : \/ BeginCancel(w, p) \/ BeginReturn(w, p)
                                  \/ BeginDeletePurchase(w, p)
                                  \/ \E amt \in 1 .. Amount : BeginPay(w, p, amt)

Paying(q) == \/ \E amt \in 1 .. Amount : \/ RefundFrom(q, amt)
                                         \/ \E cheque \in BOOLEAN : PayVoucher(q, amt, cheque)
             \/ ClearPayment(q) \/ BouncePayment(q)
             \/ \E w \in Worker : BeginDeletePayment(w, q)

\* Nobody need ask for anything.
Rest == (\A w \in Worker : work[w].pc = "idle") /\ UNCHANGED account

SupplierNext == \/ \E w \in Worker : Work(w)
                \/ \E p \in Purchase : Buying(p)
                \/ \E q \in Payment : Paying(q)
                \/ Rest

SupplierSpec == SupplierInit /\ [][SupplierNext]_account

---------------------------------------------------------------------------
\* A purchase the total follows: one that the wizard created was never added to it, so its
\* return and its cancellation take what is not there; a cancellation takes the whole
\* amount, what was returned before included; a return may be larger than its purchase.
Regular(p) == IF buy[p].quick THEN buy[p].st = "confirmed" /\ buy[p].back = 0
              ELSE buy[p].back <= (IF buy[p].st = "cancelled" THEN 0 ELSE Amount)

Standing(p) == IF buy[p].st = "confirmed" /\ ~buy[p].quick THEN Amount - buy[p].back ELSE 0

AccountOf(S) == SumFunctionOnSet([p \in Purchase |-> Standing(p)], S)

\* The purchase total of the supplier is what its purchases come to less their returns, as
\* long as all are regular, none was cancelled twice at once and no cancellation wrote over
\* a newer total.
BoughtMatches ==
    ~lost /\ ~overtaken /\ (\A p \in Purchase : Regular(p)) => bought = AccountOf(Purchase)

Payouts == {q \in Payment : pay[q].st \in {"paid", "waiting"} /\ ~pay[q].in}
Refunds == {q \in Payment : pay[q].st = "paid" /\ pay[q].in}

\* The paid total is what stands as paid out, cheques from their issue, less what came
\* back, unless a payment was deleted twice at once, a refund was deleted or a purchase was.
PaidMatches ==
    /\ ~overtaken
    /\ \A q \in Payment : pay[q].st = "deleted" => ~pay[q].in
    /\ \A p \in Purchase : buy[p].st # "deleted"
    => paid = Total(Payouts) - Total(Refunds)

\* A purchase is not paid for twice, unless two payments were admitted at once or one of
\* them waits, as a cheque, without counting.
NotOverpaid ==
    \A p \in Purchase :
        ~overtaken /\ (\A q \in Payment : pay[q].for = p => ~pay[q].cheque)
            => DirectPaid(p) <= Amount
=============================================================================
