----------------------------- MODULE Transfers -----------------------------
(***************************************************************************)
(* services/transfer_service.py behind routes/transfers.py: one transfer   *)
(* document, read without a lock at the start of each request, over the    *)
(* shelves of Stock.  The document has one line; its goods move when it is *)
(* received, in the transaction that completes it.                         *)
(***************************************************************************)
EXTENDS Stock

\* One document, with one line; its two shelves change by differences only: counts and
\* direct transfers, whose effect depends on when they run, are of other warehouses.
ASSUME DocumentAssumption ==
    \A j, k \in Jobs : j.kind = "receive" =>
        /\ k.kind = "receive" => j = k
        /\ k.kind \in {"set", "transfer"} => {j.from, j.to} \intersect {k.from, k.to} = {}

VARIABLES doc,        \* committed status of the document
          docLock,    \* row lock of the document, taken by UPDATE
          delivered   \* history: how often its goods were moved

paper == <<doc, docLock, delivered>>
allVars == <<vars, paper>>

\* Any document that has not moved goods yet, or none.
Init == /\ StockInit
        /\ doc \in {"none", "draft", "approved", "in_transit"}
        /\ docLock = None
        /\ delivered = 0

---------------------------------------------------------------------------
\* The status a handler asks for, and the one it writes.
Required == [approve |-> {"draft"}, ship |-> {"approved"},
             receive |-> {"in_transit"},
             cancel  |-> Status \ {"none", "completed"}]

Written == [approve |-> "approved", ship |-> "in_transit", cancel |-> "cancelled"]

CreateTransfer(r) ==
    /\ pc[r] = "idle" /\ job[r].kind = "create" /\ doc = "none"
    /\ doc' = "draft"
    /\ End(r, "ok")
    /\ UNCHANGED <<tables, docLock, delivered>>

\* _transfer_or_404, then the guard of the handler on what it read.
ReadTransfer(r) ==
    /\ pc[r] = "idle" /\ job[r].kind \in DOMAIN Required
    /\ \/ /\ doc \notin Required[job[r].kind]
          /\ EndUnwritten(r, "rejected")
          /\ UNCHANGED paper
       \/ /\ doc \in Required[job[r].kind]
          /\ mem' = [mem EXCEPT ![r].status = doc]
          /\ Go(r, "doc")
          /\ UNCHANGED <<tables, locks, job, view, resp, paper>>

\* approve_transfer, ship_transfer, cancel_transfer: the UPDATE waits for the row
\* and names only its id; the ORM skips it where the status it read is the same.
WriteStatus(r) ==
    /\ pc[r] = "doc" /\ job[r].kind \in DOMAIN Written /\ docLock = None
    /\ doc' = IF mem[r].status = Written[job[r].kind] THEN doc
                                                     ELSE Written[job[r].kind]
    /\ End(r, "ok")
    /\ UNCHANGED <<tables, docLock, delivered>>

\* confirm_receive flushes the received quantity and the receiver: the document
\* stays locked while the goods move.
ConfirmReceive(r) ==
    /\ pc[r] = "doc" /\ job[r].kind = "receive" /\ docLock = None
    /\ docLock' = r
    /\ Begin(r)
    /\ UNCHANGED <<doc, delivered>>

\* Mutant: the document is completed although its goods did not move.
CompleteRegardless(r) ==
    /\ docLock' = IF docLock = r /\ pc'[r] = "done" THEN None ELSE docLock
    /\ IF job[r].kind = "receive" /\ pc'[r] = "done"
       THEN doc' = "completed"
       ELSE UNCHANGED doc
    /\ delivered' = IF job[r].kind = "receive" /\ resp'[r] = "ok"
                    THEN delivered + 1 ELSE delivered

\* complete_transfer: the status commits with the movements, or rolls back.
CompleteTransfer(r) ==
    /\ docLock' = IF docLock = r /\ pc'[r] = "done" THEN None ELSE docLock
    /\ IF job[r].kind = "receive" /\ resp'[r] = "ok"
       THEN doc' = "completed" /\ delivered' = delivered + 1
       ELSE UNCHANGED <<doc, delivered>>

MoveGoods(r) == (LoadProduct(r) \/ Proceed(r) \/ Fail(r)) /\ CompleteTransfer(r)

Serve(r) == CreateTransfer(r) \/ ReadTransfer(r) \/ WriteStatus(r)
            \/ ConfirmReceive(r)

Done == /\ \A r \in Request : \/ pc[r] = "done"
                              \/ pc[r] = "idle" /\ job[r].kind = "create"
        /\ UNCHANGED allVars

Next == (\E r \in Request : Serve(r) \/ MoveGoods(r)) \/ Done

Spec == Init /\ [][Next]_allVars

\* As in Stock; an UPDATE of the document is granted when its row is free.
Run(r) == /\ Active(r)
          /\ \/ WriteStatus(r) \/ ConfirmReceive(r)
             \/ /\ Proceed(r)
                /\ CompleteTransfer(r)

---------------------------------------------------------------------------
\* A completed document has moved its goods, whatever failed on the way
\* (routes/transfers.py, receive: both halves in one atomic_transaction).
CompletedDelivered == doc = "completed" => delivered > 0

\* The other requests that took from a shelf or added to it, and what that makes.
Exchanges(w) == {r \in Request : /\ job[r].kind = "exchange" /\ job[r].from = w
                                 /\ resp[r] = "ok"}
Exchanged(w) == SumFunctionOnSet([r \in Request |-> job[r].qty], Exchanges(w))

\* Besides the exchanges, the shelves show exactly the document's deliveries: no
\* delivery is lost, halved or recorded twice, whichever requests meet.
GoodsFollowDocument ==
    \A j \in Jobs : j.kind = "receive" =>
        /\ shelf[j.from] = Supply[j.from] + Exchanged(j.from) - delivered * j.qty
        /\ shelf[j.to] = Supply[j.to] + Exchanged(j.to) + delivered * j.qty
=============================================================================
