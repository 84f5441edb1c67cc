------------------------- MODULE IdempotencyLedger -------------------------
(***************************************************************************)
(* The POS idempotency ledger (services/idempotency_service.py): one row   *)
(* per (endpoint, client key), written in the transaction of the business  *)
(* write it protects.  PostgreSQL runs READ COMMITTED, so other requests   *)
(* see a row only once its transaction commits; until then the unique      *)
(* index makes a second insert of the same key wait.                       *)
(***************************************************************************)

CONSTANTS Request,   \* HTTP requests, one worker thread each
          Endpoint,  \* endpoint names that share the ledger
          Key,       \* keys clients send
          Payload,   \* request bodies; the SHA-256 hash is taken as injective
          None       \* "no request", "no payload"

VARIABLES ledger,    \* committed rows, by slot
          claim      \* the request whose uncommitted insert holds the slot

Slot == Endpoint \X Key

Row == [status : {"absent", "in_progress", "completed"},
        hash   : Payload \union {None},
        aged   : BOOLEAN]             \* created more than IDEMPOTENCY_TTL ago

NoRow == [status |-> "absent", hash |-> None, aged |-> FALSE]

LedgerType == /\ ledger \in [Slot -> Row]
              /\ claim \in [Slot -> Request \union {None}]

LedgerInit == /\ ledger = [k \in Slot |-> NoRow]
              /\ claim = [k \in Slot |-> None]

---------------------------------------------------------------------------
\* What begin() and replay_if_completed() find for slot k and payload h.

Present(k)     == ledger[k].status # "absent" /\ ~ledger[k].aged
Mismatch(k, h) == Present(k) /\ ledger[k].hash # h
Replays(k, h)  == Present(k) /\ ledger[k].hash = h /\ ledger[k].status = "completed"
InFlight(k, h) == Present(k) /\ ledger[k].hash = h /\ ledger[k].status = "in_progress"

---------------------------------------------------------------------------
\* The insert of begin(): it waits for another transaction's claim and is
\* refused by the unique constraint when that transaction committed the key.

\* Mutant: no unique constraint behind the lookup.
InsertNeverWaits(k) == TRUE

CanInsert(k) == claim[k] = None

Insert(k, r) == /\ claim' = [claim EXCEPT ![k] = r]
                /\ UNCHANGED ledger

\* complete() followed by the commit of the surrounding transaction.
Complete(k, h) ==
    /\ ledger' = [ledger EXCEPT ![k] =
                    [status |-> "completed", hash |-> h, aged |-> FALSE]]
    /\ claim' = [claim EXCEPT ![k] = None]

\* A transaction that ends without having completed its key: the rollback
\* removes the inserted row.
Discard(r) == /\ claim' = [k \in Slot |-> IF claim[k] = r THEN None ELSE claim[k]]
              /\ UNCHANGED ledger

\* IDEMPOTENCY_TTL passes: the row no longer counts, the next begin() deletes it.
Age(k) == /\ claim[k] = None
          /\ Present(k)
          /\ ledger' = [ledger EXCEPT ![k].aged = TRUE]
          /\ UNCHANGED claim
===========================================================================
