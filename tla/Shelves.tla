------------------------------ MODULE Shelves ------------------------------
(***************************************************************************)
(* What the stock service promises its callers, with no locks, retries or  *)
(* transactions: every request that is answered "done" has changed the     *)
(* shelves exactly once, as a whole and as it asked; every other request   *)
(* has not changed them at all; and no request takes a shelf below zero    *)
(* where the warehouse does not allow it.                                  *)
(***************************************************************************)
EXTENDS Integers

CONSTANTS Request,
          Warehouse,
          Overdraft    \* warehouses that allow negative inventory

VARIABLES
  stock,   \* units on the shelf of each warehouse
  asked,   \* [from, to, qty, how]: a move, a change by qty, or a recount
  outcome  \* per request: pending, done or refused

vars == <<stock, asked, outcome>>

Init == outcome = [r \in Request |-> "pending"]

\* Goods go from one shelf to another; a shelf changes by a signed amount; a
\* shelf is corrected by whatever the request found missing.
Move(job) == stock' = [stock EXCEPT ![job.from] = @ - job.qty,
                                    ![job.to] = @ + job.qty]

Exchange(job) == stock' = [stock EXCEPT ![job.from] = @ + job.qty]

Recount(job) == stock' = [stock EXCEPT ![job.from] = stock'[job.from]]

Untouched(job) == UNCHANGED stock

Do(r) == /\ outcome[r] = "pending"
         /\ outcome' = [outcome EXCEPT ![r] = "done"]
         /\ \/ asked[r].how = "move" /\ Move(asked[r])
            \/ asked[r].how = "exchange" /\ Exchange(asked[r])
            \/ asked[r].how = "recount" /\ Recount(asked[r])
            \/ asked[r].how = "nothing" /\ Untouched(asked[r])
         /\ \A w \in Warehouse \ Overdraft :
                stock'[w] < stock[w] => stock'[w] >= 0
         /\ UNCHANGED asked

Refuse(r) == /\ outcome[r] = "pending"
             /\ outcome' = [outcome EXCEPT ![r] = "refused"]
             /\ UNCHANGED <<stock, asked>>

Next == \E r \in Request : Do(r) \/ Refuse(r)

Spec == Init /\ [][Next]_vars
=============================================================================
