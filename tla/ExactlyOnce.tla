---------------------------- MODULE ExactlyOnce ----------------------------
(***************************************************************************)
(* What the idempotency ledger promises a client (the module docstring of  *)
(* services/idempotency_service.py): under one key the business write      *)
(* happens once, a retry with the same payload is answered from the first  *)
(* execution, a failed attempt leaves the key free, and the promise ends   *)
(* when the key expires.                                                   *)
(***************************************************************************)

CONSTANTS Request, Slot, NoSlot, None

VARIABLES asked,    \* what each request asks: [slot, payload]
          doneBy,   \* the request that executed a key in force
          answer    \* what each request was told

vars == <<asked, doneBy, answer>>

Init == /\ doneBy = [k \in Slot |-> None]
        /\ answer = [r \in Request |-> "none"]
        /\ \A r \in Request : asked[r].slot \in Slot \union {NoSlot}

Tell(r, a) == /\ answer[r] = "none"
              /\ answer' = [answer EXCEPT ![r] = a]
              /\ UNCHANGED asked

Execute(r) ==
    LET k == asked[r].slot IN
    /\ Tell(r, "executed")
    /\ \/ k = NoSlot /\ UNCHANGED doneBy
       \/ k # NoSlot /\ doneBy[k] = None /\ doneBy' = [doneBy EXCEPT ![k] = r]

Replay(r) ==
    LET k == asked[r].slot IN
    /\ k # NoSlot /\ doneBy[k] # None
    /\ asked[doneBy[k]].payload = asked[r].payload
    /\ Tell(r, "replayed")
    /\ UNCHANGED doneBy

Refuse(r) == Tell(r, "refused") /\ UNCHANGED doneBy

Forget(k) == /\ doneBy[k] # None
             /\ doneBy' = [doneBy EXCEPT ![k] = None]
             /\ UNCHANGED <<asked, answer>>

Next == \/ \E r \in Request : Execute(r) \/ Replay(r) \/ Refuse(r)
        \/ \E k \in Slot : Forget(k)

Spec == Init /\ [][Next]_vars
=============================================================================
