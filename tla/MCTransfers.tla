---------------------------- MODULE MCTransfers ----------------------------
\* One transfer document of two units between two of three warehouses.
EXTENDS Transfers

CONSTANTS q1, q2, q3, north, south, west

Doc(kind) == [kind |-> kind, from |-> north, to |-> south, qty |-> 2]

\* Enough for two deliveries and a third that is refused; no row elsewhere.
NorthOnly == [w \in Warehouse |-> IF w = north THEN 5 ELSE 0]

\* Every operation on the document; meanwhile goods leave the source, and a count of
\* the third warehouse wants the same product row.
DocJobs == {Doc(k) : k \in {"create", "approve", "ship", "receive", "cancel"}}
           \union {[kind |-> "exchange", from |-> north, to |-> north, qty |-> -2],
                   [kind |-> "set", from |-> west, to |-> west, qty |-> 1]}
=============================================================================
