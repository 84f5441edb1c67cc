------------------------------ MODULE MCStock ------------------------------
\* Small instances of Stock for TLC: two or three warehouses, three requests.
EXTENDS Stock

CONSTANTS q1, q2, q3, north, south, web

Exchange(w, n) == [kind |-> "exchange", from |-> w, to |-> w, qty |-> n]
Set(w, n)      == [kind |-> "set", from |-> w, to |-> w, qty |-> n]
Transfer(v, w, n) == [kind |-> "transfer", from |-> v, to |-> w, qty |-> n]
ReconcileJob   == [kind |-> "reconcile", from |-> north, to |-> north, qty |-> 0]

\* Three units in the north, one in the south, no row yet on the web shelf.
ThreeShelves == [w \in Warehouse |-> CASE w = north -> 3
                                       [] w = south -> 1
                                       [] OTHER -> 0]

\* Every way two movements can meet: on one shelf, across two shelves in both
\* directions, at a shelf without a row, on the edge of what is available.
MixedJobs == {Exchange(north, -2), Exchange(south, 1), Exchange(web, 1),
              Set(north, 2), Transfer(north, south, 2), Transfer(south, north, 1),
              Transfer(north, web, 2), ReconcileJob}

=============================================================================
