--------------------------- MODULE MCStoreOrders ---------------------------
\* Two orders that share a coupon, two requests at a time.
EXTENDS StoreOrders, TLC

Workers == Permutations(Worker)
Orders  == Permutations(Order)
Both    == Workers \union Orders
=============================================================================
