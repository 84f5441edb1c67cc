----------------------------- MODULE MCNumbers -----------------------------
\* Three kinds of request, two of them at a time, over the turn of a year.
EXTENDS Numbers, TLC

Workers == Permutations(Worker)

AllPlans == {SaleWithPayment, PaymentOut, PlainEntry}
=============================================================================
