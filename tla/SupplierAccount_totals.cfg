\* Two purchases and two payments, seven requests from two workers.
SPECIFICATION SupplierSpec
CONSTANTS
    Purchase = {p1, p2}
    Payment = {q1, q2}
    Worker = {w1, w2}
    Amount = 2
    MaxRequests = 7
SYMMETRY Alike
INVARIANTS BoughtMatches PaidMatches NotOverpaid
