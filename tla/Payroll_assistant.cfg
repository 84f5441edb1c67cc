\* One run is enough.
SPECIFICATION PayrollSpec
CONSTANTS
    Employee <- Staff
    Salaried = {"monthly"}
    Month = {1, 2}
    Advance = {a1, a2}
    Runner = {w1, w2}
    Salary <- Pay
    Loans <- OneOrThree
    Terms <- Given
    MaxRuns = 1
SYMMETRY Alike
INVARIANT NeverPaidUnposted
