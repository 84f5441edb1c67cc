\* An employee paid by the month and one by the day, two months, two advances, three runs by
\* two workers.
SPECIFICATION PayrollSpec
CONSTANTS
    Employee <- Staff
    Salaried = {"monthly"}
    Month = {1, 2}
    Advance = {a1, a2}
    Runner = {w1, w2}
    Salary <- Pay
    Loans <- OneOrThree
    Terms <- Given
    MaxRuns = 3
SYMMETRY Alike
INVARIANTS AdvancesCollected PaidOncePerMonth
PROPERTY BranchIsWhole
