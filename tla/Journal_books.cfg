\* One document, the entries of clerks, two months, two requests at a time.
SPECIFICATION Spec
CONSTANTS
    Doc = {d1}
    Worker = {w1, w2}
    Amounts <- JustOne
    Limit = 4
    MaxEntry = 5
    MaxClose = 1
SYMMETRY Workers
INVARIANTS MirrorsMatch DocumentNet ClosedMonthKept YearEndZero
PROPERTIES PostedStays
