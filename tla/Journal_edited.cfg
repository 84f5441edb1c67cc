\* An expense edited and then cancelled, by one worker.
SPECIFICATION Spec
CONSTANTS
    Doc = {d1}
    Worker = {w1}
    Amounts <- OneOrThree
    Limit = 3
    MaxEntry = 5
    MaxClose = 0
INVARIANTS CancelledExpenseGone
