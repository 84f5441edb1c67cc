\* Two requests at a time over one turn of the year; the journal padding holds up to 2.
SPECIFICATION FairSpec
CONSTANTS
    Worker = {w1, w2}
    Plans <- AllPlans
    Limit = 3
    MaxYear = 2
    Largest = 2
INVARIANTS NextIsFree CollisionsExplained NoGaps
PROPERTIES EveryRequestAnswered
