SPECIFICATION Spec
CONSTANTS
    Cheque = {c1}
    Request = {r1, r2}
    Limit = 4
    Part = {p1, p2}
    Amounts <- OneOrTwo
    Gains <- GainOrNone
INVARIANTS
    JournalFollowsCheque
    ConfirmedOnClearance
    CacheFollowsJournal
PROPERTIES
    FinalStays
