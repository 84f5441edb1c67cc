SPECIFICATION FairStockSpec
CONSTANTS
    q1 = q1
    q2 = q2
    q3 = q3
    north = north
    south = south
    web = web
    None = None
    Request = {q1, q2, q3}
    Warehouse = {north, south, web}
    Overdraft = {web}
    Supply <- ThreeShelves
    Jobs <- MixedJobs
INVARIANTS
    ShelfMatchesMovements
    NoNegativeShelf
PROPERTY
    KeepsShelves
    EveryRequestAnswered
