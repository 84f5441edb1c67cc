SPECIFICATION Spec
CONSTANTS
    q1 = q1
    q2 = q2
    q3 = q3
    north = north
    south = south
    west = west
    None = None
    Request = {q1, q2, q3}
    Warehouse = {north, south, west}
    Overdraft = {}
    Supply <- NorthOnly
    Jobs <- DocJobs
INVARIANTS
    CompletedDelivered
    GoodsFollowDocument
