\* Two orders, a coupon good for one use, four requests from two workers.
SPECIFICATION Spec
CONSTANTS
    Order = {o1, o2}
    Worker = {w1, w2}
    Limit = 4
    MaxUses = 1
SYMMETRY Both
INVARIANTS OrderIsWhole PaidStands CouponCounted FinishedIsBooked
