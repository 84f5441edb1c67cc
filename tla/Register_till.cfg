\* Two tabs of one cashier, two shifts, a token, two carts of three lines where one may be
\* parked, six requests.
SPECIFICATION Spec
CONSTANTS
    Worker = {w1, w2}
    Token = {t1}
    Cart = {c1, c2}
    Line = {l1, l2, l3}
    MaxShift = 2
    MaxCarts = 1
    Limit = 6
    None = None
SYMMETRY Alike
INVARIANTS CountBalances LockedTokenOnce VoidsHold CartsWithinLimit
