\* Any three requests on one cashier's sessions: sales, cash, breaks, duplicates and retries
\* with one key; all of them answered.
SPECIFICATION FairSpec
CONSTANTS
  r1 = r1  r2 = r2  r3 = r3  k1 = k1
  NoKey = NoKey  None = None
  Request = {r1, r2, r3}
  Key = {k1}
  Jobs <- AllJobs
  MaxSession = 4
  Float = 1000
  SoldUnits = 2
INVARIANTS CountersMatchDrawer RecomputedCashAgrees NoOverReturn AtMostOncePerKey
PROPERTIES ClosedFiguresStand KeepsPromise EveryRequestAnswered
