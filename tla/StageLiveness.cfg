CONSTANTS
    k1 = k1
    k2 = k2
    w1 = w1
    w2 = w2
    r1 = r1
    r2 = r2
    Key = {k1, k2}
    Worker = {w1}
    Reconciler = {r1, r2}
    Unsupported = {}
    Legacy = {k2}
    Lease = 1
    Skew = 0
    Horizon = 1
SPECIFICATION FairSpec
PROPERTIES
    EventuallyDecided
