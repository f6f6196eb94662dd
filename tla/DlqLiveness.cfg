CONSTANTS
    p1 = p1
    p2 = p2
    t1 = t1
    t2 = t2
    t3 = t3
    t4 = t4
    t5 = t5
    Failures = 2
    Publisher = {p1}
    Token = {t1, t2, t3, t4}
    Take = 2
    Lease = 2
    BaseBackoff = 1
    MaxBackoff = 2
    MaxAttempts = 2
    Stall = 1
    Skew = 0
SPECIFICATION FairSpec
PROPERTIES
    EventuallyStamped
