CONSTANTS
    p1 = p1
    p2 = p2
    t1 = t1
    t2 = t2
    t3 = t3
    t4 = t4
    t5 = t5
    Failures = 2
    Publisher = {p1, p2}
    Token = {t1, t2, t3, t4, t5}
    Take = 2
    Lease = 1
    BaseBackoff = 1
    MaxBackoff = 1
    MaxAttempts = 2
    Stall = 1
    Skew = 1
SPECIFICATION Spec
SYMMETRY Symmetry
INVARIANTS
    TypeOK
PROPERTIES
    RelaysAtLeastOnce
    LeaseRespected
    OnlyHolderSettles
    StampIsFinal
