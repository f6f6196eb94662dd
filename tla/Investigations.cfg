CONSTANTS
    r1 = r1
    r2 = r2
    s1 = s1
    o1 = o1
    None = None
    Jobs = 2
    Actionable = {1}
    Owner = {o1}
    OwnerOf <- OneOwner
    Runner = {r1, r2}
    Sender = {s1}
    MaxConcurrency = 2
    OwnerLimit = 1
    MaxAttempts = 2
    Budget = 1
SPECIFICATION FairSpec
INVARIANTS
    TypeOK
    WithinLimits
    ResultIsLastAttempt
PROPERTIES
    EveryJobEnds
    DecisionArrives
    RelaysAtLeastOnce
