CONSTANTS
    a1 = a1
    a2 = a2
    a3 = a3
    q1 = q1
    q2 = q2
    w1 = w1
    w2 = w2
    d1 = d1
    d2 = d2
    Last = 1
    Approval = {a1, a3}
    Approved <- OnEach
    Request = {q1}
    Worker = {w1}
    Dispatcher = {d1}
SPECIFICATION FairSpec
PROPERTIES
    RunContinues
    ReplaysEnd
    RelaysAtLeastOnce
