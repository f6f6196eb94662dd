CONSTANTS
    a = a
    b = b
    p1 = p1
    w1 = w1
    w2 = w2
    q1 = q1
    q2 = q2
    Run = {a, b}
    Actions <- MCEmpty
    Processor = {p1}
    Worker = {w1}
    Partition = {q1}
    Batch = 2
    MaxFaults = 0
SPECIFICATION FairSpec
CHECK_DEADLOCK FALSE
PROPERTIES
    EveryRunEnds
