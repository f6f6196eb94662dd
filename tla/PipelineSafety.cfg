CONSTANTS
    a = a
    b = b
    p1 = p1
    w1 = w1
    w2 = w2
    q1 = q1
    q2 = q2
    Run = {a, b}
    Actions <- MCMixed
    Processor = {p1}
    Worker = {w1, w2}
    Partition = {q1, q2}
    Batch = 2
    MaxFaults = 2
SPECIFICATION Spec
SYMMETRY Symmetry
CHECK_DEADLOCK FALSE
INVARIANTS
    TypeOK
    LinearProgression
    CommittedIsSettled
    NoRunStranded
PROPERTIES
    RelaysAtLeastOnce
