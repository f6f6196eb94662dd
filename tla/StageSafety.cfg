CONSTANTS
    k1 = k1
    k2 = k2
    w1 = w1
    w2 = w2
    r1 = r1
    r2 = r2
    Key = {k1, k2}
    Worker = {w1, w2}
    Reconciler = {r1}
    Unsupported = {k2}
    Legacy = {k2}
    Lease = 1
    Skew = 1
    Horizon = 2
SPECIFICATION Spec
SYMMETRY Symmetry
INVARIANTS
    TypeOK
    AtMostOneSend
    OneTruth
    TruthfulEvidence
    ResolutionBacked
PROPERTIES
    FinalRows
    ImplementsContract
