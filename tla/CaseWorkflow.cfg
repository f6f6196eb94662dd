CONSTANTS
    d1 = d1
    d2 = d2
    s1 = s1
    s2 = s2
    g1 = g1
    e1 = e1
    e2 = e2
    k1 = k1
    k2 = k2
    ks = ks
    kg = kg
    ke = ke
    p1 = p1
    None = None
    Call = {d1, d2, s1, s2, g1, e1, e2}
    Kind <- MCKind
    Key <- MCKey
    Proposal = {p1}
    Decides <- MCDecides
SPECIFICATION Spec
SYMMETRY Symmetry
INVARIANTS
    TypeOK
    AppliedOnce
    DecisionIsWhole
    NoLostEdit
PROPERTY ImplementsLedger
