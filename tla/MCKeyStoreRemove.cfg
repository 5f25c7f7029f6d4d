CONSTANTS
    c1 = c1
    c2 = c2
    k1 = k1
    k2 = k2
    k3 = k3
    s1 = s1
    None = None
    Callers <- MCCallers
    Keys <- MCKeys
    SymKeys <- MCSymKeys
SPECIFICATION Spec
SYMMETRY MCSymmetry
INVARIANTS
    RemoveReportsRemoval
