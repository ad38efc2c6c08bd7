SPECIFICATION Spec
CONSTANTS
    r1 = r1
    r2 = r2
    gpu0 = gpu0
    dual = dual
    large = large
    other = other
    small = small
    Request = {r1, r2}
    Scope = {gpu0}
    ScopeOf <- MCOneScope
    Model = {large, other, small}
    Size <- MCSize
    Capacity = 7
    Serialize = TRUE
    MaxCount = 3
    NoModel = NoModel
INVARIANTS
    TypeOK
    CommitmentsFit
SYMMETRY MCSymmetry
