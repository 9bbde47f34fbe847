SPECIFICATION Spec
CONSTANTS
    Proc = {p1, p2}
    NULL = NULL
SYMMETRY Symmetry
INVARIANTS
    ActiveHasBasis
    VerifiedIsApproved
