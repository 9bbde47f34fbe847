\* A direct session with room for two and three people who want in, or a class
\* of two whose instructor is one of them; two requests at a time, with any claims.
SPECIFICATION Spec
CONSTANTS
    User = {u1, u2, u3}
    ClassOwner = u1
    Handler = {h1, h2}
    MaxDirect = 2
    NULL = NULL
CONSTRAINT SmallClass
SYMMETRY Interchangeable
INVARIANTS
    DirectCap
    TrailIsFaithful
    OnlyOwnerPublishes
PROPERTIES
    ImplementsRoster
