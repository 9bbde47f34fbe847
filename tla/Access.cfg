\* Three people, two requests at a time, a class with room for one or unlimited; and two
\* learners in a class of two sessions.
SPECIFICATION MCSpec
CONSTANTS
    User = {u1, u2, u3}
    Handler = {h1, h2}
    MaxCapacity = 1
    MaxTrail = 3
    NULL = NULL
    Learner = {n1, n2}
    Lesson = {s1, s2}
    MaxPending = 1
    Never = Never
CONSTRAINT TwoViewers
SYMMETRY Interchangeable
INVARIANTS
    TypesOK
    OvershootBound
    TrailAccounts
    RevocationBites
    NoSilentPlay
PROPERTIES
    CompletionStands
