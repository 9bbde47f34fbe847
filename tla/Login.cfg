SPECIFICATION Spec
CONSTANTS
    Email = {e1}
    Phone = {p1}
    Federated = {f1}
    User = {u1, u2}
    Handler = {h1, h2}
    maxCodeAttempts = 1
    MaxChallenge = 2
    NULL = NULL
CONSTRAINT TwoSessions
SYMMETRY Interchangeable
INVARIANTS
    SessionsGoToOwner
    StepUpProvesOwner
    OverrunBound
