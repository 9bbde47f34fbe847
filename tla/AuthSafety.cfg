\* Chains of three refresh tokens, or two tokens and two bumps of token_version.
SPECIFICATION Spec
CONSTANTS
    User = {u1}
    Token = {t1, t2, t3}
    Handler = {h1, h2}
    MaxVersion = 2
    MaxRows = 2
    NULL = NULL
CONSTRAINT LongChainOrGenerations
SYMMETRY Interchangeable
CHECK_DEADLOCK FALSE
INVARIANTS
    OneLivePerFamily
    SealedFamiliesStayDead
PROPERTIES
    RejectedStaysRejected
    BumpKillsOutstanding
    NoSessionWithoutStanding
