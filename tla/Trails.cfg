\* Three transactions on the log with two rows to change, one checkpoint worker on five
\* rows in batches of two, and every tree of up to seven leaves.
SPECIFICATION TrailsSpec
CONSTANTS
    Writer = {w1, w2, w3}
    Entry = {e1, e2, e3}
    Target = {u1, u2}
    MaxSeq = 3
    Genesis = Genesis
    NULL = NULL
    Worker = {p1}
    Batch = 2
    MaxEvent = 5
    Leaf = {x, y}
    MaxLeaf = 7
CHECK_DEADLOCK FALSE
INVARIANTS
    ChainVerifies
    NeverDoubleCovers
    TreeIsSound
PROPERTIES
    ImplementsLedger
    AppendsReturn
    VerifiedStays
    RowsGetVerified
