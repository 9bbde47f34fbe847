SPECIFICATION FairSpec
CONSTANTS
    Person = {p1, p2}
    Host = p1
    Rec = {r1}
    Handler = {h1, h2}
    Courier = {}
    CallsFail = FALSE
    Unnamed = {}
    NULL = NULL
CHECK_DEADLOCK FALSE
PROPERTIES
    WithdrawalStops
