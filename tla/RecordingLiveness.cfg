SPECIFICATION FairSpec
CONSTANTS
    Person = {p1}
    Host = p1
    Rec = {r1}
    Handler = {h1, h2}
    Courier = {c1}
    CallsFail = FALSE
    Unnamed = {}
    NULL = NULL
CHECK_DEADLOCK FALSE
PROPERTIES
    ReconcileStopsLinked
    LinkedRowsSettle
