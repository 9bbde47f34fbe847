SPECIFICATION Spec
CONSTANTS
    Person = {p1}
    Host = p1
    Rec = {r1, r2}
    Handler = {h1, h2}
    Courier = {c1}
    CallsFail = TRUE
    Unnamed = {"STARTING", "ACTIVE"}
    NULL = NULL
SYMMETRY Interchangeable
CHECK_DEADLOCK FALSE
INVARIANTS
    OneInFlight
    CompletedIsReal
PROPERTIES
    LinkedTerminalIsFinal
