SPECIFICATION PresenceFairSpec
CONSTANTS
    Worker = {w1}
    Batch = 2
    MaxEvent = 3
CHECK_DEADLOCK FALSE
PROPERTIES
    AllEventsFolded
