SPECIFICATION SupFairSpec
CONSTANTS
    MaxLimit = 3
    base_ms = 200
    max_ms = 10000
PROPERTY KeptAlive
CHECK_DEADLOCK FALSE
