SPECIFICATION StoreSpec
CONSTANTS
    Publishers = {"p", "q"}
    MaxInstalls = 3
INVARIANT UninstalledStaysGone
CHECK_DEADLOCK FALSE
